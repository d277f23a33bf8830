# A TLA+ verification development for UyuniAI

UyuniAI is a monitoring agent: it polls Prometheus and the Salt API, turns
thresholds and service states into anomalies, keeps a durable row per incident,
lets rules or an LLM agent investigate what is new or worse, and delivers the
result to Alertmanager.  This directory models the part of it where things can go wrong
without any single function being wrong: several asyncio tasks, a bounded
priority queue, a database that must survive restarts, three remote services
that fail, and circuit breakers between them and the agent.

All paths below are relative to `uyuni_ai_agent/` unless they say otherwise.

## 1. Inventory

| Component | State it keeps | Operations | Talks to |
|---|---|---|---|
| Investigation queue (`investigation_queue.py`) | heap and `_pending`, `_in_flight`, `_accepting`, `_closing`, worker tasks | `start`, `enqueue`, `cancel`, `_next`/`_worker`, `close` | called by the poll loop; its workers call the handler |
| Circuit breakers, dependency manager (`resilience.py`) | `_state`, `_consecutive_failures`, `_opened_at`, `_probe_in_flight` per dependency | `snapshot`, `acquire`, `record_*`, `execute`, `record_external_*` | wraps every call of Salt, Prometheus, LLM, Alertmanager |
| Incident store (`incident_store.py`) | the SQLite table `incidents` | `reconcile`, `mark_emitted`, `mark_resolved`, `is_actionable` | poll loop and handlers |
| Lifecycle (`main.py`) | the local variables of the poll tasks and handlers | `process_minion_anomalies`, `process_firing_investigation`, `execute_poll_cycle`, `run` | all of the above |
| Alert delivery (`alert_manager.py`) | none | `build_*_payload`, `send_alert_payload` with three attempts | Alertmanager |
| Detection (`anomaly_detector.py`) | none | `check_all_metrics`, `telemetry_anomalies`, `check_failed_services`, `postgres_blocking_anomalies` | readings of the Prometheus client, answers of Salt |
| Correlation (`anomaly_detector.py`) | `_first_seen`, the candidates held back | `DependencyCorrelationWindow.correlate` | anomalies of all minions of a cycle |
| Salt session (`salt_api.py`) | the cookie of the HTTP client, `logged_in`, the login lock, `salt_semaphore`, allowed minions | `_safe_call`, `_call`, `_ensure_login`, `login`, `start` | Salt API, through the circuit of `"salt"`; kept alive by `maintain_salt_session()` |
| Inventory (`inventory.py`) | `_last_good`, `_refreshed_at`; of the Uyuni client the session and `_logged_in` | `refresh`, `_get`, `login` | Uyuni API and Prometheus |
| Readiness (`observability.py`) | time of the last successful poll, last outcome of each dependency, the probe server | `record_poll`, `record_dependency`, `ready` | every component reports to it |
| Prometheus client (`prometheus_client.py`) | none | `get_all_metrics`: queries whose result is ok, missing, stale or an error | Prometheus |
| Investigation (`react_agent.py`, `deterministic_analysis.py`, `*_inspection.py`) | the evidence ledger of one investigation | `investigate`, `collect_required_*_evidence`, the analyzers | Salt, the LLM, through the circuit of `"llm"` |
| Evidence (`evidence.py`, `models.py`) | the records of a ledger | `add`, `evidence_status_for`, `ground_analysis` | the investigation |
| Configuration, logging, tracing, evaluation | none that changes | start-up only | - |

The behaviours that are hard to test, and what must hold nevertheless:

* *Everything is one event loop.*  A task loses control only where it awaits
  something that is not there yet.  Decisions taken before such a point are
  used after it: work and payloads of `reconcile()` are used after the delivery
  of other resolutions, a worker acts on a job queued many polls ago.
  What must hold: one investigation per incident, alerts that can be resolved
  from what the row remembers, no resolution of an incident that still fails.
* *The queue is bounded and shut down under load.*  Eviction, coalescing,
  cancellation and `close()` all interleave with workers.  What must hold: the
  order, the bound, no lost wakeup, and a `close()` that ends.
* *Everything remote fails.*  An LLM call may produce nothing, an alert may
  arrive without its acknowledgement, the poll cycle may be cancelled, the
  process may restart, Salt may be away.  What must hold: what was not
  acknowledged is retried, what was acknowledged is remembered.
* *A breaker sees outcomes late.*  Several calls are in flight, each with an
  outcome that belongs to an older state of the circuit.  A
  deadline cancels a call in the middle.  What must hold: state and count agree,
  a dependency that is down is asked once per recovery timeout, and only a
  cancelled probe leaves the flag behind.
* *Measurements lack pieces.*  Each of some twenty queries, and each Salt call,
  may be answered, be stale, be missing or fail by itself, and what is left of
  a snapshot decides about alerts and resolutions.  What must hold: a gap is
  reported and neither alarms nor resolves by itself.
* *A diagnosis is only as good as its evidence.*  Evidence ages while other
  calls and the model are waited for; calls fail one by one or as a batch; the
  model cites what it likes.  What must hold: a confirmed diagnosis rests on
  fresh records that were collected, and every investigation ends.
* *Symptoms of two hosts make one incident.*  Candidates are held back over
  polls that may be late, cut short or lack a minion.  What must hold: nothing
  persistent is held back for ever, chains follow configured edges only.
* *A session expires under several users.*  `logged_in` is written by every
  inspection and by the maintainer, around awaits; a 401 may concern a session
  that somebody has renewed already.  What must hold: an expiry is invisible to
  callers, slots and lock are given back, the session is restored after faults.

The complete list of hazards, each with the line where it bites and the
properties about it, is in `PROJECT.json`.

## 2. Modules

    InvestigationContract      the ledger: absent, pending, in flight
          ^ refines
    InvestigationQueue  <---- InvestigationQueueProofs      (theorems)
          ^ INSTANCE
    IncidentLifecycle  ----> IncidentStore  <---- IncidentHistory
          ^                        ^                   ^
    IncidentLifecycleProofs        |                   |
          ^   (theorems)           |                   |
    IncidentDeliveryProofs         |                   |
          |   (theorems)           |                   |
          v                        |                   |
    IncidentDelivery               |            IncidentHistoryProofs (theorems)
                                   |
    PollCycleProofs (theorems)     |
          |                        |
          v                        |
    PollCycle -------------------- + ----> Inventory, DependencyCorrelation,
          |                                Readiness
          | INSTANCE, for Salt and for Prometheus
          v
    CircuitBreaker  <---- CircuitHistory  <---- CircuitBreakerProofs (theorems)
          ^
          | INSTANCE
          +------ SaltSession  <---- SaltSessionProofs (theorems)
          |
          +------ Diagnosis  <---- DiagnosisProofs (theorems)
                      |
                      v
      Investigation, DeterministicAnalysis -> Evidence
      Detection -> Telemetry
      AlertDelivery

Three compositions look at the agent from three sides: `IncidentLifecycle` at
what becomes of an incident between rows, queue, workers and Alertmanager;
`PollCycle` at the loop that feeds it; `Diagnosis` at what one measurement and
one investigation are made of.  Each keeps what the others abstract from.

`MC*.tla` only name the members of the sets of an instance; the `.cfg` files
give the constants their values.

**InvestigationQueue.**  `heap` stands for `_heap` and `_pending`, which change
together; its domain is the set of pending fingerprints.  A sequence number is
only ever compared with others, so an item carries instead the set `ahead` of
pending items with a smaller number: the state space stays finite and the order
exact.  Every `async with self._condition` section runs to its end without
awaiting anything else, so the lock is free whenever it is requested and each
section is one action: `Enqueue` (`Refuse`, `Coalesce`, `Push`, `Evict`),
`Cancel`, `Take`, `Sleep`, `Stop`, `Finish`, and the steps of `close()`.  `pc`
says where each worker task is: `"waiting"` on the condition, `"ready"` to
evaluate the predicate of `_next()` again, `"running"` its handler,
`"cancelled"` with its `finally` still to come, or `"done"`.  The statistics
counters and `wait_idle()`, a helper of the tests, are left out, and so is a
second call of `close()`.

**InvestigationContract** is what a caller may rely on.  `KeepsContract` is the
refinement: `ledger` is computed from `heap` and `inFlight`, `open` is
`accepting`.

**CircuitBreaker** is one dependency: the breaker and the calls `execute()` has
in flight.  `call[c]` remembers as what a call was admitted, which the code
does not, and is what makes late outcomes visible.  Time is the age of
`_opened_at` in ticks.  `_effective_state()` changes the state of the circuit
when it is *read*; `effective_state` and `effective_probe` are its result, and
`Snapshot` is any reader.  A cancelled call (`CancelCall`, of callers in
`Cancellable`) reports nothing: `execute()` re-raises.  **CircuitHistory** adds
the time since a probe was last let through to a dependency that has not
answered since, which neither the age of the opening nor the flag can tell.

**SaltSession** composes the breaker of `"salt"` (`Circuit!`) with the
inspections that use the session (`_safe_call()`) and with
`maintain_salt_session()`.  A caller is `"started"` once the circuit has
admitted it, then `"locking"` and in `"login"` if the flag is down,
`"queueing"` for a slot, `"posting"`, and at last at an outcome that
`execute()` still has to report: in Python 3.11, which the container uses,
`wait_for()` runs the operation as a task, so others may step in between.  The
login lock is held by whoever is in `"login"` (a waiter looks at the flag
again), a slot by whoever is `"posting"` or in the renewal after its 401
(`retried`).  `stale` are the requests under way that the server will refuse,
because the session expired before it served them.  A deadline of the
poll loop may cancel an inspection wherever it waits (`Cancelled`): it gives back
what it holds, and its circuit learns of no outcome.  The maintainer runs under
no deadline.  Its pauses have no length here.

**IncidentStore** is the table.  A row keeps what decisions read: status, the
count of absences up to its threshold, the generation (`starts_at`, compared
for equality only, counted modulo `Generations`), the severity delivered last
(which stands for the stored payload too: severity is the only label that
varies), and whether the cooldown still runs.  `changes[m]` is what the last
`reconcile()` of minion `m` returned.  **IncidentHistory** adds two history
variables that follow what really happened, to state what the columns mean.

**IncidentLifecycle** composes store and queue (`Store!`, `Queue!`) with the
poll tasks, the handlers and Alertmanager.  `turn` is the task that has started
to run and has not yet reached an await that blocks; no other task steps
meanwhile, which is what asyncio guarantees and no more.  The points where a
task gives `turn` away are exactly those where the code waits for an answer
(the resolution, the LLM, the withdrawal of a label set, the alert) or for
work.  A delivery is two steps, Alertmanager applying it and the task learning
of it, so that an answer may be lost between them.  Alertmanager identifies an
alert by its labels; `alerts[f]` is the set of severities with which incident
`f` fires.

Faults, each drawn from a budget `MaxFaults`: `"abort"` (an investigation
without analysis, a stale job, a failed delivery, a deadline), `"astray"` (a
request is given up, at its own timeout or at a deadline, and may be applied later and
repeatedly, or its answer is lost), `"poll"` (the poll-cycle deadline
cancels the waiting poll tasks), `"crash"` (a restart: rows and alerts survive,
nothing else does) and `"salt"` (a snapshot without what only Salt can see).
`stray` holds the requests given up; `deliver_alert()` may go on and send again,
or its caller has turned away.  The circuits of the LLM and of Alertmanager may
refuse a call at any time and without a budget (`Refused`, `ResolutionRefused`):
what state they are in is not modelled here, only what a refusal does.

**IncidentDelivery** adds the history variable `overtaken`: the incidents of which
a delivery was acknowledged while the poll task of their minion, having read the
row before, still waited with a decision about them.

**PollCycle** is `run()` and `execute_poll_cycle()`: `phase` is where the loop
is, `pc[m]` how far the snapshot of minion `m` is.  A *symptom* is an anomaly a
minion suffers from; it is read from Prometheus when the snapshot begins and
from Salt later, so a snapshot may see one half of a change.  An incident that
`reconcile()` resolves is closed in the same cycle (`Close`); deliveries are in
`IncidentLifecycle`.  Every call of a snapshot and every login of the maintainer
is asked of a circuit first (`AskMetrics`, `AskSalt`, `AskLogin`); a refusal makes
the dependency unavailable, and a deadline drops the calls under way without an
outcome (`CancelCalls`).  It composes
* **CircuitBreaker** twice, for `"salt"` and for `"prometheus"`.  The circuits know
  the calls of snapshots and logins; those made by investigations, which share
  them in the code, are in `Diagnosis`.
* **Inventory**, `InventoryProvider.refresh()` and the session of
  `UyuniAPIClient`: three requests side by side, each waiting for the lock,
  logging in, sent, refused, sent again.  Of the answers only the set of listed
  minions is kept.
* **DependencyCorrelation**, the pairing of an Apache with a PostgreSQL symptom
  (`correlate_pair`) and the window that holds candidates back (`first_seen`,
  ages in ticks up to `Grace`).
* **Readiness**, age of the last successful poll, last outcome of each required
  dependency, and the probe server.
* **IncidentStore**.

**Diagnosis** follows one minion from the queries of a poll to the alert.
**Telemetry** has one answer per query, in the order of `get_all_metrics()`, and
what is made of them: `ReadingOf` and the derived percentages.  **Detection** is
what becomes of the readings and of the two Salt discoveries: thresholds, blind
spots, memory pressure and its effect on the CPU alarm, failed units, lock
waits.  **Investigation** is `investigate()`: a batch of calls, what the answers
lead to, a rule or the model, grounding; `elapsed` is the time under the
deadline of `execute("llm")`.  **Evidence** and **DeterministicAnalysis** are its
pure parts: a record has a check, a subject, a status, a text and an age, and a
text stands for what pattern matching finds in it.  **AlertDelivery** is the
retry loop of one alert.  The circuit of the model is `LLM!`, an instance of
`CircuitBreaker` with one caller.  `asyncio.gather()` joins its calls before
anything is used, so a batch is one step that returns or raises as a whole.

Some modules hold operators whose comment begins with "Variant with a bug".
No action uses them: each is a plausible mistake in the definition below it,
and substituting it makes one property fail.  `PROJECT.json` pairs them; they
show that the properties can tell the code from its near misses.

## 3. Runs

| Run | Instance | Distinct states | What it shows |
|---|---|---|---|
| `queue_safety` | 4 incidents, 3 severities, 2 workers, 2 places | 4,431 | safety of the queue, `close()` ends although handlers may hang, critical work is not starved when they do not, refinement of the ledger |
| `breaker_safety` | 3 callers, threshold 3, cancellations, external reports | 293 | state and count agree, probes are spaced, only a cancelled probe is lost |
| `salt_session` | 2 inspections and the maintainer, 1 slot, threshold 1, 2 expiries and 1 fault | 73,110 | an expiry fails no call, nothing is leaked, session and circuit recover for good or a deadline cancelled a probe |
| `store_history` | 2 minions with an incident each, 2 severities, threshold 2, 3 generations | 123,201 | rows remember what happened |
| `lifecycle_faults` | 1 incident, 2 severities, any 2 faults of all kinds | 147,915 | jobs, acknowledgements and what fires, under faults; persistent anomalies are reported, vanished ones resolved |
| `lifecycle_pair` | 2 incidents of 1 minion, 1 severity, any fault but `"salt"` | 3,572,696 | cooldown and what fires, while a poll task awaits the resolution of the other incident |
| `poll_cycle` | 2 minions with a symptom each, with and without an edge, 5 scenarios | 694,412 | rows change only through a snapshot, chains only along an edge, nothing persistent is silenced, inventory and readiness recover or a deadline cancelled a probe |
| `diagnosis` | a host with Apache and PostgreSQL, 19 series, 3 units, 4 scenes | 713,415 | gaps are reported and raise no alarm, confirmed diagnoses are grounded, investigations end |

Four fingerprints against two places are the smallest instance in which an
eviction chooses between pending items while a worker holds another; three
severities give an eviction, a refusal and a tie.  Three callers are enough for
a probe, a late outcome and a refused call at once.  Two generations tell a
late acknowledgement from a timely one; three are used where a generation may
be skipped.  With two inspections and one slot one of them renews the session
while the other waits for the slot it keeps; two slots, in the run below, let
both be refused at once.  The threshold of 1 lets one fault open the circuit;
two expiries are needed for a retry to be refused too.  In `lifecycle_pair` a single
absence resolves (`ResolveAfter` = 1), so that one incident is resolved while the other is due.
Deadlock is checked in every run.

`poll_cycle` divides what may happen into scenarios, because all of it together
has too many interleavings: symptoms that come and go with a Prometheus fault or
a deadline, without an edge; the same with an edge and slow cycles; systems that
are registered and removed while requests fail, sessions expire and the agent
restarts; and a world that stands still under any one fault, or any two with
an edge.  Symptoms change only while snapshots are taken and registrations only
during a refresh, the only times they are read.  Requests of a refresh whose
steps commute are taken in one order (`Before`).  A tick is 60 s, the polling
interval; the default grace of 90 s is then two ticks.

`diagnosis` divides its measurements into four scenes: memory, swap and CPU with
up to three answers out of the ordinary at once; the exporter and the file
systems with one, next to what Salt discovers; the services' series with two;
Salt alone.  Each series has every way to be unusable next to values beyond its
thresholds.  `MaxTrouble` = 2 calls of an investigation go wrong.  The model may
cite the first two records, the last, the failed ones and one that does not
exist, in any pair (`Citable`).  `LlmSeconds` = 1 tick and `MaxEvidenceAge` = 0
make evidence fresh or stale within the deadline.  After detection the scene is
forgotten, for nothing reads it again.  With two candidate units the cut of
three is not reached.  Chains are detected in `PollCycle` and not investigated here.

The liveness properties of `lifecycle_faults` have two premises.  `NothingAstray`:
no request given up was applied or still may be.  An alert that Alertmanager
took, or takes later, without an acknowledgement is not in the row, and if the
anomaly recovers before it is sent again nobody knows that there is something to
resolve; `EmittedMeansDelivered` and `AlertsAreRemembered` say what holds then.  A
real Alertmanager forgets an alert that is not repeated (`resolve_timeout`), which
is external and left out.  Aborts, cancelled cycles, crashes, refusals and
requests lost on their way are within the premise.  `RefusalsEnd`: a circuit that
refuses for ever, as a lost probe makes it, lets nothing be delivered.

`CooldownIsRespected` and `AlertsAreRemembered` are about incidents outside
`overtaken`: what the code delivers or closes on a decision that was overtaken is wrong, as
`stale_resolution` shows.  Number, order and interleaving of incidents are not
limited otherwise, and `lifecycle_pair` has two on a minion.

Four further runs are expected to be violated; each states what a comment or a
document of the repository says and the code does not do:

| Run | Property | What the counterexample shows |
|---|---|---|
| `breaker_lost_probe` | `RecoveryAdmitsProbe` | `execute()` re-raises `CancelledError` without lowering `_probe_in_flight` (`resilience.py:219`); after a cancelled probe the circuit refuses everybody for ever |
| `stale_resolution` | `ResolutionUsesLastEmitted` | an incident delivered while its poll task awaits another resolution is closed silently (`main.py:538`); its alert keeps firing |
| `failing_resolved` | `FailingSymptomStaysOpen` | a chain clears the window (`anomaly_detector.py:452`); when its Apache half recovers, the blocked transaction is held back for the grace period, during which two polls count it as healthy and resolve it |
| `silent_disk` | `FailuresProveNothing` | a `disk.usage` job that did not return becomes the text `"False"` (`salt_api.py:302`), a record that is ok, and a confirmed crash loop cites it |

`breaker_lost_probe` is about one circuit.  What follows for the agent is in
`poll_cycle`: a deadline of the poll loop that cancels the probe of Salt shuts out
inspections and logins, each refusal makes Salt unavailable, and readiness stays
away, which is the exception `ShutOut` that `ReadyRecovers` has to allow.

`stale_resolution` uses no fault at all; it needs two incidents on one minion,
because the awaited resolution of one is what makes the other's decision stale.
The same window has two more effects, for incidents in `overtaken`: an incident
that was delivered meanwhile is queued again from the older decision
(`main.py:590`), investigated and delivered a second time in its cooldown, which
`docs/configuration.md:248` calls the re-investigation interval; and an earlier label
set may stay in Alertmanager next to the new one, because the set to withdraw is
the one an earlier `reconcile()` saw (`main.py:371`).  `resolve_timeout` limits the
damage of `stale_resolution` and does not prevent it.

### Other disagreements met while modelling

They follow from the modelled definitions and have no run of their own:

* `record_failure()` lowers the probe flag whichever call failed
  (`resilience.py:112`), so a second probe may be admitted next to a running one
  (line 54 speaks of one half-open probe).
* `_call()` lowers `logged_in` on every 401, also on one that answers a request
  sent with an older cookie (`salt_api.py:246`): a valid session is renewed again.
* A snapshot without its Salt checks is reconciled like a complete one
  (`main.py:525`): two polls without a session resolve a service incident that
  never recovered.  It is the class of `failing_resolved`: absence from a
  snapshot counts as health whatever the reason.
* The whole of `investigate()` runs inside `execute("llm")` (`main.py:328`): Salt
  timeouts open the circuit of the model, which then refuses also what needs no
  model, while `docs/architecture.md:145` lets deterministic paths continue.
  `Refused_investigation` does so with a `telemetry_unavailable` anomaly.
* The prompt of a memory anomaly formats readings that may be `None`
  (`react_agent.py:250`, `PromptRaises`); the TypeError fails the investigation at
  every poll, and the alert is never sent.
* The detector's finding (E1) counts as fresh from the start of the
  investigation, although sample age and time in the queue come on top.
* Inspection output that cannot be parsed is read as nothing found
  (`Discovered`), and file system samples out of range are dropped silently when
  another mount is valid (`FilesystemReading`).
* Swap activity that was not measured counts as active swapping if its warning
  threshold is zero (`anomaly_detector.py:549`, section 5): a memory alarm is raised,
  and a busy CPU explained away, by what nobody measured.
* The text of a dependency inspection holds both ends, so a failed end makes no
  failed record (`OneEndFailed`).

## 4. Fairness

Fairness is stated only where the code's scheduling justifies it.

* Queue: a task that is ready runs (WF on each worker's `Take`, `Sleep`,
  `Stop`), a cancelled handler reaches its `finally`, timers fire.
  `QueueSpec` does *not* assume that handlers end, and `CloseCompletes` holds
  without it.  `CriticalWorkIsServed` has it as its premise (`HandlersEnd`):
  `process_firing_investigation()` runs each handler under `asyncio.wait_for`
  with `investigation_seconds`.
* Breaker: time passes, every operation ends by its timeout, and callers come
  back at every poll.
* Salt session: every await ends (the requests have timeouts); strong fairness
  for the lock and the semaphore, which asyncio serves first come, first
  served; the maintainer's loop and the poll loop go on, the latter only while
  it believes that the session exists (`detect_minion()`); the server comes
  back.  The deadline that cancels an inspection is a fault of the budget.
  When it hits the probe the circuit may stay shut for ever;
  `OnlyDeadlinesLoseTheProbe` and `SessionIsRestored` say that nothing else does that.
* Poll cycle: time passes, also for the circuits, every request and snapshot of a
  cycle takes its next step, the maintainer tries to log in while the flag is
  down, the loop goes on, and systemd starts a stopped agent again.  No fairness
  for symptoms, registrations and faults; faults are bounded by the budget of a
  scenario, so liveness speaks of what happens after the last one.  `ReadyRecovers`
  and `PersistentSymptomIsOpen` leave open only `<>[]ShutOut`, a circuit whose flag
  stays up for a probe that a deadline cancelled.
* Diagnosis: only the clock, the two deadlines and `Finish` are fair.  Salt, the
  model and Alertmanager need not answer, and `InvestigationEnds` holds anyhow.
* Lifecycle: strong fairness for each task, because asyncio's ready queue is
  FIFO: a task that is ready again and again gets its turn even though others
  hold `turn` in between.  Weak fairness for Alertmanager answering.  No
  fairness for faults, refusals, changes of the anomalies, requests given up, or
  `Crash`; faults are finitely many because of the budget, so the liveness
  properties speak of what happens after the last one.

## 5. Proofs

`InvestigationQueueProofs` proves, for any set of incidents, any finite
non-empty set of workers and any `MaxPending > 0` (`QueueAssumption`, which
`__init__` enforces):

| Theorem | States |
|---|---|
| `QueueTypeCorrect` | `QueueSpec => []QueueTypeOK` |
| `OneInvestigation` | `QueueSpec => []OneInvestigationPerIncident` |
| `HeapOrder` | `QueueSpec => []HeapIsOrdered` |
| `WorkStaysBounded` | `QueueSpec => []WorkIsBounded` |
| `CloseIsFinal` | `QueueSpec => []ClosedMeansStopped` |
| `WakeupsAreNotLost` | `QueueSpec => []NoLostWakeup` |
| `OrderIsKept` | `QueueSpec => NoOvertaking` |
| `QueueKeepsContract` | `QueueSpec => KeepsContract`, the refinement |

None of the invariants but `NoLostWakeup` comes close to being inductive by
itself.  The inductive invariant is

    Inv == QueueTypeOK /\ ArrivalOrder /\ Holders /\ Bounded /\ Phases

* `ArrivalOrder`: of two pending items exactly one is ahead of the other.
  `HeapIsOrdered` needs it, and an eviction keeps it only because `Without`
  removes the evicted item from everybody's `ahead`.
* `Holders`: the busy workers have distinct jobs and together hold exactly
  `inFlight`, which is disjoint from the heap.  The direction "whatever is in
  flight has a worker" is what makes `inFlight = {}` follow once all workers
  have ended, and `|inFlight| <= |Workers|` follow from a surjection.
* `Bounded`: heap and `inFlight` are finite, without which the cardinalities
  in `Full` and in the shutdown report mean nothing.
* `Phases`: what the progress of `close()` says about the workers.  A worker
  that is `"done"` while `close()` is draining found the heap empty, and nothing
  is accepted any more; hence a drained queue is empty.

There is one lemma per operation (`CoalesceKeepsInv`, `PushKeepsInv`,
`EvictKeepsInv`, `CancelKeepsInv`, `TakeKeepsInv`, `FinishKeepsInv`,
`OtherStepsKeepInv`), resting on lemmas about `Without`, `NewItem`, `NotifyOne`
and `Woken`.

`NoLostWakeup` is preserved by each step that starts in `Inv`: a push adds at
most one item and wakes one sleeper, a worker that takes an item leaves the set
of the ready and shortens the backlog by one, and every other step wakes all
sleepers or leaves no backlog.  For `OrderIsKept`, `Settled` says that an item
that stays keeps its predecessors and that its priority only rises.  The
refinement has one lemma per operation (`EnqueueRefines`, `CancelRefines`,
`TakeRefines`, `FinishRefines`, `OtherStepsRefine`); the one that needs the
invariant most is `TakeRefines`, where the contract wants room among the
`worker_count` incidents in flight: the worker that takes is not busy, and each
incident in flight has a busy worker of its own.

`CircuitBreakerProofs` proves, for any set of callers and any positive
threshold and recovery timeout (`BreakerAssumption`, which `__init__`
enforces):

| Theorem | States |
|---|---|
| `BreakerTypeCorrect` | `BreakerSpec => []BreakerTypeOK` |
| `StateFollowsFailures` | `BreakerSpec => []FailuresDecideState` |
| `FlagIsHonest` | `BreakerSpec => OnlyCancellationLosesProbe` |
| `ProbesKeepTheirDistance` | `CircuitSpec => ProbesAreSpaced` |

Here `Inv == BreakerTypeOK /\ FailuresDecideState` is inductive as it stands.
`FailureProps` is the lemma that matters: the outcome may be that of a call
admitted in a state of the circuit long gone, and still state and count agree
afterwards.  The invariant deliberately says nothing about which call raised
the flag: with cancellations and late outcomes that cannot be known.
`FlagIsHonest` says of every step what the flag may lose: a probe whose outcome
arrives lowers it, as does any other failure or success, so a flag without a
probe is left behind only where a probe goes without an outcome.
`ProbesKeepTheirDistance` adds `Spaced`, which connects `since` with the circuit:
an open circuit was not opened longer ago than its last probe was let through,
and a half-open one without a probe has seen the whole timeout.  A late failure that
lowers the flag of a running probe also moves the opening to now, and that is why it
does not let a second probe through early.

`IncidentHistoryProofs` proves, for any incidents, minions, severities,
`ResolveAfter > 0` and `Generations > 0` (`StoreAssumption`):

| Theorem | States |
|---|---|
| `StoreTypeCorrect` | `HistorySpec => []StoreTypeOK` |
| `ResolutionsAreEarned` | `HistorySpec => []ResolutionIsEarned` |
| `UntoldIsRetried` | `HistorySpec => []UntoldIncidentsAreDue` |
| `RowsRememberDelivery` | `HistorySpec => []RowRemembersDelivery` |

The inductive invariant `HInv` adds `ColumnsAreHistory`: of an active row the
count of absences and the payload are what the history variables say.  The
other conjuncts then follow from what `reconcile()` compares the columns with.
`UntoldIncidentsAreDue` needs `CooldownNeedsDelivery` besides.  `ObserveKeeps` is
the large step, with the incidents of a snapshot, those gone from it and those
of other minions as its cases; the calls that write one row share `OneRowKeeps`.

`PollCycleProofs` proves, for any minions, symptoms, edges, scenarios and budget
of faults (`PollAssumption`):

| Theorem | States |
|---|---|
| `PollInvariant` | `Spec => [](PollInv /\ ...)`, from which the last three follow |
| `OnlyPolledChange` | `Spec => OnlyPolledMinionsChange` |
| `PollTypeCorrect` | `Spec => []TypeOK` |
| `ChainsNeedEdges` | `Spec => []ChainNeedsEdge` |
| `ChainsReplaceSymptoms` | `Spec => []ChainReplacesSymptom` |

The assumption says what the code makes of a symptom: its metric is one of the
two that are correlated, saturated workers have one resource per host
(`anomaly_detector.py:761`), and an identity stands for one symptom.  The inductive
invariant is `PollInv == LoopTypeOK /\ Bookkeeping /\ Sound(released) /\ RowsOK`:

* `Bookkeeping`: what waits to be closed belongs to the minion from whose snapshot
  it came and waits only while its cycle reconciles; without it `Close` might
  write a row of anybody.
* `Sound(released)`: of what the correlation and its window let through, a chain
  runs along an edge, and the saturated workers of its minion are not next to it.
  `ReleasedAreSound` shows it of any list of symptoms.  It uses that at most one
  Apache symptom of a minion can exist (`OneApache`): if a minion had two, only
  one of them would be merged.
* `RowsOK`: the two properties of the rows.  They are about rows of one minion, and
  a reconciliation opens or leaves confirmed only what was in the snapshot
  (`ReconciledRows`), so that `ChainReplacesSymptom` follows from `Sound` at that
  step (`ReconcileRows`) although it speaks of later states.

`DiagnosisProofs` proves, for any series, thresholds, texts, units and times
(`DiagnosisAssumption`):

| Theorem | States |
|---|---|
| `DiagnosesAreGrounded` | `Spec => []ConfirmedIsGrounded` |
| `InvestigationsUseTheCircuit` | every step is one of the breaker or leaves it alone |
| `AlarmsRestOnMeasurements` | `SwapHasThreshold` implies `Spec => []AlarmsAreMeasured` |
| `BusyCpuIsExplained` | `SwapHasThreshold` implies `Spec => []CpuIsExplained` |
| `NoHiddenBlindSpot` | `Spec => []BlindSpotsAreReported` |
| `DiagnosisTypeCorrect` | `Spec => []TypeOK` |

`GroundingGate` says what `ground_analysis()` guarantees of any analysis, also
one that cites what does not exist; `OnlyAnalysed` says that an analysis comes
from nowhere else.  The second theorem carries what is proved of the breaker
over to the circuit of the model.

The properties of detection speak of the state after the last answer; `DetectionInv`
connects it with the answers: once `stage` is `"detected"`, the anomalies are what
the definitions of `Detection` make of them.  The lemmas follow a value backwards
from an alarm through ratios and differences to samples (`ValueMeansSample`,
`WhoRaised`), since each derived value is `None` unless all its parts are there.
One place breaks that rule: `memory_pressure_anomaly()` takes swap activity that was
not measured for 0.0, and compares with `>=` (`anomaly_detector.py:549`).  A warning
threshold of zero, which `ThresholdBand` of `config_schema.py` admits, therefore makes
every such host one that swaps.  `SwapHasThreshold`, a warning of at least 1 like
the code's own default, excludes it and is the premise of the two theorems that
mention swapping; the other theorems hold without it.

`SaltSessionProofs` proves, for any callers and any `MaxSaltCalls > 0`
(`SessionAssumption`):

| Theorem | States |
|---|---|
| `SemaphoreHolds` | `SaltSpec => []MasterIsProtected` |
| `ExpiriesAreInvisible` | `SaltSpec => ExpiryIsInvisible` |
| `FlagsMeanProbes` | `SaltSpec => OnlyDeadlinesLoseTheProbe` |
| `InspectionsUseTheCircuit` | every step is one of the breaker or leaves it alone |

Inspections may be cancelled at any point.  `FlagsMeanProbes` follows each step of
the session to the step of the circuit it is and applies what holds of that.
`MasterIsProtected` counts the requests under way;
it is not inductive, because a caller whose request was refused with a 401 posts
again without passing the semaphore.  `SlotInv` counts the slots instead: such
a caller keeps the one it has while it renews the session (`SlotsTaken`), so
that only `EnterSemaphore` adds to them.

`ExpiryIsInvisible` needs `SessionInv`, which counts expiries: a caller on its way
to the server with a dead cookie is evidence of one, and of two if it has been refused before.  What makes it subtle is `logged_in`: a caller that
renews may find the flag raised again by somebody else and skip the login, so the
cookie it goes on with is dead only if it expired after that login
(`~cookieLive /\ loggedIn` with a retried caller at the lock).

`IncidentLifecycleProofs` proves, for any incidents, minions, workers, bounds
and budget of faults (`LifecycleAssumption`; `NoneIsNoRow` says that `None` is
neither a row nor a severity):

| Theorem | States |
|---|---|
| `JobsStayWithTheirIncident` | `Spec => []JobsAreOfOpenIncidents` |
| `MarksAreDelivered` | `Spec => EmittedMeansDelivered` |
| `LifecycleTypeCorrect` | `Spec => []TypeOK` |
| `JobsGoThroughTheQueue` | every step is one of `Queue!QueueNext`, leaves the queue alone, or is a crash |
| `RowsGoThroughTheStore` | the rows change only by calls that `IncidentHistory` makes too |

What makes the first hard is that `process_minion_anomalies()` awaits the
delivery of a resolution between the cancellation of the investigation and the
write to the row.  The inductive invariant `Inv` has, besides the types and
`JobsAreOfOpenIncidents` itself,

* `WorkIsOpen`: what a poll task has still to queue is of an open incident, in
  its present generation, and is not to be resolved by the same task.
* `ResolvedUndisturbed`: while a poll task waits for the answer to a
  resolution, the incident is neither pending nor in flight.  It holds because
  only the poll of that minion queues it, and that is the task that waits.
* `Holders`, as in the queue: a worker that takes a job is its only holder.

The queue and the store come in as lemmas, one per operation
(`ReconcileProps`, `EmittedProps`, `ResolvedProps`, `CoolingProps`;
`EnqueueProps`, `CancelProps`, `TakeProps`, `FinishProps`, `IdleProps`).
The last two theorems say that the composition uses its parts as their own
specifications do: with arguments of the types those allow, and in no other way.
What is proved in `InvestigationQueueProofs` therefore holds of this queue between
crashes (a crash makes a new one).  `MarksAreDelivered` adds
`SentIsFiring`: once Alertmanager has applied a worker's alert, it has it until
that worker has read the answer, unless a withdrawal given up earlier is applied
in between.  Nobody else withdraws it meanwhile: the
incident is in flight, so no poll task resolves it (`ResolvedUndisturbed`) and no
other worker has it (`Holders`).

`IncidentDeliveryProofs` goes on from there, for any number of incidents per minion
and any faults, requests given up and refusals included.

| Theorem | States |
|---|---|
| `CooldownsAreRespected` | `DeliverySpec => CooldownIsRespected` |
| `FiringIsRemembered` | `DeliverySpec => []AlertsAreRemembered` |

A decision of `reconcile()` is acted upon much later, by another task.  `Sound`
says what makes it right: the severity is new, overdue or higher than the one
delivered, and `previous` is the payload of the row.  It is claimed of all that is
to be queued, is queued, or is in the hands of a worker until its alert has been
applied, for every incident that is not `overtaken`.  The only step that may
break it is the answer to an alert (`OnlyAnswersTell`).  Of the incident that was
delivered no other worker has a job (`Holders`); a poll task that still has a
decision about it makes it `overtaken` at that very step; and no item of it is
pending, because it was in flight.  Decisions about other incidents, of the same
minion or not, are about rows that did not change.  `AlertsOK` adds what may fire
at each stage of a handler (`Expected`): nothing but strays once the old labels are
withdrawn, at most its own severity from then on.  That is where `previous` has to
be right.

Every invariant of the passing runs and every action property of them is stated
by a theorem; `HeapOrder` is proved only.  Only model-checked are

* liveness: `CloseCompletes`, `CriticalWorkIsServed`, `RecoveryIsResolved`,
  `PersistentAnomalyIsReported`, `InspectionsEnd`, `SessionIsRestored`,
  `InventoryCatchesUp`, `PersistentSymptomIsOpen`, `ReadyRecovers`,
  `InvestigationEnds`.  They rest on fairness, and the prover reasons about neither
  fairness nor `ENABLED`;
* the properties of the four runs that are violated, which are false, and the
  alarms of swapping with a zero threshold, likewise.

The correlation is written with sets and an order of the anomalies (`Order`,
`Place`) rather than as a loop over a list: what a recursion over a sequence
computes could not be proved.

## 6. Plan

1. *Prove.*  That `PollCycle` uses store, inventory and readiness only by their
   operations, as `RowsGoThroughTheStore` says of the lifecycle; that the absences a
   row counts are those of `HistorySpec` in the compositions too.
2. *Compose.*  Lifecycle with a changing inventory, so that an incident of a
   removed minion meets the queue; the calls of investigations in the circuits of
   `PollCycle`.
3. *Model.*  The collector and prompt of chains; the join of systems with
   Prometheus targets; contradicting records, once something sets them.

## 7. Not modelled

Dry-run mode, the metrics the agent exports about itself, the text of prompts,
alerts and logs, the filter on remediation text, the tools the model may call
and its judgement (it may answer anything), the parsers of the inspection
modules, SQLite's own durability (a call is one transaction), Alertmanager's
grouping and `resolve_timeout`, and the exact moment of timers: a deadline may
fire whenever its task waits.  Configuration is validated once at start-up; what
it guarantees are the ASSUMEs.  Branches for a client that is `None` are
unreachable in `run()`.  In `IncidentLifecycle` each minion is polled by itself,
while the code waits for all of them before it begins the next cycle; that
model allows more behaviours, and `PollCycle` has the cycle as it is.
