------------------------------ MODULE Diagnosis ------------------------------
(***************************************************************************)
(* From the measurements of a minion to the alert: one poll after the      *)
(* other measures it (Telemetry), finds anomalies (Detection), has one of  *)
(* them investigated (Investigation) through the circuit breaker of the    *)
(* language model (CircuitBreaker), and delivers the alert (AlertDelivery). *)
(* Composes detect_minion() and _process_firing_investigation() of         *)
(* uyuni_ai_agent/main.py; the incidents between them are those of         *)
(* IncidentLifecycle.                                                      *)
(***************************************************************************)
EXTENDS Detection, Investigation, AlertDelivery

CONSTANTS
    Usual,              \* the value of each series on a healthy minion
    Unusual,            \* and those it may take instead
    Units,              \* units that may be found failed
    Waits,              \* lock waits that may be found, <<database, seconds>>
    Scenes,             \* bound: [series, most, salt], and the setting
                        \* rules, deterministic_analysis_enabled
    FailureThreshold, RecoveryTimeout

(* A sample has a value: what is no finite number is an error of its own   *)
(* (_parse_response()).                                                    *)
ASSUME DiagnosisAssumption ==
    /\ \A s \in Scenes : s.series \subseteq ToSet(Queries) /\ s.most \in Nat
                         /\ s.salt \in BOOLEAN /\ s.rules \in BOOLEAN
    /\ \A s \in ToSet(Queries) : None \notin {Usual[s]} \cup Unusual[s]
    /\ MaxEvidenceAge \in Nat /\ MinSupport \in Nat \ {0}
    /\ LlmSeconds \in Nat /\ MaxTrouble \in Nat
    /\ IsFiniteSet(Units) /\ IsFiniteSet(Referencing) /\ IsFiniteSet(Edges)
    /\ FailureThreshold \in Nat \ {0} /\ RecoveryTimeout \in Nat \ {0}

VARIABLES
    anomalies,          \* detected_anomalies of this poll
    complete,           \* whether its snapshot may resolve incidents
    scene,              \* what may be out of the ordinary in this poll
    state, failures, openedAgo, probing, call       \* of the circuit

detectionVars == <<answers, services, locks, anomalies, complete>>

circuitVars == <<state, failures, openedAgo, probing, call>>

vars == <<detectionVars, investigationVars, deliveryVars, scene, circuitVars>>

LLM == INSTANCE CircuitBreaker WITH
           Calls <- {"investigation"}, Cancellable <- {"investigation"},
           ExternalReports <- FALSE

Ordinary == [series |-> {}, most |-> 0, salt |-> FALSE, rules |-> scene.rules]

NotAsked == [kind |-> "not asked", found |-> {}]

Forgotten ==
    /\ answers = <<>> /\ services = NotAsked /\ locks = NotAsked
    /\ anomalies = {} /\ complete = FALSE
    /\ anomaly = None /\ ledger = <<>> /\ elapsed = 0 /\ trouble = 0 /\ tried = FALSE
    /\ analysis = None
    /\ DeliveryInit

Init == Forgotten /\ stage = "measuring" /\ scene \in Scenes /\ LLM!BreakerInit

-----------------------------------------------------------------------------
(* detect_minion().                                                        *)

Odd == Cardinality({i \in DOMAIN answers : answers[i] # Sample(Usual[Queries[i]])})

MayAnswer(s) ==
    {Sample(Usual[s])} \cup
    (IF s \in scene.series /\ Odd < scene.most
     THEN {Sample(v) : v \in Unusual[s]} \cup Unusable ELSE {})

Measure ==
    /\ stage = "measuring" /\ ~Measured
    /\ \E answer \in MayAnswer(Queries[Len(answers) + 1]) : Ask(answer)
    /\ UNCHANGED <<services, locks, anomalies, complete, investigationVars, deliveryVars,
                   scene, circuitVars>>

Discovered(things) ==
    {Output(found) : found \in IF scene.salt THEN SUBSET things ELSE {{}}}
        \cup (IF scene.salt THEN {SaltFailure} ELSE {})

(* check_failed_services(), unless the Salt session failed.                *)
DiscoverServices ==
    /\ stage = "measuring" /\ Measured /\ services = NotAsked
    /\ services' \in Discovered(Units) \cup (IF scene.salt THEN {Skipped} ELSE {})
    /\ UNCHANGED <<answers, locks, anomalies, complete, investigationVars, deliveryVars,
                   scene, circuitVars>>

(* check_postgres_blocked_transactions(), where there is a database.       *)
DiscoverLocks ==
    /\ stage = "measuring" /\ services # NotAsked /\ locks = NotAsked
    /\ locks' \in IF "postgres" \in Roles /\ services # Skipped
                  THEN Discovered(Waits) ELSE {Skipped}
    /\ UNCHANGED <<answers, services, anomalies, complete, investigationVars, deliveryVars,
                   scene, circuitVars>>

Detect ==
    /\ stage = "measuring" /\ locks # NotAsked
    /\ anomalies' = detected_anomalies /\ complete' = SnapshotComplete
    /\ Go("detected")
    /\ UNCHANGED <<answers, services, locks, anomaly, ledger, elapsed, trouble, tried,
                   analysis, deliveryVars, scene, circuitVars>>

Reset ==
    /\ answers' = <<>> /\ services' = NotAsked /\ locks' = NotAsked
    /\ anomalies' = {} /\ complete' = FALSE
    /\ anomaly' = None /\ ledger' = <<>> /\ elapsed' = 0 /\ trouble' = 0 /\ tried' = FALSE
    /\ analysis' = None
    /\ attempts' = 0 /\ held' = FALSE /\ result' = "none"

(* A TimeoutError of a Salt call loses the snapshot (return None).         *)
SnapshotLost ==
    /\ stage = "measuring" /\ Measured /\ scene.salt
    /\ Reset /\ scene' = Ordinary /\ Go("over")
    /\ UNCHANGED circuitVars

Quiet ==
    /\ stage = "detected" /\ anomalies = {}
    /\ Reset /\ scene' = Ordinary /\ Go("over")
    /\ UNCHANGED circuitVars

-----------------------------------------------------------------------------
(* _process_firing_investigation(): execute("llm", ...).                   *)

Detection_over ==
    /\ answers' = <<>> /\ services' = NotAsked /\ locks' = NotAsked
    /\ anomalies' = {} /\ complete' = FALSE
    /\ scene' = Ordinary

Admitted ==
    /\ stage = "detected"
    /\ LLM!Admit("investigation") \/ LLM!Probe("investigation")
    /\ \E a \in anomalies : Begin(a)
    /\ Detection_over
    /\ UNCHANGED deliveryVars

Refused_investigation ==
    /\ stage = "detected"
    /\ LLM!Reject("investigation")
    /\ \E a \in anomalies : anomaly' = a
    /\ Go("refused")
    /\ Detection_over
    /\ UNCHANGED <<ledger, elapsed, trouble, tried, analysis, deliveryVars>>

Rest == UNCHANGED <<detectionVars, deliveryVars, scene>>

Proceed ==
    /\ CollectFirst \/ CollectNext \/ AgentAnswers \/ StructuringRetried \/ Tick
    /\ Rest /\ UNCHANGED circuitVars

(* The outcome of investigate() is what the circuit counts.                *)
Conclude ==
    /\ Concludes(scene.rules)
    /\ CASE stage' = "analysed" -> LLM!Succeed("investigation")
         [] stage' = "failed" -> LLM!Fail("investigation")
         [] OTHER -> UNCHANGED circuitVars
    /\ Rest

(* The deadline of the worker, which includes the wait for the semaphore.  *)
InvestigationDeadline ==
    /\ stage \in Active /\ Fail
    /\ LLM!CancelCall("investigation")
    /\ Rest

(* _send_observed_alert(): the payload is all that is left of the analysis. *)
Send ==
    /\ stage = "analysed" /\ Go("sending")
    /\ anomaly' = None /\ ledger' = <<>> /\ elapsed' = 0 /\ trouble' = 0 /\ tried' = FALSE
    /\ analysis' = None
    /\ UNCHANGED <<detectionVars, deliveryVars, scene, circuitVars>>

PostAlert ==
    /\ stage = "sending" /\ Deliver
    /\ UNCHANGED <<detectionVars, investigationVars, scene, circuitVars>>

Finished == stage \in {"refused", "failed"} \/ (stage = "sending" /\ result # "none")

Finish ==
    /\ Finished
    /\ Reset /\ scene' = Ordinary /\ Go("over")
    /\ UNCHANGED circuitVars

(* Time passes between two polls.                                          *)
Wait ==
    /\ stage = "over" /\ LLM!Tick
    /\ UNCHANGED <<detectionVars, investigationVars, deliveryVars, scene>>

NextPoll ==
    /\ stage = "over" /\ Go("measuring")
    /\ scene' \in {s \in Scenes : s.rules = scene.rules}
    /\ UNCHANGED <<detectionVars, anomaly, ledger, elapsed, trouble, tried, analysis,
                   deliveryVars, circuitVars>>

Next ==
    \/ Measure \/ DiscoverServices \/ DiscoverLocks \/ Detect \/ SnapshotLost \/ Quiet
    \/ Admitted \/ Refused_investigation
    \/ Proceed \/ Conclude \/ InvestigationDeadline
    \/ Send \/ PostAlert \/ Finish \/ Wait \/ NextPoll

(* The clock runs, deadlines strike, and what does not wait for anything   *)
(* goes on.  Salt, the model and Alertmanager need not answer.             *)
Fairness ==
    /\ WF_vars(Tick /\ Rest /\ UNCHANGED circuitVars)
    /\ WF_vars(Deadline /\ LLM!Fail("investigation") /\ Rest)
    /\ WF_vars(stage = "sending" /\ DeliveryDeadline
          /\ UNCHANGED <<detectionVars, investigationVars, scene, circuitVars>>)
    /\ WF_vars(Finish)

Spec == Init /\ [][Next]_vars /\ Fairness

-----------------------------------------------------------------------------
(* Properties.                                                             *)

TypeOK ==
    /\ Len(answers) <= Len(Queries)
    /\ stage \in Active \cup {"measuring", "detected", "refused", "failed", "analysed",
                              "sending", "over"}
    /\ elapsed \in 0..LlmSeconds /\ trouble \in 0..MaxTrouble /\ tried \in BOOLEAN
    /\ \A i \in DOMAIN ledger : ledger[i].status \in {"ok", "missing", "stale", "error"}
    /\ attempts \in 0..MaxRetries /\ held \in BOOLEAN
    /\ result \in {"none", "Success", "Error"}
    /\ LLM!BreakerTypeOK

Detected(metric) == {a \in anomalies : a.metric = metric}
Answered(s) == Answer(s).kind = "sample"

Shown(s) ==
    Answered(s) /\ (s = "filesystems" => \E m \in DOMAIN Answer(s).value :
                                             Answer(s).value[m] \in 0..100)

(* What the agent watches and could not measure is an anomaly of its own:  *)
(* no minion looks healthy because nobody could see it                     *)
(* (telemetry_anomalies(), salt_telemetry_anomaly()).                      *)
NeededSeries ==
    {"node_exporter_up", "memory_available_bytes", "memory_total_bytes", "cpu_percent",
     "filesystems"}
    \cup (IF "apache" \in Roles
          THEN {"apache_exporter_up", "busy", "idle", "apache_requests_per_sec"} ELSE {})
    \cup (IF "postgres" \in Roles
          THEN {"postgres_exporter_up", "backends", "max_connections",
                "postgres_deadlocks_per_min"} ELSE {})

BlindSpotsAreReported ==
    stage = "detected" =>
        /\ (\E s \in NeededSeries : ~Shown(s)) => Detected("telemetry_unavailable") # {}
        /\ services.kind # "output" \/ locks.kind = "failure" =>
               /\ ~complete
               /\ \E a \in Detected("telemetry_unavailable") : a.resource = "salt_inspection"

(* An alarm is raised on what was measured in this poll, never on a        *)
(* missing, old or invalid sample (_check_threshold(), usable()).          *)
AlarmsAreMeasured ==
    stage = "detected" =>
        /\ Detected("memory_pressure") # {} =>
               Answered("memory_available_bytes") /\ Answered("memory_total_bytes")
        /\ \A a \in Detected("memory_pressure") :
               <<"active_swapping", "yes">> \in a.context => Answered("swap_in") /\ Answered("swap_out")
        /\ Detected("cpu") # {} => Answered("cpu_percent")
        /\ \A a \in Detected("disk") :
               Answered("filesystems") /\ Answer("filesystems").value[a.resource] \in 0..100
        /\ Detected("apache_busy_workers") # {} => Answered("busy") /\ Answered("idle")
        /\ Detected("postgres_connections") # {} =>
               Answered("backends") /\ Answered("max_connections")

(* A busy CPU goes unreported only where the host was seen to swap for     *)
(* want of memory, which is reported (check_all_metrics()).                *)
CpuIsExplained ==
    stage = "detected" /\ Crosses(ValueOf("cpu_percent"), "cpu") /\ Detected("cpu") = {} =>
        /\ Detected("memory_pressure") # {}
        /\ Answered("swap_in") /\ Answered("swap_out")
        /\ Answer("swap_in").value + Answer("swap_out").value
               >= Thresholds.swap_activity.warning

(* A confirmed diagnosis rests on records of this investigation, which are *)
(* fresh, and ok unless the diagnosis is that telemetry is lost            *)
(* (ground_analysis()).                                                    *)
ConfirmedIsGrounded ==
    stage = "analysed" /\ analysis.conclusion = "confirmed" =>
        /\ analysis.supporting # {} /\ analysis.supporting \subseteq DOMAIN ledger
        /\ \A i \in analysis.supporting :
               /\ ~Stale(ledger[i], elapsed)
               /\ ledger[i].status = "ok" \/ anomaly.metric = "telemetry_unavailable"

(* Whatever Salt, the language model and Alertmanager do not answer, an    *)
(* investigation ends and frees its worker (execute()).                    *)
Busy == Active \cup {"sending"}

InvestigationEnds == stage \in Busy ~> stage \notin Busy

(* docs/security.md: "stale, failed, missing, or contradictory records     *)
(* cannot prove a confirmed conclusion".  A diagnosis made of the answers  *)
(* of Salt cites none that was not given (disk_usage(), _records()).       *)
FailuresProveNothing ==
    stage = "analysed" /\ analysis.conclusion = "confirmed"
        /\ anomaly.metric # "telemetry_unavailable" =>
            \A i \in analysis.supporting : ledger[i].text \notin Unanswered \cup {""}

=============================================================================
