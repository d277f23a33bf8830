--------------------------- MODULE DiagnosisProofs ---------------------------
(***************************************************************************)
(* Theorems about the path from measurement to alert, for any series,      *)
(* thresholds, texts and bounds: what a confirmed diagnosis rests on, what *)
(* "Success" means, and that the circuit of the language model is used as  *)
(* a circuit breaker.                                                      *)
(***************************************************************************)
EXTENDS Diagnosis, FiniteSetTheorems, TLAPS

(* The gate: whatever an analysis cites, a grounded one is confirmed only  *)
(* with support that exists, is fresh, and is ok unless failed evidence is *)
(* allowed (ground_analysis()).                                            *)
LEMMA GroundingGate ==
    ASSUME NEW found, NEW records, NEW allow_failed \in BOOLEAN, NEW now,
           ground_analysis(found, records, allow_failed, now).conclusion = "confirmed"
    PROVE  LET supporting == ground_analysis(found, records, allow_failed, now).supporting
           IN  /\ supporting # {} /\ supporting \subseteq DOMAIN records
               /\ \A i \in supporting : /\ ~Stale(records[i], now)
                                        /\ allow_failed \/ records[i].status = "ok"
<1> DEFINE support == found.supporting \cap DOMAIN records
<1>1. Confirmed(found, records, allow_failed, now)
  BY DEF ground_analysis
<1>2. ground_analysis(found, records, allow_failed, now).supporting = support
  BY <1>1 DEF ground_analysis
<1>3. support # {} /\ support \subseteq DOMAIN records
  BY <1>1 DEF Confirmed
<1>4. Acceptable(records, support, allow_failed, now)
  BY <1>1 DEF Confirmed
<1>5. \A i \in support : /\ ~Stale(records[i], now)
                         /\ allow_failed \/ records[i].status = "ok"
  BY <1>4, Zenon DEF Acceptable
<1> HIDE DEF support
<1> QED BY <1>2, <1>3, <1>5

-----------------------------------------------------------------------------
(* An investigation is analysed by a rule or by the model, and in no other *)
(* way.                                                                    *)
LEMMA OnlyAnalysed ==
    ASSUME Next, stage' = "analysed"
    PROVE  Decide(scene.rules) \/ Structure
<1>1. CASE Measure
  BY <1>1 DEF Measure, investigationVars
<1>2. CASE DiscoverServices \/ DiscoverLocks
  BY <1>2 DEF DiscoverServices, DiscoverLocks, investigationVars
<1>3. CASE Detect \/ SnapshotLost \/ Quiet
  BY <1>3 DEF Detect, SnapshotLost, Quiet, Go
<1>4. CASE Admitted \/ Refused_investigation
  BY <1>4 DEF Admitted, Refused_investigation, Begin, Go
<1>5. CASE Proceed
  <2>1. CASE CollectFirst
    BY <2>1 DEF CollectFirst, Collect, Go
  <2>2. CASE CollectNext
    BY <2>2 DEF CollectNext, Collect, Go
  <2>3. CASE AgentAnswers \/ StructuringRetried \/ Tick
    BY <2>3 DEF AgentAnswers, StructuringRetried, Tick, Go, Active
  <2> QED BY <1>5, <2>1, <2>2, <2>3 DEF Proceed
<1>6. CASE Conclude
  <2>1. ~Fail
    BY DEF Fail, Go
  <2> QED BY <1>6, <2>1 DEF Conclude, Concludes, CollectionRaises, PromptFails, ModelFails, Deadline
<1>7. CASE InvestigationDeadline
  BY <1>7 DEF InvestigationDeadline, Fail, Go
<1>8. CASE Send \/ PostAlert
  BY <1>8 DEF Send, PostAlert, Go, investigationVars
<1>9. CASE Finish \/ Wait \/ NextPoll
  BY <1>9 DEF Finish, Wait, NextPoll, Go, investigationVars
<1> QED BY <1>1, <1>2, <1>3, <1>4, <1>5, <1>6, <1>7, <1>8, <1>9 DEF Next

(* Rules, the model and lost telemetry pass the same gate, and only the    *)
(* last may cite what failed.                                              *)
LEMMA AnalysedIsGrounded ==
    ASSUME Decide(scene.rules) \/ Structure
    PROVE  ConfirmedIsGrounded'
<1>1. ASSUME NEW found, NEW allow_failed \in BOOLEAN, Analyse(found, allow_failed),
             UNCHANGED <<anomaly, ledger, elapsed>>,
             allow_failed => anomaly.metric = "telemetry_unavailable"
      PROVE  ConfirmedIsGrounded'
  <2>1. analysis' = ground_analysis(found, ledger, allow_failed, elapsed)
    BY <1>1 DEF Analyse
  <2>2. anomaly' = anomaly /\ ledger' = ledger /\ elapsed' = elapsed
    BY <1>1
  <2> SUFFICES ASSUME analysis'.conclusion = "confirmed"
               PROVE  /\ analysis'.supporting # {}
                      /\ analysis'.supporting \subseteq DOMAIN ledger'
                      /\ \A i \in analysis'.supporting :
                            /\ ~Stale(ledger'[i], elapsed')
                            /\ \/ ledger'[i].status = "ok"
                               \/ anomaly'.metric = "telemetry_unavailable"
    BY DEF ConfirmedIsGrounded, Stale
  <2>3. ground_analysis(found, ledger, allow_failed, elapsed).conclusion = "confirmed"
    BY <2>1
  <2>4. /\ analysis'.supporting # {} /\ analysis'.supporting \subseteq DOMAIN ledger
        /\ \A i \in analysis'.supporting :
              /\ ~Stale(ledger[i], elapsed)
              /\ allow_failed \/ ledger[i].status = "ok"
    BY <1>1, <2>1, <2>3, GroundingGate, Zenon
  <2>5. \A i : Stale(ledger'[i], elapsed') <=> Stale(ledger[i], elapsed)
    BY <2>2 DEF Stale
  <2> QED BY <1>1, <2>2, <2>4, <2>5
<1>2. CASE Decide(scene.rules)
  <2> DEFINE cited == proven(scene.rules)
  <2>1. UNCHANGED <<anomaly, ledger, elapsed>>
    BY <1>2 DEF Decide
  <2>2. CASE /\ anomaly.metric = "telemetry_unavailable"
             /\ Analyse(telemetry_unavailable_analysis, TRUE)
    BY <1>1, <2>1, <2>2
  <2>3. CASE Analyse(ProvenAnalysis(cited), FALSE)
    BY <1>1, <2>1, <2>3
  <2>4. CASE Go("agent")
    BY <2>4 DEF Go, ConfirmedIsGrounded
  <2> QED BY <1>2, <2>2, <2>3, <2>4 DEF Decide
<1>3. CASE Structure
  BY <1>1, <1>3 DEF Structure
<1> QED BY <1>2, <1>3

(* A confirmed diagnosis rests on fresh records of its investigation that  *)
(* are ok, or that show that telemetry is lost (ground_analysis()).        *)
THEOREM DiagnosesAreGrounded == Spec => []ConfirmedIsGrounded
<1>1. Init => ConfirmedIsGrounded
  BY DEF Init, ConfirmedIsGrounded
<1>2. ConfirmedIsGrounded /\ [Next]_vars => ConfirmedIsGrounded'
  <2>1. ASSUME Next PROVE ConfirmedIsGrounded'
    <3>1. CASE stage' = "analysed"
      BY <2>1, <3>1, OnlyAnalysed, AnalysedIsGrounded
    <3>2. CASE stage' # "analysed"
      BY <3>2 DEF ConfirmedIsGrounded
    <3> QED BY <3>1, <3>2
  <2>2. ASSUME ConfirmedIsGrounded, UNCHANGED vars PROVE ConfirmedIsGrounded'
    BY <2>2 DEF ConfirmedIsGrounded, Stale, vars, investigationVars
  <2> QED BY <2>1, <2>2
<1> QED BY <1>1, <1>2, PTL DEF Spec

-----------------------------------------------------------------------------
(* Investigations use the circuit of the language model as execute() and   *)
(* the clock let them: each step of the agent is a step of the breaker, or *)
(* leaves it alone.                                                        *)
THEOREM InvestigationsUseTheCircuit ==
    Spec => LLM!BreakerInit /\ [][LLM!BreakerNext]_(LLM!breakerVars)
<1>1. Init => LLM!BreakerInit
  BY DEF Init
<1>2. [Next]_vars => [LLM!BreakerNext]_(LLM!breakerVars)
  <2> SUFFICES ASSUME [Next]_vars PROVE LLM!BreakerNext \/ UNCHANGED circuitVars
    BY DEF circuitVars, LLM!breakerVars
  <2>1. CASE Admitted
    BY <2>1 DEF Admitted, LLM!BreakerNext, LLM!Acquire
  <2>2. CASE Refused_investigation
    BY <2>2 DEF Refused_investigation, LLM!BreakerNext, LLM!Acquire
  <2>3. CASE Conclude
    <3>1. CASE stage' = "analysed"
      BY <2>3, <3>1 DEF Conclude, LLM!BreakerNext
    <3>2. CASE stage' = "failed"
      BY <2>3, <3>2 DEF Conclude, LLM!BreakerNext
    <3>3. CASE stage' \notin {"analysed", "failed"}
      BY <2>3, <3>3 DEF Conclude
    <3> QED BY <3>1, <3>2, <3>3
  <2>4. CASE InvestigationDeadline
    BY <2>4 DEF InvestigationDeadline, LLM!BreakerNext
  <2>5. CASE Wait
    BY <2>5 DEF Wait, LLM!BreakerNext
  <2>6. CASE Measure \/ DiscoverServices \/ DiscoverLocks \/ Detect \/ SnapshotLost \/ Quiet
    BY <2>6 DEF Measure, DiscoverServices, DiscoverLocks, Detect, SnapshotLost, Quiet
  <2>7. CASE Proceed \/ Send \/ PostAlert \/ Finish \/ NextPoll
    BY <2>7 DEF Proceed, Send, PostAlert, Finish, NextPoll
  <2>8. CASE UNCHANGED vars
    BY <2>8 DEF vars
  <2> QED BY <2>1, <2>2, <2>3, <2>4, <2>5, <2>6, <2>7, <2>8 DEF Next
<1> QED BY <1>1, <1>2, PTL DEF Spec

-----------------------------------------------------------------------------
(* Detection.  What the agent knows when it decides what is wrong is what  *)
(* it was told in this poll: every query answered, Salt asked, and nothing *)
(* changed since (detect_minion()).                                        *)

AnswerValues ==
    Unusable \cup UNION {{Sample(v) : v \in {Usual[s]} \cup Unusual[s]} : s \in ToSet(Queries)}

SaltAnswers(things) ==
    {NotAsked, SaltFailure, Skipped} \cup {Output(found) : found \in SUBSET things}

DetectionInv ==
    /\ answers \in Seq(AnswerValues) /\ Len(answers) <= Len(Queries)
    /\ services \in SaltAnswers(Units) /\ locks \in SaltAnswers(Waits)
    /\ services # NotAsked => Measured
    /\ locks # NotAsked => services # NotAsked
    /\ stage = "detected" =>
           /\ anomalies = detected_anomalies /\ complete = SnapshotComplete
           /\ locks # NotAsked

Names == ToSet(NodeSeries) \cup ToSet(ApacheSeries) \cup ToSet(PostgresSeries)

LEMMA SeriesTypes ==
    /\ NodeSeries \in Seq(Names) /\ Len(NodeSeries) = 11
    /\ ApacheSeries \in Seq(Names) /\ Len(ApacheSeries) = 4
    /\ PostgresSeries \in Seq(Names) /\ Len(PostgresSeries) = 4
<1>1. DOMAIN NodeSeries = 1..11 /\ DOMAIN ApacheSeries = 1..4 /\ DOMAIN PostgresSeries = 1..4
  BY DEF NodeSeries, ApacheSeries, PostgresSeries
<1>2. /\ NodeSeries = [i \in 1..11 |-> NodeSeries[i]]
      /\ ApacheSeries = [i \in 1..4 |-> ApacheSeries[i]]
      /\ PostgresSeries = [i \in 1..4 |-> PostgresSeries[i]]
  BY DEF NodeSeries, ApacheSeries, PostgresSeries
<1>3. /\ \A i \in 1..11 : NodeSeries[i] \in Names
      /\ \A i \in 1..4 : ApacheSeries[i] \in Names /\ PostgresSeries[i] \in Names
  BY <1>1 DEF Names, ToSet
<1> QED BY <1>2, <1>3

LEMMA QueriesType == Queries \in Seq(Names) /\ Len(Queries) \in Nat
<1> DEFINE a == IF "apache" \in Roles THEN ApacheSeries ELSE <<>>
           p == IF "postgres" \in Roles THEN PostgresSeries ELSE <<>>
<1>1. NodeSeries \in Seq(Names) /\ a \in Seq(Names) /\ p \in Seq(Names)
  BY SeriesTypes
<1>2. Queries = NodeSeries \o a \o p
  BY DEF Queries
<1> HIDE DEF a, p
<1> QED BY <1>1, <1>2

(* What is detected follows from the answers, and from nothing else.       *)
LEMMA SameReadings ==
    ASSUME UNCHANGED answers
    PROVE  /\ \A s : Answer(s)' = Answer(s)
           /\ \A n : ReadingOf(n)' = ReadingOf(n) /\ ValueOf(n)' = ValueOf(n)
           /\ SnapshotAvailable' = SnapshotAvailable
<1>1. \A s : Answer(s)' = Answer(s)
  BY Zenon DEF Answer
<1>2. \A s : ScalarReading(s)' = ScalarReading(s)
  BY <1>1, Zenon DEF ScalarReading
<1>3. FilesystemReading' = FilesystemReading
  BY <1>2, Zenon DEF FilesystemReading
<1>4. /\ BusyWorkersPercent' = BusyWorkersPercent
      /\ ConnectionsPercent' = ConnectionsPercent
  BY <1>2 DEF BusyWorkersPercent, ConnectionsPercent, PercentReading
<1>5. \A n : ReadingOf(n)' = ReadingOf(n)
  BY <1>2, <1>3, <1>4, Zenon DEF ReadingOf
<1>6. \A n : ValueOf(n)' = ValueOf(n)
  BY <1>5, Zenon DEF ValueOf
<1>7. Observed' = Observed
  BY DEF Observed, Asked
<1>8. SnapshotAvailable' = SnapshotAvailable
  BY <1>5, <1>7, Zenon DEF SnapshotAvailable
<1> QED BY <1>1, <1>5, <1>6, <1>8

LEMMA SameDetection ==
    ASSUME UNCHANGED <<answers, services, locks>>
    PROVE  detected_anomalies' = detected_anomalies /\ SnapshotComplete' = SnapshotComplete
<1>1. /\ \A n : ReadingOf(n)' = ReadingOf(n) /\ ValueOf(n)' = ValueOf(n)
      /\ SnapshotAvailable' = SnapshotAvailable
  BY SameReadings, Zenon
<1>2. \A e : BlindSpots(e)' = BlindSpots(e)
  BY <1>1, Zenon DEF BlindSpots
<1>3. telemetry_anomalies' = telemetry_anomalies
  BY <1>2, Zenon DEF telemetry_anomalies
<1>4. /\ swap_activity' = swap_activity /\ swap_usage_percent' = swap_usage_percent
      /\ memory_usage_percent' = memory_usage_percent
  BY <1>1, Zenon DEF swap_activity, swap_usage_percent, memory_usage_percent
<1>5. active_swapping' = active_swapping
  BY <1>4, Zenon DEF active_swapping
<1>6. memory_pressure_anomaly' = memory_pressure_anomaly
  BY <1>1, <1>4, <1>5, Zenon DEF memory_pressure_anomaly
<1>7. cpu_anomaly' = cpu_anomaly
  BY <1>1, <1>5, <1>6, Zenon DEF cpu_anomaly
<1>8. FailedUnits' = FailedUnits /\ service_anomalies' = service_anomalies
  BY Zenon DEF FailedUnits, service_anomalies
<1>9. filesystem_anomalies' = filesystem_anomalies
  BY <1>1, <1>8, Zenon DEF filesystem_anomalies
<1>10. apache_anomalies' = apache_anomalies /\ postgres_anomalies' = postgres_anomalies
  BY <1>1, Zenon DEF apache_anomalies, postgres_anomalies
<1>11. postgres_lock_anomalies' = postgres_lock_anomalies
  <2>1. locks' = locks
    OBVIOUS
  <2> QED BY <2>1 DEF postgres_lock_anomalies
<1>12. detected_anomalies' = detected_anomalies
  BY <1>3, <1>6, <1>7, <1>8, <1>9, <1>10, <1>11 DEF detected_anomalies
<1>13. SnapshotComplete' = SnapshotComplete
  BY <1>1, Zenon DEF SnapshotComplete
<1> QED BY <1>12, <1>13

LEMMA DetectionInit == Init => DetectionInv
BY QueriesType DEF Init, Forgotten, DetectionInv, SaltAnswers

LEMMA DetectionStep == DetectionInv /\ [Next]_vars => DetectionInv'
<1> SUFFICES ASSUME DetectionInv, [Next]_vars PROVE DetectionInv'
  OBVIOUS
<1>q. Queries \in Seq(Names) /\ Len(Queries) \in Nat
  BY QueriesType
<1>1. CASE Measure
  <2> PICK answer \in MayAnswer(Queries[Len(answers) + 1]) : Ask(answer)
    BY <1>1 DEF Measure
  <2> DEFINE s == Queries[Len(answers) + 1]
  <2>1. Len(answers) < Len(Queries) /\ answers' = Append(answers, answer)
    BY <1>q DEF DetectionInv, Measured, Ask
  <2>2. s \in ToSet(Queries)
    BY <2>1, <1>q DEF ToSet, DetectionInv
  <2>3. answer \in AnswerValues
    <3>1. answer \in {Sample(v) : v \in {Usual[s]} \cup Unusual[s]} \cup Unusable
      BY Zenon DEF MayAnswer
    <3> QED BY <2>2, <3>1 DEF AnswerValues
  <2>4. answers' \in Seq(AnswerValues) /\ Len(answers') = Len(answers) + 1
    BY <2>1, <2>3 DEF DetectionInv
  <2>5. services = NotAsked /\ locks = NotAsked
    BY <2>1 DEF DetectionInv, Measured
  <2>6. UNCHANGED <<services, locks, stage>> /\ stage # "detected"
    BY <1>1 DEF Measure, investigationVars
  <2> QED BY <1>q, <2>1, <2>4, <2>5, <2>6 DEF DetectionInv
<1>2. CASE DiscoverServices
  <2>1. services' \in SaltAnswers(Units)
    BY <1>2 DEF DiscoverServices, Discovered, SaltAnswers
  <2>2. /\ UNCHANGED <<answers, locks, stage>> /\ stage # "detected" /\ Measured
        /\ services = NotAsked
    BY <1>2 DEF DiscoverServices, investigationVars
  <2> QED BY <2>1, <2>2 DEF DetectionInv, Measured
<1>3. CASE DiscoverLocks
  <2>1. locks' \in SaltAnswers(Waits)
    BY <1>3 DEF DiscoverLocks, Discovered, SaltAnswers
  <2>2. UNCHANGED <<answers, services, stage>> /\ stage # "detected" /\ services # NotAsked
    BY <1>3 DEF DiscoverLocks, investigationVars
  <2> QED BY <2>1, <2>2 DEF DetectionInv, Measured
<1>4. CASE Detect
  <2>1. UNCHANGED <<answers, services, locks>> /\ locks # NotAsked
    BY <1>4 DEF Detect
  <2>2. anomalies' = detected_anomalies /\ complete' = SnapshotComplete
    BY <1>4 DEF Detect
  <2>3. anomalies' = detected_anomalies' /\ complete' = SnapshotComplete'
    BY <2>1, <2>2, SameDetection
  <2> QED BY <2>1, <2>3 DEF DetectionInv, Measured
<1>5. ASSUME answers' = <<>>, services' = NotAsked, locks' = NotAsked, stage' # "detected"
      PROVE  DetectionInv'
  BY <1>q, <1>5 DEF DetectionInv, SaltAnswers
<1>6. CASE SnapshotLost \/ Quiet \/ Finish
  BY <1>5, <1>6 DEF SnapshotLost, Quiet, Finish, Reset, Go
<1>7. CASE Admitted \/ Refused_investigation
  BY <1>5, <1>7 DEF Admitted, Refused_investigation, Detection_over, Begin, Go
<1>8. ASSUME UNCHANGED <<answers, services, locks>>, stage' # "detected"
      PROVE  DetectionInv'
  BY <1>8 DEF DetectionInv, Measured
<1>9. CASE Proceed
  <2>1. CASE CollectFirst
    BY <2>1, <1>8, <1>9 DEF Proceed, Rest, detectionVars, CollectFirst, Collect, Go
  <2>2. CASE CollectNext
    BY <2>2, <1>8, <1>9 DEF Proceed, Rest, detectionVars, CollectNext, Collect, Go
  <2>3. CASE AgentAnswers \/ StructuringRetried \/ Tick
    BY <2>3, <1>8, <1>9 DEF Proceed, Rest, detectionVars, AgentAnswers, StructuringRetried,
                            Tick, Go, Active
  <2> QED BY <1>9, <2>1, <2>2, <2>3 DEF Proceed
<1>10. CASE Conclude
  <2>1. stage' \in {"failed", "analysed", "agent"}
    BY <1>10 DEF Conclude, Concludes, CollectionRaises, PromptFails, ModelFails, Deadline,
                 Fail, Decide, Structure, Analyse, Go
  <2> QED BY <2>1, <1>8, <1>10 DEF Conclude, Rest, detectionVars
<1>11. CASE InvestigationDeadline
  BY <1>8, <1>11 DEF InvestigationDeadline, Rest, detectionVars, Fail, Go
<1>12. CASE Send
  BY <1>8, <1>12 DEF Send, detectionVars, Go
<1>13. CASE PostAlert \/ Wait \/ UNCHANGED vars
  <2>1. UNCHANGED <<detectionVars, stage>>
    BY <1>13 DEF PostAlert, Wait, vars, investigationVars
  <2> QED BY <2>1, SameDetection DEF DetectionInv, Measured, detectionVars
<1>14. CASE NextPoll
  BY <1>8, <1>14 DEF NextPoll, detectionVars, Go
<1> QED BY <1>1, <1>2, <1>3, <1>4, <1>6, <1>7, <1>9, <1>10, <1>11, <1>12, <1>13, <1>14 DEF Next

(* The invariant of detection, in every state.                             *)
LEMMA DetectionInvariant == Spec => []DetectionInv
BY DetectionInit, DetectionStep, PTL DEF Spec

(* What has a value was answered: a scalar by its own sample, a percentage *)
(* by both of its parts (usable()).                                        *)
Composed == {"filesystems", "apache_busy_workers_percent", "postgres_active_connections_percent"}

LEMMA ValueMeansSample ==
    /\ \A s : s \notin Composed /\ ValueOf(s) # None =>
           Answered(s) /\ ValueOf(s) = Answer(s).value
    /\ ValueOf("filesystems") # None =>
           /\ Answered("filesystems")
           /\ \A m \in DOMAIN ValueOf("filesystems") :
                  Answer("filesystems").value[m] \in 0..100
    /\ ValueOf("apache_busy_workers_percent") # None => Answered("busy") /\ Answered("idle")
    /\ ValueOf("postgres_active_connections_percent") # None =>
           Answered("backends") /\ Answered("max_connections")
<1>1. \A s : usable(ScalarReading(s)) => Answered(s)
  BY DEF usable, ScalarReading, Reading, StatusOf, Answered
<1>2. \A s : s \notin Composed /\ ValueOf(s) # None => Answered(s) /\ ValueOf(s) = Answer(s).value
  BY <1>1 DEF Composed, ValueOf, ReadingOf, ScalarReading, Reading
<1>3. ASSUME ValueOf("filesystems") # None
      PROVE  /\ Answered("filesystems")
             /\ \A m \in DOMAIN ValueOf("filesystems") :
                    Answer("filesystems").value[m] \in 0..100
  <2> DEFINE r == ScalarReading("filesystems")
             valid == {m \in DOMAIN r.value : r.value[m] \in 0..100}
  <2>1. ReadingOf("filesystems") = FilesystemReading
    BY DEF ReadingOf
  <2>2. usable(FilesystemReading) /\ ValueOf("filesystems") = FilesystemReading.value
    BY <1>3, <2>1 DEF ValueOf
  <2>3. r.status = "ok"
    BY <2>2 DEF FilesystemReading, usable
  <2>4. valid # {}
    BY <2>2, <2>3 DEF FilesystemReading, usable, Reading
  <2>5. FilesystemReading = Reading("ok", [m \in valid |-> r.value[m]])
    BY <2>3, <2>4, Zenon DEF FilesystemReading
  <2>6. DOMAIN ValueOf("filesystems") = valid
    BY <2>2, <2>5 DEF Reading
  <2>7. Answered("filesystems") /\ r.value = Answer("filesystems").value
    BY <2>3 DEF ScalarReading, Reading, StatusOf, Answered
  <2> QED BY <2>6, <2>7
<1>4. \A p, o, t : usable(PercentReading(p, o, t)) => Answered(p) /\ Answered(o)
  BY <1>1 DEF PercentReading
<1>5. ValueOf("apache_busy_workers_percent") # None => Answered("busy") /\ Answered("idle")
  BY <1>4 DEF ValueOf, ReadingOf, BusyWorkersPercent
<1>6. ValueOf("postgres_active_connections_percent") # None =>
          Answered("backends") /\ Answered("max_connections")
  BY <1>4 DEF ValueOf, ReadingOf, ConnectionsPercent
<1> QED BY <1>2, <1>3, <1>5, <1>6

LEMMA CheckMeansCrossing ==
    \A value, metric, resource, context :
        \A a \in Check(value, metric, resource, context) :
            /\ a.metric = metric /\ a.resource = resource /\ a.context = context
            /\ Crosses(value, metric)
BY DEF Check, Anomaly

LEMMA MountOfAlarm ==
    ASSUME NEW a \in filesystem_anomalies
    PROVE  /\ a.metric = "disk" /\ ValueOf("filesystems") # None
           /\ a.context = {<<"related", u>> : u \in FailedUnits}
           /\ a.resource \in DOMAIN ValueOf("filesystems")
<1> DEFINE usage == ValueOf("filesystems")
           related == {<<"related", u>> : u \in FailedUnits}
<1>1. usage # None
  BY DEF filesystem_anomalies
<1>2. a \in UNION {Check(usage[m], "disk", m, related) : m \in DOMAIN usage}
  BY <1>1 DEF filesystem_anomalies
<1> HIDE DEF usage, related
<1>3. PICK m \in DOMAIN usage : a \in Check(usage[m], "disk", m, related)
  BY <1>2
<1>4. a.metric = "disk" /\ a.resource = m /\ a.context = related
  BY <1>3, CheckMeansCrossing
<1> QED BY <1>1, <1>3, <1>4 DEF usage, related

LEMMA LockAlarm ==
    ASSUME NEW a \in postgres_lock_anomalies
    PROVE  \/ a = SaltUnavailable("postgres_lock_discovery") /\ locks.kind = "failure"
           \/ a.metric = "postgres_blocked_transaction" /\ a.context = {}
<1> DEFINE waits == {w \in locks.found : Crosses(w[2], "postgres_blocked_transaction")}
           longest(db) == Max({w[2] : w \in {v \in waits : v[1] = db}})
<1>1. CASE locks.kind = "failure"
  BY <1>1 DEF postgres_lock_anomalies
<1>2. CASE locks.kind # "failure"
  <2>1. a \in UNION {Check(longest(db), "postgres_blocked_transaction", db, {}) :
                         db \in {w[1] : w \in waits}}
    BY <1>2 DEF postgres_lock_anomalies
  <2> HIDE DEF waits, longest
  <2>2. PICK db : a \in Check(longest(db), "postgres_blocked_transaction", db, {})
    BY <2>1
  <2> QED BY <2>2, CheckMeansCrossing
<1> QED BY <1>1, <1>2

(* The metric of an anomaly tells which check raised it.                   *)
LEMMA WhoRaised ==
    ASSUME NEW a \in detected_anomalies
    PROVE  /\ a.metric = "memory_pressure" => a \in memory_pressure_anomaly
           /\ a.metric = "cpu" => a \in cpu_anomaly
           /\ a.metric = "disk" => a \in filesystem_anomalies
           /\ a.metric = "apache_busy_workers" =>
                  Crosses(ValueOf("apache_busy_workers_percent"), "apache_busy_workers")
           /\ a.metric = "postgres_connections" =>
                  Crosses(ValueOf("postgres_active_connections_percent"), "postgres_connections")
<1>1. \A e \in telemetry_anomalies : e.metric = "telemetry_unavailable"
  BY DEF telemetry_anomalies, Unavailable, Anomaly
<1>2. \A e \in memory_pressure_anomaly : e.metric = "memory_pressure"
  BY DEF memory_pressure_anomaly, Anomaly
<1>3. \A e \in cpu_anomaly : e.metric = "cpu"
  BY CheckMeansCrossing DEF cpu_anomaly
<1>4. \A e \in filesystem_anomalies : e.metric = "disk"
  BY MountOfAlarm
<1>5. \A e \in apache_anomalies :
          \/ /\ e.metric = "apache_busy_workers"
             /\ Crosses(ValueOf("apache_busy_workers_percent"), "apache_busy_workers")
          \/ e.metric = "apache_requests"
  BY CheckMeansCrossing DEF apache_anomalies
<1>6. \A e \in postgres_anomalies :
          \/ /\ e.metric = "postgres_connections"
             /\ Crosses(ValueOf("postgres_active_connections_percent"), "postgres_connections")
          \/ e.metric = "postgres_deadlocks"
  BY CheckMeansCrossing DEF postgres_anomalies
<1>7. \A e \in service_anomalies : e.metric \in {"telemetry_unavailable", "service_down"}
  BY DEF service_anomalies, SaltUnavailable, Unavailable, Anomaly
<1>8. \A e \in postgres_lock_anomalies :
          e.metric \in {"telemetry_unavailable", "postgres_blocked_transaction"}
  BY LockAlarm DEF SaltUnavailable, Unavailable, Anomaly
<1> QED BY <1>1, <1>2, <1>3, <1>4, <1>5, <1>6, <1>7, <1>8 DEF detected_anomalies

(* The configuration may set the warning of the swap activity to zero      *)
(* (ThresholdBand of config_schema.py); then a host whose swap was not     *)
(* measured counts as one that swaps (memory_pressure_anomaly()).  What is *)
(* said of swapping is said of any other configuration.                    *)
SwapHasThreshold == Thresholds.swap_activity.warning \in Nat \ {0}

LEMMA SwappingIsMeasured ==
    ASSUME SwapHasThreshold, active_swapping
    PROVE  /\ Answered("swap_in") /\ Answered("swap_out")
           /\ Answer("swap_in").value + Answer("swap_out").value
                  >= Thresholds.swap_activity.warning
<1>1. swap_activity # None /\ swap_activity >= Thresholds.swap_activity.warning
  BY DEF SwapHasThreshold, active_swapping, OrZero
<1>2. /\ ValueOf("swap_in") # None /\ ValueOf("swap_out") # None
      /\ swap_activity = ValueOf("swap_in") + ValueOf("swap_out")
  BY <1>1 DEF swap_activity
<1>3. "swap_in" \notin Composed /\ "swap_out" \notin Composed
  BY DEF Composed
<1> QED BY <1>1, <1>2, <1>3, ValueMeansSample

LEMMA DetectedAlarms ==
    ASSUME SwapHasThreshold, DetectionInv
    PROVE  AlarmsAreMeasured
<1> SUFFICES ASSUME stage = "detected"
             PROVE  AlarmsAreMeasured
  BY DEF AlarmsAreMeasured
<1>1. anomalies = detected_anomalies
  BY DEF DetectionInv
<1>2. \A a \in Detected("memory_pressure") :
         /\ Answered("memory_available_bytes") /\ Answered("memory_total_bytes")
         /\ <<"active_swapping", "yes">> \in a.context => active_swapping
  <2> TAKE a \in Detected("memory_pressure")
  <2>1. a \in memory_pressure_anomaly
    BY <1>1, WhoRaised DEF Detected
  <2>2. memory_usage_percent # None
    BY <2>1 DEF memory_pressure_anomaly, Crosses
  <2>3. ValueOf("memory_available_bytes") # None /\ ValueOf("memory_total_bytes") # None
    BY <2>2 DEF memory_usage_percent
  <2>4. "memory_available_bytes" \notin Composed /\ "memory_total_bytes" \notin Composed
    BY DEF Composed
  <2>5. <<"active_swapping", "yes">> \in a.context => active_swapping
    BY <2>1 DEF memory_pressure_anomaly, Anomaly
  <2> QED BY <2>3, <2>4, <2>5, ValueMeansSample
<1>3. Detected("cpu") # {} => Answered("cpu_percent")
  <2> SUFFICES ASSUME NEW a \in Detected("cpu") PROVE Answered("cpu_percent")
    OBVIOUS
  <2>1. a \in cpu_anomaly
    BY <1>1, WhoRaised DEF Detected
  <2>2. ValueOf("cpu_percent") # None
    BY <2>1 DEF cpu_anomaly, Check, Crosses
  <2> QED BY <2>2, ValueMeansSample DEF Composed
<1>4. \A a \in Detected("disk") :
         Answered("filesystems") /\ Answer("filesystems").value[a.resource] \in 0..100
  BY <1>1, WhoRaised, MountOfAlarm, ValueMeansSample DEF Detected
<1>5. Detected("apache_busy_workers") # {} => Answered("busy") /\ Answered("idle")
  BY <1>1, WhoRaised, ValueMeansSample DEF Detected, Crosses
<1>6. Detected("postgres_connections") # {} => Answered("backends") /\ Answered("max_connections")
  BY <1>1, WhoRaised, ValueMeansSample DEF Detected, Crosses
<1> QED BY <1>2, <1>3, <1>4, <1>5, <1>6, SwappingIsMeasured DEF AlarmsAreMeasured

LEMMA DetectedCpu ==
    ASSUME SwapHasThreshold, DetectionInv
    PROVE  CpuIsExplained
<1> SUFFICES ASSUME stage = "detected", Crosses(ValueOf("cpu_percent"), "cpu"),
                    Detected("cpu") = {}
             PROVE  /\ Detected("memory_pressure") # {}
                    /\ Answered("swap_in") /\ Answered("swap_out")
                    /\ Answer("swap_in").value + Answer("swap_out").value
                           >= Thresholds.swap_activity.warning
  BY DEF CpuIsExplained
<1>1. anomalies = detected_anomalies
  BY DEF DetectionInv
<1>2. cpu_anomaly = {}
  <2> SUFFICES ASSUME NEW a \in cpu_anomaly PROVE FALSE
    OBVIOUS
  <2>1. a.metric = "cpu"
    BY CheckMeansCrossing DEF cpu_anomaly
  <2> QED BY <1>1, <2>1 DEF Detected, detected_anomalies
<1>3. memory_pressure_anomaly # {} /\ active_swapping
  BY <1>2 DEF cpu_anomaly, Check
<1>4. Detected("memory_pressure") # {}
  <2>1. PICK a : a \in memory_pressure_anomaly
    BY <1>3
  <2>2. a.metric = "memory_pressure" /\ a \in anomalies
    BY <1>1, <2>1 DEF memory_pressure_anomaly, Anomaly, detected_anomalies
  <2> QED BY <2>2 DEF Detected
<1> QED BY <1>3, <1>4, SwappingIsMeasured

(* The queries of a measured host: what is needed of it was asked.         *)
LEMMA NeededIsQueried ==
    ASSUME NEW s \in {"busy", "idle", "backends", "max_connections"},
           s \in {"busy", "idle"} => "apache" \in Roles,
           s \in {"backends", "max_connections"} => "postgres" \in Roles
    PROVE  \E i \in 1..Len(Queries) : Queries[i] = s
<1> DEFINE a == IF "apache" \in Roles THEN ApacheSeries ELSE <<>>
           p == IF "postgres" \in Roles THEN PostgresSeries ELSE <<>>
<1>1. a \in Seq(Names) /\ p \in Seq(Names) /\ NodeSeries \in Seq(Names)
  BY SeriesTypes
<1>2. Queries = (NodeSeries \o a) \o p
  BY DEF Queries
<1>3. CASE s \in {"busy", "idle"}
  <2>1. PICK k \in 1..Len(a) : a[k] = s
    <3>1. a = ApacheSeries /\ Len(a) = 4
      BY <1>3, SeriesTypes
    <3>2. ApacheSeries[2] = "busy" /\ ApacheSeries[3] = "idle"
      BY DEF ApacheSeries
    <3> HIDE DEF a
    <3> QED BY <1>3, <3>1, <3>2
  <2> HIDE DEF a, p
  <2>2. (NodeSeries \o a)[Len(NodeSeries) + k] = s
    BY <1>1, <2>1
  <2>3. Queries[Len(NodeSeries) + k] = s /\ Len(NodeSeries) + k \in 1..Len(Queries)
    BY <1>1, <1>2, <2>1, <2>2
  <2> QED BY <2>3
<1>4. CASE s \in {"backends", "max_connections"}
  <2>1. PICK k \in 1..Len(p) : p[k] = s
    <3>1. p = PostgresSeries /\ Len(p) = 4
      BY <1>4, SeriesTypes
    <3>2. PostgresSeries[2] = "backends" /\ PostgresSeries[3] = "max_connections"
      BY DEF PostgresSeries
    <3> HIDE DEF p
    <3> QED BY <1>4, <3>1, <3>2
  <2> HIDE DEF a, p
  <2>2. NodeSeries \o a \in Seq(Names)
    BY <1>1
  <2>3. /\ Queries[Len(NodeSeries \o a) + k] = s
        /\ Len(NodeSeries \o a) + k \in 1..Len(Queries)
    BY <1>1, <1>2, <2>1, <2>2
  <2> QED BY <2>3
<1> QED BY <1>3, <1>4

LEMMA UnusableIsNotOk == \A a \in Unusable : StatusOf(a) # "ok"
<1> SUFFICES ASSUME NEW k \in {"no series", "old", "invalid", "no answer"}
             PROVE  StatusOf(No(k)) # "ok"
  BY DEF Unusable
<1>1. No(k).kind = k
  BY DEF No
<1>2. k # "sample"
  OBVIOUS
<1> QED BY <1>1, <1>2 DEF StatusOf

LEMMA SamplesHaveValues ==
    ASSUME DetectionInv, Measured,
           NEW s \in {"busy", "idle", "backends", "max_connections"},
           s \in {"busy", "idle"} => "apache" \in Roles,
           s \in {"backends", "max_connections"} => "postgres" \in Roles
    PROVE  usable(ScalarReading(s)) \/ StatusOf(Answer(s)) # "ok"
<1>1. Answer(s) \in AnswerValues
  <2>1. Len(answers) = Len(Queries) /\ answers \in Seq(AnswerValues)
    BY DEF DetectionInv, Measured
  <2>2. DOMAIN answers = 1..Len(Queries)
    BY <2>1
  <2>3. \E i \in DOMAIN answers : Queries[i] = s
    BY <2>2, NeededIsQueried
  <2>4. PICK i \in DOMAIN answers : Answer(s) = answers[i]
    BY <2>3 DEF Answer
  <2> QED BY <2>1, <2>4
<1>2. CASE Answer(s) \in Unusable
  BY <1>2, UnusableIsNotOk
<1>3. ASSUME Answer(s) \notin Unusable
      PROVE  usable(ScalarReading(s))
  <2>1. PICK q \in ToSet(Queries) :
              \E v \in {Usual[q]} \cup Unusual[q] : Answer(s) = Sample(v)
    BY <1>1, <1>3 DEF AnswerValues
  <2>2. PICK v \in {Usual[q]} \cup Unusual[q] : Answer(s) = Sample(v)
    BY <2>1
  <2>3. v # None
    BY DiagnosisAssumption
  <2> QED BY <2>2, <2>3 DEF Sample, usable, ScalarReading, Reading, StatusOf
<1> QED BY <1>2, <1>3

(* Of two parts of a percentage, one that is missing makes the reading     *)
(* fail, and not the other's absence of a value.                           *)
LEMMA MissingPart ==
    ASSUME NEW p, NEW o, NEW t,
           usable(ScalarReading(p)) \/ StatusOf(Answer(p)) # "ok",
           usable(ScalarReading(o)) \/ StatusOf(Answer(o)) # "ok",
           ~Answered(p) \/ ~Answered(o)
    PROVE  PercentReading(p, o, t).status # "ok"
<1>1. \A s : ~Answered(s) => ScalarReading(s).status # "ok"
  BY DEF Answered, ScalarReading, Reading, StatusOf
<1>2. \A s : ScalarReading(s).status = StatusOf(Answer(s))
  BY DEF ScalarReading, Reading
<1>3. CASE ~usable(ScalarReading(p))
  BY <1>2, <1>3 DEF PercentReading
<1>4. CASE usable(ScalarReading(p))
  <2>1. ~usable(ScalarReading(o))
    BY <1>1, <1>4 DEF usable
  <2> QED BY <1>2, <1>4, <2>1 DEF PercentReading
<1> QED BY <1>3, <1>4

(* Each needed series is looked at by its exporter.                        *)
LEMMA BlindExporter ==
    ASSUME DetectionInv, Measured, NEW s \in NeededSeries, ~Shown(s)
    PROVE  \E e \in Exporters : BlindSpots(e) # {}
<1>1. \A n : ~Answered(n) => ScalarReading(n).status # "ok"
  BY DEF Answered, ScalarReading, Reading, StatusOf
<1>2. \A e \in Exporters : \A n \in REQUIRED_TELEMETRY[e] :
         ReadingOf(n).status # "ok" => BlindSpots(e) # {}
  BY DEF BlindSpots
<1>3. \A e : ReadingOf(UpOf[e]).status # "ok" => BlindSpots(e) # {}
  BY DEF BlindSpots
<1>4. \A n : n \notin Composed => ReadingOf(n) = ScalarReading(n)
  BY DEF ReadingOf, Composed
<1>5. CASE s = "filesystems"
  <2>1. FilesystemReading.status # "ok"
    <3>1. CASE ~Answered("filesystems")
      BY <1>1, <3>1 DEF FilesystemReading
    <3>2. CASE Answered("filesystems")
      <4>1. \A m \in DOMAIN Answer("filesystems").value :
                Answer("filesystems").value[m] \notin 0..100
        BY <1>5, <3>2 DEF Shown
      <4> QED BY <4>1 DEF FilesystemReading, ScalarReading, Reading
    <3> QED BY <3>1, <3>2
  <2>2. ReadingOf("filesystems").status # "ok"
    BY <2>1 DEF ReadingOf
  <2> QED BY <1>2, <2>2 DEF Exporters, REQUIRED_TELEMETRY
<1>6. CASE s \in {"node_exporter_up", "apache_exporter_up", "postgres_exporter_up"}
  <2>1. s \notin Composed /\ ~Answered(s)
    BY <1>6 DEF Composed, Shown
  <2>2. ReadingOf(s).status # "ok"
    BY <1>1, <1>4, <2>1
  <2> QED BY <1>3, <1>6, <2>2 DEF Exporters, UpOf, NeededSeries
<1>7. CASE s \in {"memory_available_bytes", "memory_total_bytes", "cpu_percent",
                  "apache_requests_per_sec", "postgres_deadlocks_per_min"}
  <2>1. s \notin Composed /\ ~Answered(s)
    BY <1>7 DEF Composed, Shown
  <2>2. ReadingOf(s).status # "ok"
    BY <1>1, <1>4, <2>1
  <2> QED BY <1>2, <1>7, <2>2 DEF Exporters, REQUIRED_TELEMETRY, NeededSeries
<1>8. CASE s \in {"busy", "idle"}
  <2>1. "apache" \in Roles /\ ~Answered(s)
    BY <1>8 DEF NeededSeries, Shown
  <2>2. BusyWorkersPercent.status # "ok"
    BY <1>8, <2>1, SamplesHaveValues, MissingPart DEF BusyWorkersPercent
  <2>3. ReadingOf("apache_busy_workers_percent").status # "ok"
    BY <2>2 DEF ReadingOf
  <2> QED BY <1>2, <2>1, <2>3 DEF Exporters, REQUIRED_TELEMETRY
<1>9. CASE s \in {"backends", "max_connections"}
  <2>1. "postgres" \in Roles /\ ~Answered(s)
    BY <1>9 DEF NeededSeries, Shown
  <2>2. ConnectionsPercent.status # "ok"
    BY <1>9, <2>1, SamplesHaveValues, MissingPart DEF ConnectionsPercent
  <2>3. ReadingOf("postgres_active_connections_percent").status # "ok"
    BY <2>2 DEF ReadingOf
  <2> QED BY <1>2, <2>1, <2>3 DEF Exporters, REQUIRED_TELEMETRY
<1> QED BY <1>5, <1>6, <1>7, <1>8, <1>9 DEF NeededSeries

LEMMA DetectedBlindSpots ==
    ASSUME DetectionInv
    PROVE  BlindSpotsAreReported
<1> SUFFICES ASSUME stage = "detected" PROVE BlindSpotsAreReported
  BY DEF BlindSpotsAreReported
<1>1. anomalies = detected_anomalies /\ complete = SnapshotComplete /\ locks # NotAsked
  BY DEF DetectionInv
<1>2. Measured /\ services # NotAsked
  BY <1>1 DEF DetectionInv
<1>3. (\E s \in NeededSeries : ~Shown(s)) => Detected("telemetry_unavailable") # {}
  <2> SUFFICES ASSUME \E s \in NeededSeries : ~Shown(s)
               PROVE  Detected("telemetry_unavailable") # {}
    OBVIOUS
  <2>1. PICK e \in Exporters : BlindSpots(e) # {}
    BY <1>2, BlindExporter
  <2>2. Unavailable(e, BlindSpots(e)) \in telemetry_anomalies
    BY <2>1 DEF telemetry_anomalies
  <2>3. Unavailable(e, BlindSpots(e)) \in detected_anomalies
    BY <2>2 DEF detected_anomalies
  <2> QED BY <1>1, <2>3 DEF Detected, Unavailable, Anomaly
<1>4. ASSUME services.kind # "output" \/ locks.kind = "failure"
      PROVE  /\ ~complete
             /\ \E a \in Detected("telemetry_unavailable") : a.resource = "salt_inspection"
  <2>1. ~complete
    BY <1>1, <1>4 DEF SnapshotComplete
  <2>2. services \in {SaltFailure, Skipped} \/ services.kind = "output"
    BY <1>2 DEF DetectionInv, SaltAnswers, Output
  <2>3. \E check : SaltUnavailable(check) \in detected_anomalies
    <3>1. CASE services = SaltFailure
      BY <3>1 DEF SaltFailure, service_anomalies, detected_anomalies
    <3>2. CASE services = Skipped
      BY <3>2 DEF Skipped, service_anomalies, detected_anomalies
    <3>3. CASE locks.kind = "failure"
      BY <3>3 DEF postgres_lock_anomalies, detected_anomalies
    <3> QED BY <1>4, <2>2, <3>1, <3>2, <3>3
  <2> QED BY <1>1, <2>1, <2>3 DEF Detected, SaltUnavailable, Unavailable, Anomaly
<1> QED BY <1>3, <1>4 DEF BlindSpotsAreReported

-----------------------------------------------------------------------------
(* An alarm is raised on what was measured in this poll, whatever the      *)
(* series, thresholds and answers are (_check_threshold(), usable()).      *)
THEOREM AlarmsRestOnMeasurements ==
    ASSUME SwapHasThreshold
    PROVE  Spec => []AlarmsAreMeasured
<1>1. DetectionInv => AlarmsAreMeasured
  BY DetectedAlarms
<1> QED BY <1>1, DetectionInvariant, PTL

(* Whatever is needed of a host and could not be measured is an anomaly of *)
(* its own (telemetry_anomalies(), salt_telemetry_anomaly()).              *)
THEOREM NoHiddenBlindSpot == Spec => []BlindSpotsAreReported
<1>1. DetectionInv => BlindSpotsAreReported
  BY DetectedBlindSpots
<1> QED BY <1>1, DetectionInvariant, PTL

(* A busy CPU is withheld only for the memory pressure of a host that was  *)
(* seen to swap (check_all_metrics()).                                     *)
THEOREM BusyCpuIsExplained ==
    ASSUME SwapHasThreshold
    PROVE  Spec => []CpuIsExplained
<1>1. DetectionInv => CpuIsExplained
  BY DetectedCpu
<1> QED BY <1>1, DetectionInvariant, PTL

-----------------------------------------------------------------------------
(* Types.  A ledger is a sequence of records, and batches of calls are     *)
(* finite; both hold because what the detector and the configuration name  *)
(* is finite.                                                              *)

Statuses == {"ok", "missing", "stale", "error"}

IsLedger(l) ==
    /\ l \in Seq({l[i] : i \in DOMAIN l})
    /\ \A i \in DOMAIN l : l[i].status \in Statuses

LEMMA SequenceIsFunction ==
    ASSUME NEW S, NEW s \in Seq(S)
    PROVE  s = [i \in 1..Len(s) |-> s[i]]
<1>1. s \in [1..Len(s) -> S]
  OBVIOUS
<1> QED BY <1>1

LEMMA LedgerOfFunction ==
    ASSUME NEW n \in Nat, NEW l, l = [i \in 1..n |-> l[i]],
           \A i \in 1..n : l[i].status \in Statuses
    PROVE  IsLedger(l)
<1> DEFINE values == {l[i] : i \in DOMAIN l}
<1>1. DOMAIN l = 1..n
  OBVIOUS
<1>2. \A i \in 1..n : l[i] \in values
  BY <1>1
<1>3. [i \in 1..n |-> l[i]] \in Seq(values)
  <2> HIDE DEF values
  <2> QED BY <1>2
<1> QED BY <1>1, <1>3 DEF IsLedger

LEMMA LedgerConcat ==
    ASSUME NEW l, NEW m, IsLedger(l), IsLedger(m)
    PROVE  IsLedger(l \o m)
<1> DEFINE values == {l[i] : i \in DOMAIN l} \cup {m[i] : i \in DOMAIN m}
           n == Len(l) + Len(m)
<1>1. l \in Seq({l[i] : i \in DOMAIN l}) /\ m \in Seq({m[i] : i \in DOMAIN m})
  BY DEF IsLedger
<1>2. l \in Seq(values) /\ m \in Seq(values)
  BY <1>1
<1>3. DOMAIN l = 1..Len(l) /\ DOMAIN m = 1..Len(m) /\ Len(l) \in Nat /\ Len(m) \in Nat
  BY <1>2
<1> HIDE DEF values
<1>4. l \o m \in Seq(values) /\ Len(l \o m) = n /\ DOMAIN (l \o m) = 1..n
  BY <1>2, <1>3
<1>5. l \o m = [i \in 1..n |-> (l \o m)[i]]
  BY <1>4, SequenceIsFunction
<1>6. ASSUME NEW i \in 1..n PROVE (l \o m)[i].status \in Statuses
  <2>1. CASE i <= Len(l)
    <3>1. (l \o m)[i] = l[i] /\ i \in DOMAIN l
      BY <1>2, <1>3, <2>1
    <3> QED BY <3>1 DEF IsLedger
  <2>2. CASE i > Len(l)
    <3>1. (l \o m)[i] = m[i - Len(l)] /\ i - Len(l) \in DOMAIN m
      BY <1>2, <1>3, <2>2
    <3> QED BY <3>1 DEF IsLedger
  <2> QED BY <1>3, <2>1, <2>2
<1> QED BY <1>3, <1>5, <1>6, LedgerOfFunction

LEMMA LedgerAppend ==
    ASSUME NEW l, NEW r, IsLedger(l), r.status \in Statuses
    PROVE  IsLedger(Append(l, r))
<1>1. IsLedger(<<r>>)
  BY DEF IsLedger
<1>2. l \in Seq({l[i] : i \in DOMAIN l} \cup {r})
  BY DEF IsLedger
<1>3. Append(l, r) = l \o <<r>>
  BY <1>2
<1> QED BY <1>1, <1>3, LedgerConcat

(* SetToSeq() enumerates a finite set.                                     *)
LEMMA SetToSeqType ==
    ASSUME NEW S, IsFiniteSet(S)
    PROVE  /\ SetToSeq(S) \in [1..Cardinality(S) -> S]
           /\ Cardinality(S) \in Nat
           /\ SetToSeq(S) \in Seq(S) /\ Len(SetToSeq(S)) = Cardinality(S)
<1>1. Cardinality(S) \in Nat /\ ExistsBijection(1..Cardinality(S), S)
  BY FS_CardinalityType
<1>2. \E f \in [1..Cardinality(S) -> S] : IsInjective(f)
  BY <1>1 DEF ExistsBijection, Bijection, Injection
<1>3. SetToSeq(S) \in [1..Cardinality(S) -> S]
  BY <1>2 DEF SetToSeq
<1> QED BY <1>1, <1>3

LEMMA FiniteImages ==
    ASSUME NEW S, IsFiniteSet(S)
    PROVE  /\ \A tag : IsFiniteSet({<<tag, u>> : u \in S})
           /\ IsFiniteSet({c[2] : c \in S})
           /\ IsFiniteSet({<<n, ReadingOf(n).status>> : n \in S})
<1>1. ASSUME NEW T, NEW f \in Surjection(S, T) PROVE IsFiniteSet(T)
  BY <1>1, FS_Surjection
<1>2. ASSUME NEW tag PROVE IsFiniteSet({<<tag, u>> : u \in S})
  <2>1. [u \in S |-> <<tag, u>>] \in Surjection(S, {<<tag, u>> : u \in S})
    BY DEF Surjection
  <2> QED BY <1>1, <2>1
<1>3. [c \in S |-> c[2]] \in Surjection(S, {c[2] : c \in S})
  BY DEF Surjection
<1>4. [n \in S |-> <<n, ReadingOf(n).status>>]
          \in Surjection(S, {<<n, ReadingOf(n).status>> : n \in S})
  BY DEF Surjection
<1> QED BY <1>1, <1>2, <1>3, <1>4

(* What an anomaly carries into its investigation is finite, and of lost   *)
(* telemetry it is how each observation failed.                            *)
IsAnomaly(a) ==
    /\ IsFiniteSet(a.context)
    /\ a.metric = "telemetry_unavailable" => \A c \in a.context : c[2] \in Statuses

LEMMA ReadingStatus ==
    \A n : ReadingOf(n).status \in Statuses
<1>1. \A s : ScalarReading(s).status \in Statuses
  BY DEF ScalarReading, Reading, StatusOf, Statuses
<1>2. FilesystemReading.status \in Statuses
  BY <1>1 DEF FilesystemReading, Reading, Statuses
<1>3. \A p, o, t : PercentReading(p, o, t).status \in Statuses
  BY <1>1 DEF PercentReading, Reading, Statuses
<1> QED BY <1>1, <1>2, <1>3 DEF ReadingOf, BusyWorkersPercent, ConnectionsPercent

LEMMA BlindSpotsType ==
    ASSUME NEW e \in Exporters
    PROVE  IsFiniteSet(BlindSpots(e)) /\ \A c \in BlindSpots(e) : c[2] \in Statuses
<1> DEFINE failed == {n \in REQUIRED_TELEMETRY[e] : ReadingOf(n).status # "ok"}
<1>1. IsFiniteSet(REQUIRED_TELEMETRY[e])
  <2>1. \A a, b, c, d : IsFiniteSet({a, b, c, d}) /\ IsFiniteSet({a, b})
    <3> TAKE a, b, c, d
    <3>1. IsFiniteSet({a}) /\ {a, b} = {a} \cup {b}
      BY FS_Singleton
    <3>2. IsFiniteSet({a, b})
      BY <3>1, FS_AddElement
    <3>3. IsFiniteSet({a, b} \cup {c})
      BY <3>2, FS_AddElement
    <3>4. IsFiniteSet(({a, b} \cup {c}) \cup {d})
      BY <3>3, FS_AddElement
    <3>5. {a, b, c, d} = ({a, b} \cup {c}) \cup {d}
      OBVIOUS
    <3> QED BY <3>2, <3>4, <3>5
  <2>2. e \in {"node_exporter", "apache_exporter", "postgres_exporter"}
    BY DEF Exporters
  <2>3. CASE e = "node_exporter"
    <3>1. REQUIRED_TELEMETRY[e] = {"memory_available_bytes", "memory_total_bytes",
                                   "cpu_percent", "filesystems"}
      BY <2>3 DEF REQUIRED_TELEMETRY
    <3>2. IsFiniteSet({"memory_available_bytes", "memory_total_bytes",
                       "cpu_percent", "filesystems"})
      BY <2>1, Zenon
    <3> QED BY <3>1, <3>2
  <2>4. CASE e = "apache_exporter"
    <3>1. REQUIRED_TELEMETRY[e] = {"apache_busy_workers_percent", "apache_requests_per_sec"}
      BY <2>4 DEF REQUIRED_TELEMETRY
    <3> QED BY <2>1, <3>1
  <2>5. CASE e = "postgres_exporter"
    <3>1. REQUIRED_TELEMETRY[e] = {"postgres_active_connections_percent",
                                   "postgres_deadlocks_per_min"}
      BY <2>5 DEF REQUIRED_TELEMETRY
    <3> QED BY <2>1, <3>1
  <2> QED BY <2>2, <2>3, <2>4, <2>5
<1>2. IsFiniteSet(failed)
  BY <1>1, FS_Subset
<1>3. IsFiniteSet({<<n, ReadingOf(n).status>> : n \in failed})
  <2> HIDE DEF failed
  <2> QED BY <1>2, FiniteImages
<1>4. BlindSpots(e) = {<<n, ReadingOf(n).status>> : n \in failed}
      \/ BlindSpots(e) = {<<UpOf[e], ReadingOf(UpOf[e]).status>>}
      \/ BlindSpots(e) = {<<UpOf[e], "error">>} \/ BlindSpots(e) = {}
  BY DEF BlindSpots
<1>5. IsFiniteSet(BlindSpots(e))
  BY <1>3, <1>4, FS_Singleton, FS_EmptySet
<1>6. \A c \in BlindSpots(e) : c[2] \in Statuses
  <2> HIDE DEF failed
  <2> QED BY <1>4, ReadingStatus DEF Statuses
<1> QED BY <1>5, <1>6

LEMMA SaltUnavailableType == \A check : IsAnomaly(SaltUnavailable(check))
<1> TAKE check
<1>1. SaltUnavailable(check).context = {<<check, "error">>}
  BY DEF SaltUnavailable, Unavailable, Anomaly
<1>2. IsFiniteSet(SaltUnavailable(check).context)
  BY <1>1, FS_Singleton
<1>3. \A c \in SaltUnavailable(check).context : c[2] \in Statuses
  BY <1>1 DEF Statuses
<1> QED BY <1>2, <1>3 DEF IsAnomaly

LEMMA DetectedAreAnomalies ==
    ASSUME DetectionInv, NEW a \in detected_anomalies
    PROVE  IsAnomaly(a)
<1>1. CASE a \in telemetry_anomalies
  <2>1. PICK e \in Exporters : a = Unavailable(e, BlindSpots(e))
    BY <1>1 DEF telemetry_anomalies
  <2>2. a.context = BlindSpots(e)
    BY <2>1 DEF Unavailable, Anomaly
  <2> QED BY <2>2, BlindSpotsType DEF IsAnomaly
<1>2. CASE a \in memory_pressure_anomaly
  <2> DEFINE blank == {d \in MemoryDetails : ValueOf(d) = None}
             swapping == IF active_swapping THEN {<<"active_swapping", "yes">>} ELSE {}
  <2>1. a.metric = "memory_pressure" /\ a.context = swapping \cup {<<"blank", d>> : d \in blank}
    BY <1>2 DEF memory_pressure_anomaly, Anomaly
  <2>2. IsFiniteSet(MemoryDetails)
    <3> DEFINE d4 == {"swap_total_bytes", "swap_free_bytes", "swap_in", "swap_out"}
               d3 == {"system_cpu", "iowait_cpu", "cpu_percent"}
    <3>1. \A x, y, z : IsFiniteSet({x, y, z})
      <4> TAKE x, y, z
      <4>1. IsFiniteSet({x}) /\ {x, y} = {x} \cup {y} /\ {x, y, z} = {x, y} \cup {z}
        BY FS_Singleton
      <4>2. IsFiniteSet({x, y})
        BY <4>1, FS_AddElement
      <4> QED BY <4>1, <4>2, FS_AddElement
    <3>2. MemoryDetails = ({"swap_total_bytes", "swap_free_bytes", "swap_in"}
                             \cup {"swap_out", "system_cpu", "iowait_cpu"}) \cup {"cpu_percent"}
      BY DEF MemoryDetails
    <3>3. IsFiniteSet({"swap_total_bytes", "swap_free_bytes", "swap_in"}
                         \cup {"swap_out", "system_cpu", "iowait_cpu"})
      BY <3>1, FS_Union
    <3> QED BY <3>2, <3>3, FS_AddElement
  <2>3. IsFiniteSet(blank)
    BY <2>2, FS_Subset
  <2>4. IsFiniteSet({<<"blank", d>> : d \in blank})
    <3> HIDE DEF blank
    <3> QED BY <2>3, FiniteImages
  <2>5. IsFiniteSet(swapping)
    BY FS_Singleton, FS_EmptySet
  <2> HIDE DEF blank, swapping
  <2> QED BY <2>1, <2>4, <2>5, FS_Union DEF IsAnomaly
<1>3. CASE a \in cpu_anomaly \cup apache_anomalies \cup postgres_anomalies
  <2>1. a.context = {} /\ a.metric # "telemetry_unavailable"
    BY <1>3, CheckMeansCrossing DEF cpu_anomaly, apache_anomalies, postgres_anomalies
  <2> QED BY <2>1, FS_EmptySet DEF IsAnomaly
<1>4. CASE a \in filesystem_anomalies
  <2>1. a.metric = "disk" /\ a.context = {<<"related", u>> : u \in FailedUnits}
    BY <1>4, MountOfAlarm
  <2>2. services.found \in SUBSET Units
    <3>1. services \in SaltAnswers(Units)
      BY DEF DetectionInv
    <3>2. CASE services \in {NotAsked, SaltFailure, Skipped}
      <4>1. NotAsked.found = {} /\ SaltFailure.found = {} /\ Skipped.found = {}
        BY DEF NotAsked, SaltFailure, Skipped
      <4> QED BY <3>2, <4>1
    <3>3. CASE services \notin {NotAsked, SaltFailure, Skipped}
      <4>1. PICK found \in SUBSET Units : services = Output(found)
        BY <3>1, <3>3 DEF SaltAnswers
      <4> QED BY <4>1 DEF Output
    <3> QED BY <3>2, <3>3
  <2>3. IsFiniteSet(FailedUnits)
    BY <2>2, DiagnosisAssumption, FS_Subset DEF FailedUnits
  <2>4. IsFiniteSet({<<"related", u>> : u \in FailedUnits})
    BY <2>3, FiniteImages
  <2> QED BY <2>1, <2>4 DEF IsAnomaly
<1>5. CASE a \in service_anomalies
  <2>1. \/ \E check : a = SaltUnavailable(check)
        \/ \E u : a = Anomaly("service_down", u, "critical", {})
    BY <1>5 DEF service_anomalies
  <2> QED BY <2>1, SaltUnavailableType, FS_EmptySet DEF IsAnomaly, Anomaly
<1>6. CASE a \in postgres_lock_anomalies
  <2>1. \/ a = SaltUnavailable("postgres_lock_discovery")
        \/ a.metric = "postgres_blocked_transaction" /\ a.context = {}
    BY <1>6, LockAlarm
  <2> QED BY <2>1, SaltUnavailableType, FS_EmptySet DEF IsAnomaly
<1> QED BY <1>1, <1>2, <1>3, <1>4, <1>5, <1>6 DEF detected_anomalies

(* The calls of a batch are numbered from one.                             *)
IsBatch(calls) == \E n \in Nat : DOMAIN calls = 1..n

LEMMA FirstCallsType == \A a : IsBatch(FirstCalls(a))
<1> TAKE a
<1>1. ASSUME a.metric \in DOMAIN COLLECTORS
      PROVE  \E n \in Nat : DOMAIN COLLECTORS[a.metric] = 1..n
  <2>1. CASE a.metric \in {"memory_pressure", "cpu"}
    <3>1. DOMAIN COLLECTORS[a.metric] = 1..1
      BY <2>1 DEF COLLECTORS
    <3> QED BY <3>1
  <2>2. CASE a.metric \in {"disk", "postgres_blocked_transaction", "postgres_connections",
                           "service_down"}
    <3>1. DOMAIN COLLECTORS[a.metric] = 1..3
      BY <2>2 DEF COLLECTORS
    <3> QED BY <3>1
  <2>3. CASE a.metric \in {"apache_busy_workers", "apache_requests"}
    <3>1. DOMAIN COLLECTORS[a.metric] = 1..4
      BY <2>3 DEF COLLECTORS
    <3> QED BY <3>1
  <2>4. DOMAIN COLLECTORS = {"memory_pressure", "cpu", "disk", "apache_busy_workers",
                             "apache_requests", "postgres_blocked_transaction",
                             "postgres_connections", "service_down"}
    BY DEF COLLECTORS
  <2> QED BY <1>1, <2>1, <2>2, <2>3, <2>4
<1>2. CASE a.metric \in DOMAIN COLLECTORS
  BY <1>1, <1>2 DEF FirstCalls, IsBatch
<1>3. CASE a.metric \notin DOMAIN COLLECTORS
  BY <1>3 DEF FirstCalls, IsBatch
<1> QED BY <1>2, <1>3

LEMMA CandidatesType ==
    ASSUME NEW a, NEW records, IsFiniteSet(a.context)
    PROVE  Len(candidates(a, records)) \in Nat
<1> DEFINE related == {c[2] : c \in a.context}
           referenced == {u \in Referencing : \E i \in DOMAIN records :
                                                  records[i].text = "names units"}
           units == SetToSeq(related) \o SetToSeq(referenced \ related)
           all == related \cup referenced
<1>1. IsFiniteSet(related)
  BY FiniteImages
<1>2. IsFiniteSet(referenced \ related)
  BY DiagnosisAssumption, FS_Subset
<1> HIDE DEF related, referenced
<1>3. SetToSeq(related) \in Seq(related) /\ SetToSeq(referenced \ related) \in Seq(referenced \ related)
  BY <1>1, <1>2, SetToSeqType
<1>4. SetToSeq(related) \in Seq(all) /\ SetToSeq(referenced \ related) \in Seq(all)
  BY <1>3
<1>5. units \in Seq(all) /\ Len(units) \in Nat
  BY <1>4
<1> HIDE DEF units, all
<1>6. Min({3, Len(units)}) \in 0..Len(units)
  BY <1>5 DEF Min
<1>7. ASSUME NEW n \in 0..Len(units) PROVE Len(SubSeq(units, 1, n)) \in Nat
  BY <1>5
<1>8. candidates(a, records) = SubSeq(units, 1, Min({3, Len(units)}))
  BY DEF candidates, units, related, referenced
<1> QED BY <1>6, <1>7, <1>8

LEMMA NextCallsType ==
    ASSUME NEW a, NEW records, IsFiniteSet(a.context)
    PROVE  IsBatch(NextCalls(a, records))
<1>1. CASE a.metric = "disk"
  <2>1. 2 * Len(candidates(a, records)) \in Nat
    BY CandidatesType
  <2>2. DOMAIN NextCalls(a, records) = 1..(2 * Len(candidates(a, records)))
    BY <1>1 DEF NextCalls
  <2> QED BY <2>1, <2>2 DEF IsBatch
<1>2. CASE a.metric = "service_down"
  <2> DEFINE edges == dependencies_for_service(a.resource)
  <2>1. IsFiniteSet(edges)
    BY DiagnosisAssumption, FS_Subset DEF dependencies_for_service
  <2>2. Cardinality(edges) \in Nat /\ DOMAIN SetToSeq(edges) = 1..Cardinality(edges)
    BY <2>1, SetToSeqType
  <2>3. DOMAIN NextCalls(a, records) = DOMAIN SetToSeq(edges)
    BY <1>2 DEF NextCalls
  <2> QED BY <2>2, <2>3 DEF IsBatch
<1>3. CASE a.metric \notin {"disk", "service_down"}
  BY <1>3 DEF NextCalls, IsBatch
<1> QED BY <1>1, <1>2, <1>3

LEMMA FailuresType ==
    ASSUME NEW calls, NEW batch, IsBatch(calls)
    PROVE  Failures(calls, batch) \in Nat
<1>1. IsFiniteSet(DOMAIN calls)
  BY FS_Interval DEF IsBatch
<1>2. IsFiniteSet({k \in DOMAIN calls : batch[k] \in Trouble(calls[k].check)})
  BY <1>1, FS_Subset
<1> QED BY <1>2, FS_CardinalityType DEF Failures

LEMMA RecordsType ==
    ASSUME NEW calls, NEW batch, IsBatch(calls)
    PROVE  IsLedger(Records_of(calls, batch))
<1> DEFINE records == Records_of(calls, batch)
<1>1. PICK n \in Nat : DOMAIN calls = 1..n
  BY DEF IsBatch
<1>2. records = [k \in 1..n |->
                    SaltRecord(calls[k].check, calls[k].subject, batch[k], elapsed)]
  BY <1>1 DEF Records_of
<1>3. \A c, u, r, t : SaltRecord(c, u, r, t).status \in Statuses
  BY DEF SaltRecord, Record, evidence_status_for, Statuses
<1>4. records = [k \in 1..n |-> records[k]] /\ \A k \in 1..n : records[k].status \in Statuses
  BY <1>2, <1>3
<1> QED BY <1>4, LedgerOfFunction

(* The ledger of an investigation begins with what was detected.           *)
LEMMA FirstRecordsType ==
    ASSUME NEW a, IsAnomaly(a)
    PROVE  IsLedger(first_records(a))
<1> DEFINE own == <<Record(a.metric, a.resource, "ok", a.metric, 0)>>
           seen == SetToSeq(a.context)
           failed == [k \in DOMAIN seen |->
                         Record(seen[k][1], a.resource, seen[k][2], seen[k][1], 0)]
<1>1. IsLedger(own)
  <2>1. Record(a.metric, a.resource, "ok", a.metric, 0).status \in Statuses
    BY DEF Record, Statuses
  <2> HIDE DEF Record
  <2> QED BY <2>1 DEF IsLedger
<1>2. CASE a.metric # "telemetry_unavailable"
  <2>1. IsLedger(<< >>)
    BY DEF IsLedger
  <2>2. first_records(a) = own \o << >>
    BY <1>2 DEF first_records
  <2> HIDE DEF own
  <2> QED BY <1>1, <2>1, <2>2, LedgerConcat
<1>3. CASE a.metric = "telemetry_unavailable"
  <2>1. IsFiniteSet(a.context) /\ \A c \in a.context : c[2] \in Statuses
    BY <1>3 DEF IsAnomaly
  <2>2. PICK n \in Nat : seen \in [1..n -> a.context]
    BY <2>1, SetToSeqType
  <2>3. failed = [k \in 1..n |-> failed[k]] /\ \A k \in 1..n : failed[k].status \in Statuses
    BY <2>1, <2>2 DEF Record
  <2>4. IsLedger(failed)
    BY <2>3, LedgerOfFunction
  <2>5. first_records(a) = own \o failed
    BY <1>3 DEF first_records
  <2> HIDE DEF own, failed
  <2> QED BY <1>1, <2>4, <2>5, LedgerConcat
<1> QED BY <1>2, <1>3

Stages == Active \cup {"measuring", "detected", "refused", "failed", "analysed", "sending", "over"}

InvestigationType ==
    /\ stage \in Stages
    /\ elapsed \in 0..LlmSeconds /\ trouble \in 0..MaxTrouble /\ tried \in BOOLEAN
    /\ IsLedger(ledger)
    /\ stage \in Active => IsAnomaly(anomaly)

DeliveryType ==
    /\ attempts \in 0..MaxRetries /\ held \in BOOLEAN
    /\ result \in {"none", "Success", "Error"}
    /\ result = "none" => attempts < MaxRetries

LEMMA NothingYet == IsLedger(<<>>) /\ 0 \in 0..LlmSeconds /\ 0 \in 0..MaxTrouble
BY DiagnosisAssumption DEF IsLedger

LEMMA CollectKeepsType ==
    ASSUME InvestigationType, NEW calls, NEW batch, IsBatch(calls),
           NEW next \in Stages, stage \in Active, Collect(calls, batch, next)
    PROVE  InvestigationType'
<1>1. /\ ledger' = ledger \o Records_of(calls, batch)
      /\ trouble' = trouble + Failures(calls, batch) /\ trouble' <= MaxTrouble
      /\ stage' = next /\ UNCHANGED <<anomaly, elapsed, tried>>
  BY DEF Collect, Go
<1>2. IsLedger(ledger')
  BY <1>1, RecordsType, LedgerConcat DEF InvestigationType
<1>3. trouble' \in 0..MaxTrouble
  BY <1>1, FailuresType, DiagnosisAssumption DEF InvestigationType
<1> QED BY <1>1, <1>2, <1>3 DEF InvestigationType

LEMMA FailKeepsType == ASSUME InvestigationType, Fail PROVE InvestigationType'
<1>1. /\ stage' = "failed" /\ ledger' = <<>> /\ elapsed' = 0 /\ trouble' = 0 /\ tried' = FALSE
  BY DEF Fail, Go
<1> QED BY <1>1, NothingYet DEF InvestigationType, Stages, Active

LEMMA InvestigationTypeStep ==
    ASSUME DetectionInv, InvestigationType, [Next]_vars
    PROVE  InvestigationType'
<1>1. ASSUME NEW s \in Stages, stage' = s, UNCHANGED <<elapsed, trouble, tried, ledger>>,
             s \in Active => UNCHANGED anomaly /\ stage \in Active
      PROVE  InvestigationType'
  BY <1>1 DEF InvestigationType
<1>2. ASSUME NEW s \in Stages \ Active, stage' = s, ledger' = <<>>, elapsed' = 0, trouble' = 0,
             tried' = FALSE
      PROVE  InvestigationType'
  BY <1>2, NothingYet DEF InvestigationType
<1>3. CASE Measure \/ DiscoverServices \/ DiscoverLocks \/ PostAlert \/ Wait \/ UNCHANGED vars
  <2>1. UNCHANGED investigationVars
    BY <1>3 DEF Measure, DiscoverServices, DiscoverLocks, PostAlert, Wait, vars
  <2> QED BY <2>1 DEF InvestigationType, investigationVars
<1>4. CASE Detect
  BY <1>1, <1>4 DEF Detect, Go, Stages, Active
<1>5. CASE SnapshotLost \/ Quiet \/ Finish
  BY <1>2, <1>5 DEF SnapshotLost, Quiet, Finish, Reset, Go, Stages, Active
<1>6. CASE Admitted
  <2>1. PICK a \in anomalies : Begin(a)
    BY <1>6 DEF Admitted
  <2>2. anomalies = detected_anomalies
    BY <1>6 DEF Admitted, DetectionInv
  <2>3. IsAnomaly(a)
    BY <2>2, DetectedAreAnomalies
  <2>4. IsLedger(ledger')
    BY <2>1, <2>3, FirstRecordsType DEF Begin
  <2>5. anomaly' = a /\ stage' = "collecting" /\ UNCHANGED <<elapsed, trouble, tried>>
    BY <2>1 DEF Begin, Go
  <2> QED BY <2>3, <2>4, <2>5 DEF InvestigationType, Stages, Active
<1>7. CASE Refused_investigation
  BY <1>1, <1>7 DEF Refused_investigation, Go, Stages, Active
<1>8. CASE Proceed
  <2>1. CASE CollectFirst
    <3>1. stage \in Active /\ "inspecting" \in Stages
      BY <2>1 DEF CollectFirst, Stages, Active
    <3>2. PICK batch : Collect(FirstCalls(anomaly), batch, "inspecting")
      BY <2>1 DEF CollectFirst
    <3> QED BY <3>1, <3>2, FirstCallsType, CollectKeepsType
  <2>2. CASE CollectNext
    <3>1. stage \in Active /\ "deciding" \in Stages
      BY <2>2 DEF CollectNext, Stages, Active
    <3>2. IsBatch(NextCalls(anomaly, ledger))
      BY <3>1, NextCallsType DEF InvestigationType, IsAnomaly
    <3>3. CASE \E batch : Collect(NextCalls(anomaly, ledger), batch, "deciding")
      BY <3>1, <3>2, <3>3, CollectKeepsType
    <3>4. CASE /\ ledger' = Append(ledger, NoCandidate) /\ Go("deciding")
               /\ UNCHANGED <<anomaly, elapsed, trouble, tried, analysis>>
      <4>1. NoCandidate.status \in Statuses
        BY DEF NoCandidate, Record, Statuses
      <4>2. IsLedger(ledger')
        BY <3>4, <4>1, LedgerAppend DEF InvestigationType
      <4> QED BY <3>1, <3>4, <4>2 DEF InvestigationType, Go
    <3> QED BY <2>2, <3>3, <3>4 DEF CollectNext
  <2>3. CASE AgentAnswers
    BY <1>1, <2>3 DEF AgentAnswers, Go, Stages, Active
  <2>4. CASE StructuringRetried
    <3>1. trouble' \in 0..MaxTrouble
      BY <2>4, DiagnosisAssumption DEF StructuringRetried, InvestigationType
    <3> QED BY <2>4, <3>1 DEF StructuringRetried, InvestigationType
  <2>5. CASE Tick
    <3>1. elapsed' \in 0..LlmSeconds
      BY <2>5, DiagnosisAssumption DEF Tick, InvestigationType
    <3> QED BY <2>5, <3>1 DEF Tick, InvestigationType
  <2> QED BY <1>8, <2>1, <2>2, <2>3, <2>4, <2>5 DEF Proceed
<1>9. CASE Conclude
  <2>1. CASE Decide(scene.rules)
    <3>1. /\ UNCHANGED <<anomaly, ledger, elapsed, trouble, tried>> /\ stage = "deciding"
          /\ stage' \in {"analysed", "agent"}
      BY <2>1 DEF Decide, Analyse, Go
    <3> QED BY <1>1, <3>1 DEF Stages, Active
  <2>2. CASE Structure
    BY <1>1, <2>2 DEF Structure, Analyse, Go, Stages, Active
  <2>3. CASE Fail
    BY <2>3, FailKeepsType
  <2> QED BY <1>9, <2>1, <2>2, <2>3 DEF Conclude, Concludes, CollectionRaises, PromptFails,
                                        ModelFails, Deadline
<1>10. CASE InvestigationDeadline
  BY <1>10, FailKeepsType DEF InvestigationDeadline
<1>11. CASE Send
  <2>1. /\ stage' = "sending" /\ ledger' = <<>> /\ elapsed' = 0 /\ trouble' = 0
        /\ tried' = FALSE
    BY <1>11 DEF Send, Go
  <2>2. "sending" \in Stages \ Active
    BY DEF Stages, Active
  <2> QED BY <1>2, <2>1, <2>2
<1>12. CASE NextPoll
  <2>1. /\ stage' = "measuring" /\ UNCHANGED <<elapsed, trouble, tried, ledger>>
    BY <1>12 DEF NextPoll, Go
  <2>2. "measuring" \in Stages \ Active
    BY DEF Stages, Active
  <2> QED BY <1>1, <2>1, <2>2
<1> QED BY <1>3, <1>4, <1>5, <1>6, <1>7, <1>8, <1>9, <1>10, <1>11, <1>12 DEF Next

LEMMA DeliveryTypeStep == DeliveryType /\ [Next]_vars => DeliveryType'
<1> SUFFICES ASSUME DeliveryType, [Next]_vars PROVE DeliveryType'
  OBVIOUS
<1>1. CASE UNCHANGED deliveryVars
  BY <1>1 DEF deliveryVars, DeliveryType
<1>2. CASE Reset
  <2>1. held' \in BOOLEAN
    BY <1>2, Zenon DEF Reset
  <2>2. attempts' = 0 /\ result' = "none"
    BY <1>2 DEF Reset
  <2> QED BY <2>1, <2>2 DEF DeliveryType, MaxRetries
<1>3. CASE Deliver
  <2>1. held' \in BOOLEAN
    BY <1>3, Zenon DEF Deliver, Accepted, Rejected, Unclear, DeliveryDeadline, CircuitOpen,
                       DeliveryType
  <2>2. /\ attempts' \in 0..MaxRetries /\ result' \in {"none", "Success", "Error"}
        /\ result' = "none" => attempts' < MaxRetries
    <3>1. attempts \in 0..3 /\ (result = "none" => attempts < 3) /\ MaxRetries = 3
      BY DEF DeliveryType, MaxRetries
    <3>2. CASE Accepted \/ Rejected
      BY <3>1, <3>2 DEF Accepted, Rejected, Posting
    <3>3. CASE Unclear
      BY <3>1, <3>3 DEF Unclear, Posting
    <3>4. CASE DeliveryDeadline \/ CircuitOpen
      BY <3>1, <3>4 DEF DeliveryDeadline, CircuitOpen
    <3> QED BY <1>3, <3>2, <3>3, <3>4 DEF Deliver
  <2> QED BY <2>1, <2>2 DEF DeliveryType
<1>4. UNCHANGED deliveryVars \/ Reset \/ Deliver
  BY DEF Next, vars, Rest, Measure, DiscoverServices, DiscoverLocks, Detect,
         SnapshotLost, Quiet, Admitted, Refused_investigation, Proceed, Conclude,
         InvestigationDeadline, Send, PostAlert, Finish, Wait, NextPoll
<1> QED BY <1>1, <1>2, <1>3, <1>4

(* The circuit keeps its types, whoever uses it.                           *)
LEMMA CircuitTypeStep ==
    LLM!BreakerTypeOK /\ [LLM!BreakerNext]_(LLM!breakerVars) => LLM!BreakerTypeOK'
<1> SUFFICES ASSUME LLM!BreakerTypeOK, [LLM!BreakerNext]_(LLM!breakerVars)
             PROVE  LLM!BreakerTypeOK'
  OBVIOUS
<1>a. FailureThreshold \in Nat \ {0} /\ RecoveryTimeout \in Nat \ {0}
  BY DiagnosisAssumption
<1>b. /\ state \in {"CLOSED", "OPEN", "HALF_OPEN"} /\ failures \in 0..FailureThreshold
      /\ openedAgo \in 0..RecoveryTimeout
      /\ call \in [{"investigation"} -> {"idle", "admitted", "probe"}]
  BY DEF LLM!BreakerTypeOK
<1>c. probing \in BOOLEAN
  BY Zenon DEF LLM!BreakerTypeOK
<1> DEFINE Circuit == /\ state' \in {"CLOSED", "OPEN", "HALF_OPEN"}
                      /\ failures' \in 0..FailureThreshold
                      /\ openedAgo' \in 0..RecoveryTimeout
                      /\ call' \in [{"investigation"} -> {"idle", "admitted", "probe"}]
<1>1. ASSUME LLM!Snapshot PROVE Circuit /\ probing' \in BOOLEAN
  <2>1. Circuit
    BY <1>b, <1>1 DEF LLM!Snapshot, LLM!effective_state
  <2>2. probing' \in BOOLEAN
    BY <1>1, Zenon DEF LLM!Snapshot, LLM!effective_probe
  <2> QED BY <2>1, <2>2
<1>2. ASSUME LLM!Tick PROVE Circuit /\ probing' \in BOOLEAN
  <2>1. Circuit
    BY <1>a, <1>b, <1>2 DEF LLM!Tick
  <2>2. probing' \in BOOLEAN
    BY <1>c, <1>2, Zenon DEF LLM!Tick
  <2> QED BY <2>1, <2>2
<1>3. ~LLM!record_external_success /\ ~LLM!record_external_failure
  BY DEF LLM!record_external_success, LLM!record_external_failure
<1>4. ASSUME LLM!Acquire("investigation") PROVE Circuit /\ probing' \in BOOLEAN
  <2>1. CASE LLM!Admit("investigation")
    <3>1. Circuit
      BY <1>b, <2>1 DEF LLM!Admit
    <3>2. probing' \in BOOLEAN
      BY <1>c, <2>1, Zenon DEF LLM!Admit
    <3> QED BY <3>1, <3>2
  <2>2. CASE LLM!Probe("investigation")
    <3>1. Circuit
      BY <1>b, <2>2 DEF LLM!Probe
    <3>2. probing' \in BOOLEAN
      BY <2>2, Zenon DEF LLM!Probe
    <3> QED BY <3>1, <3>2
  <2>3. CASE LLM!Reject("investigation")
    BY <1>1, <2>3 DEF LLM!Reject
  <2> QED BY <1>4, <2>1, <2>2, <2>3 DEF LLM!Acquire
<1>5. ASSUME LLM!Succeed("investigation") PROVE Circuit /\ probing' \in BOOLEAN
  <2>1. Circuit
    BY <1>a, <1>b, <1>5 DEF LLM!Succeed, LLM!record_success, LLM!Return
  <2>2. probing' \in BOOLEAN
    BY <1>5, Zenon DEF LLM!Succeed, LLM!record_success
  <2> QED BY <2>1, <2>2
<1>6. ASSUME LLM!Fail("investigation") PROVE Circuit /\ probing' \in BOOLEAN
  <2>1. Circuit
    BY <1>a, <1>b, <1>6 DEF LLM!Fail, LLM!record_failure, LLM!Return
  <2>2. probing' \in BOOLEAN
    BY <1>6, Zenon DEF LLM!Fail, LLM!record_failure
  <2> QED BY <2>1, <2>2
<1>7. ASSUME LLM!CancelCall("investigation") PROVE Circuit /\ probing' \in BOOLEAN
  <2>1. Circuit
    BY <1>b, <1>7 DEF LLM!CancelCall, LLM!Return
  <2>2. probing' \in BOOLEAN
    BY <1>c, <1>7, Zenon DEF LLM!CancelCall
  <2> QED BY <2>1, <2>2
<1>8. ASSUME UNCHANGED LLM!breakerVars PROVE Circuit /\ probing' \in BOOLEAN
  <2>1. Circuit
    BY <1>b, <1>8 DEF LLM!breakerVars
  <2>2. probing' \in BOOLEAN
    BY <1>c, <1>8, Zenon DEF LLM!breakerVars
  <2> QED BY <2>1, <2>2
<1>9. Circuit /\ probing' \in BOOLEAN
  <2> HIDE DEF Circuit
  <2> QED BY <1>1, <1>2, <1>3, <1>4, <1>5, <1>6, <1>7, <1>8, Zenon DEF LLM!BreakerNext
<1> QED BY <1>9, Zenon DEF LLM!BreakerTypeOK

(* Every poll, investigation and delivery keeps the types of the model.    *)
THEOREM DiagnosisTypeCorrect == Spec => []TypeOK
<1> DEFINE Inv == /\ DetectionInv /\ InvestigationType /\ DeliveryType
                  /\ LLM!BreakerTypeOK
<1>1. Init => Inv
  <2> SUFFICES ASSUME Init PROVE Inv
    OBVIOUS
  <2>1. InvestigationType
    BY NothingYet DEF Init, Forgotten, InvestigationType, Stages, Active
  <2>2. DeliveryType
    <3>1. held \in BOOLEAN
      BY Zenon DEF Init, Forgotten, DeliveryInit
    <3>2. attempts = 0 /\ result = "none"
      BY DEF Init, Forgotten, DeliveryInit
    <3> QED BY <3>1, <3>2 DEF DeliveryType, MaxRetries
  <2>3. LLM!BreakerTypeOK
    <3>1. probing \in BOOLEAN
      BY Zenon DEF Init, LLM!BreakerInit
    <3>2. /\ state \in {"CLOSED", "OPEN", "HALF_OPEN"} /\ failures \in 0..FailureThreshold
          /\ openedAgo \in 0..RecoveryTimeout
          /\ call \in [{"investigation"} -> {"idle", "admitted", "probe"}]
      BY DiagnosisAssumption DEF Init, LLM!BreakerInit
    <3> QED BY <3>1, <3>2, Zenon DEF LLM!BreakerTypeOK
  <2> QED BY <2>1, <2>2, <2>3, DetectionInit
<1>2. Inv /\ [Next]_vars /\ [LLM!BreakerNext]_(LLM!breakerVars) => Inv'
  BY DetectionStep, InvestigationTypeStep, DeliveryTypeStep, CircuitTypeStep
<1>3. Inv => TypeOK
  BY DEF DetectionInv, InvestigationType, DeliveryType, IsLedger, Statuses, Stages, TypeOK
<1> HIDE DEF Inv
<1> QED BY <1>1, <1>2, <1>3, InvestigationsUseTheCircuit, PTL DEF Spec
=============================================================================
