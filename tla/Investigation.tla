---------------------------- MODULE Investigation ----------------------------
(***************************************************************************)
(* One investigation (uyuni_ai_agent/react_agent.py): the evidence every   *)
(* kind of anomaly requires, and the diagnosis made of it, by a rule or by *)
(* the language model, under the deadline of execute("llm").               *)
(*                                                                         *)
(* The calls of asyncio.gather() are joined before any result is used: a   *)
(* batch returns as a whole, or raises as a whole.  Time is counted in     *)
(* ticks from the start of the investigation.                              *)
(***************************************************************************)
EXTENDS DeterministicAnalysis, SequencesExt

CONSTANTS
    Texts,          \* of each check: what its output may show
    Referencing,    \* the units whose files mention the full file system
    Edges,          \* dependencies: [kind, service, known]
    LlmSeconds,     \* timeouts.llm_seconds, in ticks
    MaxTrouble      \* bound: calls of one investigation that go wrong

VARIABLES
    anomaly,        \* under investigation
    stage,
    ledger,
    elapsed,
    trouble,        \* what went wrong so far, up to MaxTrouble
    tried,          \* whether the structuring was repeated
    analysis        \* the grounded analysis

investigationVars == <<anomaly, stage, ledger, elapsed, trouble, tried, analysis>>

Active == {"collecting", "inspecting", "deciding", "agent", "structuring"}

Go(next) == stage' = next

-----------------------------------------------------------------------------
(* _ledger_for_anomaly(): the finding of the detector, which is E1, and    *)
(* what was not observed.                                                  *)

first_records(a) ==
    <<Record(a.metric, a.resource, "ok", a.metric, 0)>>
    \o (IF a.metric # "telemetry_unavailable" THEN <<>>
        ELSE LET seen == SetToSeq(a.context)
             IN  [k \in DOMAIN seen |->
                     Record(seen[k][1], a.resource, seen[k][2], seen[k][1], 0)])

(* collect_required_*_evidence(): what is asked first ...                  *)
COLLECTORS ==
    [memory_pressure |-> <<"memory_pressure_snapshot">>,
     cpu |-> <<"cpu_pressure_snapshot">>,
     disk |-> <<"disk_usage", "largest_files", "service_references">>,
     apache_busy_workers |-> <<"apache_overload_snapshot", "postgres_health",
                "postgres_blocking_activity", "postgres_connection_activity">>,
     apache_requests |-> <<"apache_overload_snapshot", "postgres_health",
                "postgres_blocking_activity", "postgres_connection_activity">>,
     postgres_blocked_transaction |-> <<"postgres_health",
                "postgres_blocking_activity", "apache_dependency_snapshot">>,
     postgres_connections |-> <<"postgres_health", "postgres_connection_activity",
                "postgres_blocking_activity">>,
     service_down |-> <<"service_details", "service_logs", "listening_tcp_ports">>]

Call(check, subject) == [check |-> check, subject |-> subject]

FirstCalls(a) ==
    IF a.metric \notin DOMAIN COLLECTORS THEN <<>>
    ELSE [k \in DOMAIN COLLECTORS[a.metric] |-> Call(COLLECTORS[a.metric][k], a.resource)]

(* ... and what the answers lead to: at most three units that failed or    *)
(* mention the file system, or the configured edges of a failed unit.      *)
candidates(a, records) ==
    LET related == {c[2] : c \in a.context}
        referenced == {u \in Referencing : \E i \in DOMAIN records :
                                               records[i].text = "names units"}
        units == SetToSeq(related) \o SetToSeq(referenced \ related)
    IN  SubSeq(units, 1, Min({3, Len(units)}))

dependencies_for_service(unit) == {e \in Edges : e.service = unit}

InspectionOf == [ssh |-> "dependency_inspection:ssh", tls |-> "dependency_inspection:tls",
                 nfs |-> "dependency_inspection:nfs"]

NextCalls(a, records) ==
    CASE a.metric = "disk" ->
            LET units == candidates(a, records)
            IN  [k \in 1..(2 * Len(units)) |->
                    Call(IF k % 2 = 1 THEN "service_details" ELSE "service_logs",
                         units[(k + 1) \div 2])]
      [] a.metric = "service_down" ->
            LET edges == SetToSeq(dependencies_for_service(a.resource))
            IN  [k \in DOMAIN edges |-> Call(InspectionOf[edges[k].kind], a.resource)]
      [] OTHER -> <<>>

(* Both ends of an edge make one text, whatever became of either; so such  *)
(* a text is never a failure.                                              *)
OneEndFailed == "one end failed"

Trouble(check) ==
    IF check \in {InspectionOf[k] : k \in DOMAIN InspectionOf} THEN {OneEndFailed}
    ELSE Unanswered \cup {""}

Batches(calls) ==
    LET may == [k \in DOMAIN calls |-> Texts[calls[k].check] \cup Trouble(calls[k].check)]
    IN  {b \in [DOMAIN calls -> UNION {may[k] : k \in DOMAIN calls}] :
            \A k \in DOMAIN calls : b[k] \in may[k]}

Failures(calls, batch) == Cardinality({k \in DOMAIN calls : batch[k] \in Trouble(calls[k].check)})

Records_of(calls, batch) ==
    [k \in DOMAIN calls |-> SaltRecord(calls[k].check, calls[k].subject, batch[k], elapsed)]

Collect(calls, batch, next) ==
    /\ trouble + Failures(calls, batch) <= MaxTrouble
    /\ trouble' = trouble + Failures(calls, batch)
    /\ ledger' = ledger \o Records_of(calls, batch)
    /\ Go(next)
    /\ UNCHANGED <<anomaly, elapsed, tried, analysis>>

-----------------------------------------------------------------------------
(* investigate().                                                          *)

Begin(a) ==
    /\ anomaly' = a
    /\ ledger' = first_records(a)
    /\ Go("collecting")
    /\ UNCHANGED <<elapsed, trouble, tried, analysis>>

CollectFirst ==
    /\ stage = "collecting"
    /\ \E batch \in Batches(FirstCalls(anomaly)) :
           Collect(FirstCalls(anomaly), batch, "inspecting")

NoCandidate == Record("candidate_service_discovery", "none", "missing", "", elapsed)

AllKnown == \A e \in dependencies_for_service(anomaly.resource) : e.known

CollectNext ==
    LET calls == NextCalls(anomaly, ledger)
    IN  /\ stage = "inspecting"
        /\ anomaly.metric = "service_down" => AllKnown
        /\ IF anomaly.metric = "disk" /\ calls = <<>>
           THEN /\ ledger' = Append(ledger, NoCandidate)
                /\ Go("deciding")
                /\ UNCHANGED <<anomaly, elapsed, trouble, tried, analysis>>
           ELSE \E batch \in Batches(calls) : Collect(calls, batch, "deciding")

(* An exception leaves investigate(), and nothing of it.                   *)
Fail ==
    /\ Go("failed")
    /\ ledger' = <<>> /\ elapsed' = 0 /\ trouble' = 0 /\ tried' = FALSE
    /\ UNCHANGED <<anomaly, analysis>>

(* A TimeoutError of the Salt calls is not among the exceptions that       *)
(* _safe_call() turns into evidence; nor is the ValueError of an edge that *)
(* leaves the inventory, which _dependency() raises.                       *)
CollectionRaises ==
    \/ /\ stage \in {"collecting", "inspecting"}
       /\ (IF stage = "collecting" THEN FirstCalls(anomaly)
           ELSE NextCalls(anomaly, ledger)) # <<>>
       /\ Fail
    \/ /\ stage = "inspecting" /\ anomaly.metric = "service_down" /\ ~AllKnown
       /\ Fail

Analyse(found, allow_failed) ==
    /\ analysis' = ground_analysis(found, ledger, allow_failed, elapsed)
    /\ Go("analysed")

telemetry_unavailable_analysis ==
    LET cited == Fallback(ledger)
    IN  Analysis("confirmed", cited, cited, {{i} : i \in cited})

(* The prompt of a memory anomaly formats readings that may be None.       *)
PromptRaises == \E d \in anomaly.context : anomaly.metric = "memory_pressure" /\ d[1] = "blank"

(* The rules may be switched off (deterministic_analysis_enabled).         *)
proven(enabled) == IF enabled THEN try_deterministic_analysis(anomaly, ledger) ELSE {}

Decide(enabled) ==
    LET cited == proven(enabled)
    IN  /\ stage = "deciding"
        /\ \/ /\ anomaly.metric = "telemetry_unavailable"
              /\ Analyse(telemetry_unavailable_analysis, TRUE)
           \/ /\ anomaly.metric # "telemetry_unavailable" /\ cited # {}
              /\ Analyse(ProvenAnalysis(cited), FALSE)
           \/ /\ anomaly.metric # "telemetry_unavailable" /\ cited = {}
              /\ ~PromptRaises /\ Go("agent")
              /\ UNCHANGED analysis
        /\ UNCHANGED <<anomaly, ledger, elapsed, trouble, tried>>

(* The prompt is made before the agent is asked.                           *)
PromptFails(enabled) ==
    /\ stage = "deciding" /\ PromptRaises /\ proven(enabled) = {}
    /\ Fail

AgentAnswers ==
    /\ stage = "agent" /\ Go("structuring")
    /\ UNCHANGED <<anomaly, ledger, elapsed, trouble, tried, analysis>>

(* The model may cite what does not exist, and what it was not given; the  *)
(* bound is on the records it may choose from.                             *)
Invented == Len(ledger) + 1

Citable == {1, 2, Len(ledger), Invented} \cup Failed(ledger)

Diagnoses ==
    UNION {{Analysis("confirmed", cited, cited, {cited}),
            Analysis("confirmed", cited, {1}, {cited}),
            Analysis("confirmed", cited, {Invented}, {cited}),
            Analysis("confirmed", cited, cited, {{}}),
            Analysis("inconclusive", cited, cited, {cited})} :
               cited \in {{i, j} : i \in Citable, j \in Citable}}

Structure ==
    /\ stage = "structuring"
    /\ \E diagnosis \in Diagnoses : Analyse(diagnosis, FALSE)
    /\ UNCHANGED <<anomaly, ledger, elapsed, trouble, tried>>

(* _invoke_structured_with_rate_limit_retry(): one repetition, if the      *)
(* provider throttles or the answer is not of the schema.                  *)
StructuringRetried ==
    /\ stage = "structuring" /\ ~tried /\ trouble < MaxTrouble
    /\ tried' = TRUE /\ trouble' = trouble + 1
    /\ UNCHANGED <<anomaly, stage, ledger, elapsed, analysis>>

ModelFails == stage \in {"agent", "structuring"} /\ Fail

-----------------------------------------------------------------------------
Tick ==
    /\ stage \in Active /\ elapsed < LlmSeconds
    /\ elapsed' = elapsed + 1
    /\ UNCHANGED <<anomaly, stage, ledger, trouble, tried, analysis>>

(* Variant with a bug: the deadline is that of the model only.             *)
ModelDeadline == stage \in {"agent", "structuring"} /\ elapsed = LlmSeconds /\ Fail

Deadline == stage \in Active /\ elapsed = LlmSeconds /\ Fail

Concludes(enabled) ==
    \/ CollectionRaises \/ Decide(enabled) \/ PromptFails(enabled)
    \/ Structure \/ ModelFails \/ Deadline
=============================================================================
