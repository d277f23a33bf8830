------------------------------ MODULE Telemetry ------------------------------
(***************************************************************************)
(* What the agent measures of one minion (uyuni_ai_agent/                  *)
(* prometheus_client.py): one query after the other, each of which may     *)
(* find the host, the exporter or Prometheus in another condition, and the *)
(* readings made of the answers.                                           *)
(*                                                                         *)
(* An answer is a sample, or how there is none to use: no series, one that *)
(* is too old, one that is no finite number, or no answer at all.          *)
(***************************************************************************)
EXTENDS Integers, Sequences, FiniteSetsExt

CONSTANTS
    Roles,      \* the exporters next to node_exporter: "apache", "postgres"
    None

VARIABLE answers    \* the answers so far, in the order of the queries

Sample(v) == [kind |-> "sample", value |-> v]
No(kind) == [kind |-> kind, value |-> None]
Unusable == {No(k) : k \in {"no series", "old", "invalid", "no answer"}}

-----------------------------------------------------------------------------
(* The queries of get_all_metrics(), in its order.                         *)

NodeSeries == <<"node_exporter_up", "filesystems", "memory_available_bytes",
                "memory_total_bytes", "swap_total_bytes", "swap_free_bytes",
                "swap_in", "swap_out", "system_cpu", "iowait_cpu", "cpu_percent">>
ApacheSeries == <<"apache_exporter_up", "busy", "idle", "apache_requests_per_sec">>
PostgresSeries == <<"postgres_exporter_up", "backends", "max_connections",
                    "postgres_deadlocks_per_min">>

Queries ==
    NodeSeries \o (IF "apache" \in Roles THEN ApacheSeries ELSE <<>>)
               \o (IF "postgres" \in Roles THEN PostgresSeries ELSE <<>>)

Measured == Len(answers) = Len(Queries)
Asked == {Queries[i] : i \in DOMAIN answers}

Ask(answer) == ~Measured /\ answers' = Append(answers, answer)

Answer(s) == answers[CHOOSE i \in DOMAIN answers : Queries[i] = s]

-----------------------------------------------------------------------------
(* _parse_response() and _reading_from_first_sample().                     *)

StatusOf(answer) ==
    CASE answer.kind = "sample" -> "ok"
      [] answer.kind = "no series" -> "missing"
      [] answer.kind = "old" -> "stale"
      [] OTHER -> "error"

Reading(status, value) == [status |-> status, value |-> value]

ScalarReading(s) == Reading(StatusOf(Answer(s)), Answer(s).value)

usable(r) == r.status = "ok" /\ r.value # None

(* Variant with a bug: whatever the mounts claim.                          *)
EveryMount == ScalarReading("filesystems")

(* Every mount with a percentage; other samples are dropped, and it takes  *)
(* one that is not to make a reading.                                      *)
FilesystemReading ==
    LET r == ScalarReading("filesystems")
        valid == {m \in DOMAIN r.value : r.value[m] \in 0..100}
    IN  IF r.status # "ok" THEN r
        ELSE IF valid = {} THEN Reading("error", None)
        ELSE Reading("ok", [m \in valid |-> r.value[m]])

(* A percentage of two scalars takes over the failure of the first of them *)
(* that has none to offer; the whole is both together or the other one,    *)
(* and an error if it is zero.                                             *)
PercentReading(part, other, together) ==
    LET p == ScalarReading(part)  o == ScalarReading(other)
        whole == IF together THEN p.value + o.value ELSE o.value
    IN  IF ~usable(p) THEN p ELSE IF ~usable(o) THEN o
        ELSE IF whole <= 0 THEN Reading("error", None)
        ELSE Reading("ok", (100 * p.value) \div whole)

BusyWorkersPercent == PercentReading("busy", "idle", TRUE)
ConnectionsPercent == PercentReading("backends", "max_connections", FALSE)

ReadingOf(name) ==
    CASE name = "filesystems" -> FilesystemReading
      [] name = "apache_busy_workers_percent" -> BusyWorkersPercent
      [] name = "postgres_active_connections_percent" -> ConnectionsPercent
      [] OTHER -> ScalarReading(name)

ValueOf(name) == IF usable(ReadingOf(name)) THEN ReadingOf(name).value ELSE None

(* telemetry: what every query of the snapshot came to.                    *)
Observed ==
    (Asked \ {"busy", "idle", "backends", "max_connections"})
        \cup (IF "busy" \in Asked THEN {"apache_busy_workers_percent"} ELSE {})
        \cup (IF "backends" \in Asked THEN {"postgres_active_connections_percent"} ELSE {})

-----------------------------------------------------------------------------
(* get_memory_pressure_metrics().                                          *)

Clamped(v) == Max({0, Min({v, 100})})

memory_usage_percent ==
    LET available == ValueOf("memory_available_bytes")
        total == ValueOf("memory_total_bytes")
    IN  IF None \in {available, total} \/ total = 0 THEN None
        ELSE Clamped((100 * (total - available)) \div total)

swap_usage_percent ==
    LET total == ValueOf("swap_total_bytes")
        free == ValueOf("swap_free_bytes")
    IN  IF None \in {total, free} THEN None
        ELSE IF total = 0 THEN 0
        ELSE (100 * (total - Min({free, total}))) \div total

swap_activity ==
    LET in == ValueOf("swap_in")  out == ValueOf("swap_out")
    IN  IF None \in {in, out} THEN None ELSE in + out

(* The parts of the memory snapshot that may be absent from it.            *)
MemoryDetails == {"swap_total_bytes", "swap_free_bytes", "swap_in", "swap_out",
                  "system_cpu", "iowait_cpu", "cpu_percent"}

(* _prometheus_snapshot_available(): some query was answered.              *)
SnapshotAvailable == \E name \in Observed : ReadingOf(name).status # "error"
=============================================================================
