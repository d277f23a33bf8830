------------------------------ MODULE Detection ------------------------------
(***************************************************************************)
(* The anomalies of one minion (uyuni_ai_agent/anomaly_detector.py,        *)
(* detect_minion() of main.py): thresholds on what Prometheus showed, what *)
(* it failed to show, failed units and PostgreSQL lock waits.              *)
(*                                                                         *)
(* The context of an anomaly is a set of pairs: what the investigation     *)
(* needs to know of it.                                                    *)
(***************************************************************************)
EXTENDS Telemetry

CONSTANTS
    Thresholds,     \* of each metric: [warning, critical]
    Ignored         \* service_monitoring.ignored_units

VARIABLES
    services,       \* what the discovery of failed units came to
    locks           \* and that of lock waits

(* The discovery of failed units and lock waits reports what it found, or  *)
(* that Salt failed.  Output that is neither is read as nothing found.     *)
Output(found) == [kind |-> "output", found |-> found]
SaltFailure == [kind |-> "failure", found |-> {}]
Skipped == [kind |-> "skipped", found |-> {}]

Anomaly(metric, resource, severity, context) ==
    [metric |-> metric, resource |-> resource, severity |-> severity,
     context |-> context]

Severity(value, metric) ==
    IF value >= Thresholds[metric].critical THEN "critical" ELSE "warning"

(* _check_threshold(): what was not measured crosses no threshold.         *)
Crosses(value, metric) == value # None /\ value >= Thresholds[metric].warning

Check(value, metric, resource, context) ==
    IF Crosses(value, metric)
    THEN {Anomaly(metric, resource, Severity(value, metric), context)} ELSE {}

-----------------------------------------------------------------------------
(* telemetry_anomalies(): a blind spot is an anomaly of its exporter.      *)

Exporters == {"node_exporter"}
             \cup (IF "apache" \in Roles THEN {"apache_exporter"} ELSE {})
             \cup (IF "postgres" \in Roles THEN {"postgres_exporter"} ELSE {})

UpOf == [node_exporter |-> "node_exporter_up", apache_exporter |-> "apache_exporter_up",
         postgres_exporter |-> "postgres_exporter_up"]

REQUIRED_TELEMETRY ==
    [node_exporter |-> {"memory_available_bytes", "memory_total_bytes", "cpu_percent",
                        "filesystems"},
     apache_exporter |-> {"apache_busy_workers_percent", "apache_requests_per_sec"},
     postgres_exporter |-> {"postgres_active_connections_percent",
                            "postgres_deadlocks_per_min"}]

(* Variant with a bug: an exporter that is up is not looked at.            *)
OnlyUp(exporter) ==
    LET up == ReadingOf(UpOf[exporter])
    IN  IF up.status # "ok" THEN {<<UpOf[exporter], up.status>>}
        ELSE IF up.value # 1 THEN {<<UpOf[exporter], "error">>} ELSE {}

BlindSpots(exporter) ==
    LET up == ReadingOf(UpOf[exporter])
    IN  IF up.status # "ok" THEN {<<UpOf[exporter], up.status>>}
        ELSE IF up.value # 1 THEN {<<UpOf[exporter], "error">>}
        ELSE {<<name, ReadingOf(name).status>> :
                  name \in {n \in REQUIRED_TELEMETRY[exporter] : ReadingOf(n).status # "ok"}}

Unavailable(source, observations) ==
    Anomaly("telemetry_unavailable", source, "warning", observations)

telemetry_anomalies ==
    {Unavailable(e, BlindSpots(e)) : e \in {x \in Exporters : BlindSpots(x) # {}}}

-----------------------------------------------------------------------------
(* check_all_metrics().                                                    *)

OrZero(value) == IF value = None THEN 0 ELSE value

active_swapping == OrZero(swap_activity) >= Thresholds.swap_activity.warning

(* memory_pressure_anomaly(): swap that was not measured is no activity.   *)
memory_pressure_anomaly ==
    LET usage == memory_usage_percent
        is_critical ==
            \/ usage >= Thresholds.memory_pressure.critical
            \/ /\ active_swapping
               /\ \/ OrZero(swap_activity) >= Thresholds.swap_activity.critical
                  \/ OrZero(swap_usage_percent) >= Thresholds.swap_usage.critical
        blank == {d \in MemoryDetails : ValueOf(d) = None}
    IN  IF ~Crosses(usage, "memory_pressure") THEN {}
        ELSE {Anomaly("memory_pressure", "host-memory",
                      IF is_critical THEN "critical" ELSE "warning",
                      (IF active_swapping THEN {<<"active_swapping", "yes">>} ELSE {})
                          \cup {<<"blank", d>> : d \in blank})}

(* Variant with a bug: any memory pressure explains a busy CPU.            *)
HiddenByMemory ==
    IF memory_pressure_anomaly # {} THEN {}
    ELSE Check(ValueOf("cpu_percent"), "cpu", "host-cpu", {})

(* A busy CPU is a secondary effect of a host that is swapping.            *)
cpu_anomaly ==
    IF memory_pressure_anomaly # {} /\ active_swapping THEN {}
    ELSE Check(ValueOf("cpu_percent"), "cpu", "host-cpu", {})

(* related_unhealthy_services of a disk anomaly are the units found failed. *)
FailedUnits == services.found \ Ignored

filesystem_anomalies ==
    LET usage == ValueOf("filesystems")
    IN  IF usage = None THEN {}
        ELSE UNION {Check(usage[m], "disk", m, {<<"related", u>> : u \in FailedUnits}) :
                        m \in DOMAIN usage}

apache_anomalies ==
    IF "apache" \notin Roles THEN {}
    ELSE Check(ValueOf("apache_busy_workers_percent"), "apache_busy_workers",
               "apache:workers", {})
         \cup Check(ValueOf("apache_requests_per_sec"), "apache_requests",
                    "apache:traffic", {})

postgres_anomalies ==
    IF "postgres" \notin Roles THEN {}
    ELSE Check(ValueOf("postgres_active_connections_percent"), "postgres_connections",
               "postgresql:cluster", {})
         \cup Check(ValueOf("postgres_deadlocks_per_min"), "postgres_deadlocks", None, {})

-----------------------------------------------------------------------------
(* check_failed_services(), postgres_blocking_anomalies().                 *)

SaltUnavailable(check) == Unavailable("salt_inspection", {<<check, "error">>})

service_anomalies ==
    CASE services.kind = "skipped" -> {SaltUnavailable("salt_api_login")}
      [] services.kind = "failure" -> {SaltUnavailable("systemd_service_discovery")}
      [] OTHER -> {Anomaly("service_down", u, "critical", {}) : u \in FailedUnits}

(* A lock wait is <<database, seconds>>; an anomaly is of a database, and   *)
(* as severe as its longest wait.                                          *)
postgres_lock_anomalies ==
    LET waits == {w \in locks.found : Crosses(w[2], "postgres_blocked_transaction")}
        longest(db) == Max({w[2] : w \in {v \in waits : v[1] = db}})
    IN  IF locks.kind = "failure" THEN {SaltUnavailable("postgres_lock_discovery")}
        ELSE UNION {Check(longest(db), "postgres_blocked_transaction", db, {}) :
                        db \in {w[1] : w \in waits}}

detected_anomalies ==
    telemetry_anomalies \cup memory_pressure_anomaly \cup cpu_anomaly
        \cup filesystem_anomalies \cup apache_anomalies \cup postgres_anomalies
        \cup service_anomalies \cup postgres_lock_anomalies

SnapshotComplete ==
    /\ services.kind = "output" /\ locks.kind # "failure"
    /\ SnapshotAvailable
=============================================================================
