----------------------------- MODULE MCDiagnosis -----------------------------
(***************************************************************************)
(* An instance of the path from measurement to alert for TLC: a host with  *)
(* Apache, PostgreSQL and two units.  Percentages are exact: 100 bytes of  *)
(* memory.                                                                 *)
(***************************************************************************)
EXTENDS Diagnosis

CONSTANTS web, job, backup, root, data, db

MCRoles == {"apache", "postgres"}
Limits(w, c) == [warning |-> w, critical |-> c]
MCThresholds ==
    [memory_pressure |-> Limits(80, 95), cpu |-> Limits(80, 95), disk |-> Limits(80, 95),
     apache_busy_workers |-> Limits(80, 95), apache_requests |-> Limits(50, 100),
     postgres_connections |-> Limits(80, 95), postgres_deadlocks |-> Limits(1, 5),
     postgres_blocked_transaction |-> Limits(5, 30),
     swap_activity |-> Limits(1, 100), swap_usage |-> Limits(20, 25)]
MCUnits == {web, job, backup}
MCIgnored == {backup}
MCWaits == {<<db, 1>>, <<db, 40>>}
MCReferencing == {job}
MCEdges == {[kind |-> "ssh", service |-> web, known |-> TRUE],
            [kind |-> "nfs", service |-> job, known |-> FALSE],
            [kind |-> "tls", service |-> web, known |-> TRUE]}

MCUsual ==
    [node_exporter_up |-> 1, filesystems |-> [m \in {root, data} |-> 50],
     memory_available_bytes |-> 50, memory_total_bytes |-> 100, swap_total_bytes |-> 100,
     swap_free_bytes |-> 100, swap_in |-> 0, swap_out |-> 0, system_cpu |-> 10,
     iowait_cpu |-> 0, cpu_percent |-> 20,
     apache_exporter_up |-> 1, busy |-> 1, idle |-> 9, apache_requests_per_sec |-> 10,
     postgres_exporter_up |-> 1, backends |-> 10, max_connections |-> 100,
     postgres_deadlocks_per_min |-> 0]
MCUnusual ==
    [node_exporter_up |-> {0}, filesystems |-> {[m \in {root, data} |-> IF m = root THEN 150 ELSE 96],
                                                [m \in {root, data} |-> 150]},
     memory_available_bytes |-> {3, 15}, memory_total_bytes |-> {0}, swap_total_bytes |-> {0},
     swap_free_bytes |-> {10}, swap_in |-> {1}, swap_out |-> {1, 200}, system_cpu |-> {},
     iowait_cpu |-> {}, cpu_percent |-> {85, 99},
     apache_exporter_up |-> {0}, busy |-> {91}, idle |-> {0}, apache_requests_per_sec |-> {60},
     postgres_exporter_up |-> {0}, backends |-> {90}, max_connections |-> {0},
     postgres_deadlocks_per_min |-> {2}]

Scene(series, most, salt, rules) ==
    [series |-> series, most |-> most, salt |-> salt, rules |-> rules]
MCScenes ==
    {Scene({"memory_available_bytes", "memory_total_bytes", "swap_total_bytes",
            "swap_free_bytes", "swap_in", "swap_out", "cpu_percent"}, 3, FALSE, TRUE),
     Scene({"node_exporter_up", "filesystems", "system_cpu", "iowait_cpu"}, 1, TRUE, TRUE),
     Scene(ToSet(ApacheSeries) \cup ToSet(PostgresSeries), 2, FALSE, TRUE),
     Scene({}, 0, TRUE, TRUE),
     Scene({"memory_available_bytes", "filesystems", "swap_in"}, 2, FALSE, FALSE)}

MCTexts ==
    [disk_usage |-> {"usage"}, largest_files |-> {"largest file", "nothing"},
     service_references |-> {"names units", "nothing"},
     service_details |-> {"restarts and writes the largest file", "configured port"},
     service_logs |-> {"address already in use", "host key changed"},
     listening_tcp_ports |-> {"listener on the port"},
     memory_pressure_snapshot |-> {"top process", "unreadable"},
     cpu_pressure_snapshot |-> {"snapshot"}, apache_overload_snapshot |-> {"snapshot"},
     apache_dependency_snapshot |-> {"snapshot"}, postgres_connection_activity |-> {"snapshot"},
     postgres_health |-> {"available"},
     postgres_blocking_activity |-> {"the blocker is idle", "nothing"}]
    @@ [c \in {InspectionOf[k] : k \in DOMAIN InspectionOf} |-> {"mismatch", "healthy"}]
=============================================================================
