------------------------ MODULE DeterministicAnalysis ------------------------
(***************************************************************************)
(* The diagnoses that need no language model (uyuni_ai_agent/              *)
(* deterministic_analysis.py): patterns of evidence that prove a cause.    *)
(* The text of a record stands for what the pattern matching finds in it.  *)
(***************************************************************************)
EXTENDS Evidence

(* _records(): the records of a check that are ok.                         *)
Records(ledger, check) ==
    {i \in DOMAIN ledger : ledger[i].check = check /\ ledger[i].status = "ok"}

First(ids) == {i \in ids : \A j \in ids : i <= j}

(* The first record of the check, if its text is one of these.             *)
Shows(ledger, check, texts) ==
    {i \in First(Records(ledger, check)) : ledger[i].text \in texts}

(* An analyzer cites one record of each part of its pattern, and finds     *)
(* nothing if a part is missing.                                           *)
AllOf(parts) == IF {} \in parts THEN {} ELSE UNION parts

service_port_conflict(ledger) ==
    AllOf({Shows(ledger, "service_details", {"configured port"}),
           Shows(ledger, "service_logs", {"address already in use"}),
           Shows(ledger, "listening_tcp_ports", {"listener on the port"})})

ssh_host_key_mismatch(ledger) ==
    AllOf({Shows(ledger, "service_logs", {"host key changed"}),
           Shows(ledger, "dependency_inspection:ssh", {"mismatch"})})

(* The pattern may be found in the logs or in the snapshot, but it takes   *)
(* the snapshot to show both the name and the verification error.          *)
tls_identity_mismatch(ledger) ==
    AllOf({First(Records(ledger, "service_logs")),
           Shows(ledger, "dependency_inspection:tls", {"mismatch"})})

nfs_identity_drift(ledger) ==
    AllOf({Shows(ledger, "service_logs", {"permission denied"}),
           Shows(ledger, "dependency_inspection:nfs", {"mismatch"})})

(* The first candidate that restarts and mentions the largest file; its    *)
(* journal is cited when there is one.                                     *)
disk_crash_loop(ledger) ==
    LET looping == {i \in Records(ledger, "service_details") :
                        ledger[i].text = "restarts and writes the largest file"}
        found == AllOf({First(Records(ledger, "disk_usage")),
                        Shows(ledger, "largest_files", {"largest file"}),
                        First(looping)})
        journals == {i \in Records(ledger, "service_logs") :
                        \E j \in First(looping) : ledger[i].subject = ledger[j].subject}
    IN  IF found = {} THEN {} ELSE found \cup First(journals)

postgres_blocked_transaction(ledger) ==
    AllOf({Shows(ledger, "postgres_health", {"available"}),
           Shows(ledger, "postgres_blocking_activity", {"the blocker is idle"})})

memory_pressure(anomaly, ledger) ==
    IF <<"active_swapping", "yes">> \notin anomaly.context THEN {}
    ELSE AllOf({Shows(ledger, "memory_pressure_snapshot", {"top process"}),
                First(Records(ledger, "memory_pressure"))})

(* The analyzers of a failed unit are tried in their order.                *)
FirstFound(cited) ==
    IF \A k \in DOMAIN cited : cited[k] = {} THEN {}
    ELSE cited[Min({k \in DOMAIN cited : cited[k] # {}})]

try_deterministic_analysis(anomaly, ledger) ==
    CASE anomaly.metric = "service_down" ->
            FirstFound(<<ssh_host_key_mismatch(ledger), tls_identity_mismatch(ledger),
                         nfs_identity_drift(ledger), service_port_conflict(ledger)>>)
      [] anomaly.metric = "disk" -> disk_crash_loop(ledger)
      [] anomaly.metric = "postgres_blocked_transaction" ->
            postgres_blocked_transaction(ledger)
      [] anomaly.metric = "memory_pressure" -> memory_pressure(anomaly, ledger)
      [] OTHER -> {}

(* Every record it cites is its support; the bullets cite one each.  The   *)
(* root cause cites some of them.                                          *)
ProvenAnalysis(cited) == Analysis("confirmed", cited, cited, {{i} : i \in cited})
=============================================================================
