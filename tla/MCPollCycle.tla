----------------------------- MODULE MCPollCycle -----------------------------
(***************************************************************************)
(* An instance of the polling loop for TLC: a web server and the database  *)
(* server it depends on, with a symptom of each.                           *)
(***************************************************************************)
EXTENDS PollCycle

CONSTANTS web, db

MCMinions == {web, db}
Saturated == [minion |-> web, metric |-> "apache_busy_workers",
              resource |-> "apache:workers", candidate |-> TRUE, severity |-> "warning"]
Locked == [minion |-> db, metric |-> "postgres_blocked_transaction",
           resource |-> "database", candidate |-> TRUE, severity |-> "critical"]
MCOrder == <<Saturated, Locked>>
Edge == {<<db, web>>}
Scene(what, edges, faults, most) ==
    [unsettled |-> what, edges |-> edges, faults |-> faults, most |-> most]
Everything == {"uyuni", "expire", "prometheus", "salt", "deadline", "slow", "crash",
               "stop"}
MCScenarios == {Scene("symptoms", {}, {"prometheus", "deadline"}, 1),
                Scene("symptoms", Edge, {"slow", "deadline"}, 1),
                Scene("systems", {}, {"uyuni", "expire", "crash", "stop"}, 1),
                Scene("nothing", {}, Everything, 1),
                Scene("nothing", Edge, Everything, 2)}
OneScenario == {Scene("symptoms", Edge, {}, 0)}
MCSeverities == {"warning", "critical"}
Nobody == {}
OnlyLocked == {Locked}
=============================================================================
