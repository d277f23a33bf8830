-------------------------- MODULE IncidentDelivery --------------------------
(***************************************************************************)
(* The incident lifecycle with a history variable: the incidents of which  *)
(* a delivery was acknowledged while the poll task of their minion, having *)
(* read the row before, still waited with a decision about them.  Such a   *)
(* decision is stale, and the code does not look again (main.py:538, 590). *)
(* What is delivered and remembered of every other incident does not       *)
(* depend on how many share its minion.                                    *)
(***************************************************************************)
EXTENDS IncidentLifecycle

VARIABLE overtaken

deliveryVars == <<vars, overtaken>>

Decided(f) ==
    LET decided == changes[MinionOf[f]]
    IN  f \in DOMAIN decided.firing \cup DOMAIN decided.resolved

Acknowledged(f) ==
    \E w \in Workers :
        Serving(w, "sent") /\ job[w].fingerprint = f /\ AlertReturns(w)

DeliveryInit == Init /\ overtaken = {}

DeliveryNext ==
    /\ Next
    /\ overtaken' = overtaken \cup {f \in Fingerprints : Decided(f) /\ Acknowledged(f)}

DeliverySpec == DeliveryInit /\ [][DeliveryNext]_deliveryVars /\ Fairness

-----------------------------------------------------------------------------
(* Properties.                                                             *)

(* Requests given up, or applied and not yet acknowledged, may be firing.  *)
Sent(f) == {job[w].payload.severity :
               w \in {v \in Workers : stage[v] = "sent" /\ job[v].fingerprint = f}}
Astray(f) == {r.severity : r \in {q \in stray : q.firing /\ q.incident = f}}

(* Alertmanager fires an incident at most with the labels its open row     *)
(* remembers, or with those of a delivery not acknowledged (yet): the      *)
(* payload in the row suffices to resolve it, through relabelling, aborts, *)
(* deadlines and crashes, and whatever other incidents of the minion are   *)
(* being resolved (_process_firing_investigation(),                        *)
(* process_minion_anomalies()).                                            *)
AlertsAreRemembered ==
    \A f \in Fingerprints \ overtaken :
        alerts[f] \subseteq
            Sent(f) \cup Astray(f) \cup (IF Store!Active(f) THEN {rows[f].emitted} ELSE {})

(* While the cooldown runs an incident is delivered again only when it is  *)
(* more severe than what was delivered, however long its investigation     *)
(* waited in the queue or in a worker (reconcile(), enqueue()).            *)
CooldownIsRespected ==
    [][\A w \in Workers :
          /\ stage[w] = "sending" /\ stage'[w] = "sent"
          /\ job[w].fingerprint \notin overtaken
          => LET row == rows[job[w].fingerprint]
             IN  row.cooling =>
                 Store!Rank(job[w].payload.severity) > Store!Rank(row.emitted)]_deliveryVars
=============================================================================
