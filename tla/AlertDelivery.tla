---------------------------- MODULE AlertDelivery ----------------------------
(***************************************************************************)
(* The delivery of one alert (send_alert_payload() of uyuni_ai_agent/      *)
(* alert_manager.py under _send_observed_alert() of main.py): up to three  *)
(* POSTs to an Alertmanager that may take the alert and fail to say so,    *)
(* under one deadline.                                                     *)
(***************************************************************************)
EXTENDS Naturals

VARIABLES
    attempts,   \* POSTs so far
    held,       \* whether Alertmanager took the alert
    result      \* "none" while the delivery is under way

deliveryVars == <<attempts, held, result>>

MaxRetries == 3

DeliveryInit == attempts = 0 /\ held = FALSE /\ result = "none"

Posting == result = "none" /\ attempts' = attempts + 1

(* 200.                                                                    *)
Accepted == Posting /\ held' = TRUE /\ result' = "Success"

(* 4xx: the payload is wrong, and stays wrong.                             *)
Rejected == Posting /\ result' = "Error" /\ UNCHANGED held

(* Variant with a bug: the retries are counted from nought.                *)
OneTooMany ==
    /\ Posting
    /\ held' \in {held, TRUE}
    /\ result' = IF attempts < MaxRetries THEN "none" ELSE "Error"

(* Any other status, or no response: it may have been taken all the same.  *)
Unclear ==
    /\ Posting
    /\ held' \in {held, TRUE}
    /\ result' = IF attempts + 1 < MaxRetries THEN "none" ELSE "Error"

(* The deadline of execute() ends the retries in the middle of one.        *)
DeliveryDeadline ==
    /\ result = "none"
    /\ held' \in {held, TRUE} /\ result' = "Error" /\ UNCHANGED attempts

(* The circuit of Alertmanager is open.                                    *)
CircuitOpen == result = "none" /\ attempts = 0 /\ result' = "Error" /\ UNCHANGED <<attempts, held>>

Deliver == Accepted \/ Rejected \/ Unclear \/ DeliveryDeadline \/ CircuitOpen
=============================================================================
