--------------------------- MODULE IncidentHistory ---------------------------
(***************************************************************************)
(* The incident store together with what really happened to each incident: *)
(* two history variables follow the calls, not the rows, and say what the  *)
(* columns of a row are meant to remember.                                 *)
(***************************************************************************)
EXTENDS IncidentStore

VARIABLES
    missed, \* consecutive snapshots of its minion that lacked the incident
    told    \* what was acknowledged since the incident opened, or None

historyVars == <<storeVars, missed, told>>

HistoryInit ==
    /\ StoreInit
    /\ missed = [f \in Fingerprints |-> 0]
    /\ told = [f \in Fingerprints |-> None]

Observe(m, seen) ==
    /\ Reconcile(m, seen)
    /\ missed' = [f \in Fingerprints |->
                     IF f \in DOMAIN seen THEN 0
                     ELSE IF MinionOf[f] = m /\ missed[f] < ResolveAfter
                          THEN missed[f] + 1 ELSE missed[f]]
    /\ told' = [f \in Fingerprints |->
                   IF f \in DOMAIN seen /\ ~Active(f) THEN None ELSE told[f]]

(* An acknowledgement of the open incident, or a late one that is ignored. *)
Acknowledge(f, work) ==
    /\ MarkEmitted(f, work.severity, work.starts_at)
    /\ told' = IF Active(f) /\ work.starts_at = rows[f].starts_at
               THEN [told EXCEPT ![f] = work.severity] ELSE told
    /\ UNCHANGED <<changes, missed>>

Close(f) == MarkResolved(f) /\ UNCHANGED <<changes, missed, told>>

Cool(f) == CooldownElapses(f) /\ UNCHANGED <<changes, missed, told>>

HistoryNext ==
    \/ \E m \in Minions : \E seen \in Snapshots(m) : Observe(m, seen)
    \/ \E f \in Fingerprints :
          (\E work \in Work : Acknowledge(f, work)) \/ Close(f) \/ Cool(f)

HistorySpec == HistoryInit /\ [][HistoryNext]_historyVars

-----------------------------------------------------------------------------
(* Properties.                                                             *)

(* Nothing is offered for resolution that was not missing from the last    *)
(* resolve_after_healthy_cycles snapshots of its own minion, whatever was  *)
(* emitted, resolved or reopened between them (reconcile()).               *)
ResolutionIsEarned ==
    \A m \in Minions : \A f \in DOMAIN changes[m].resolved :
        MinionOf[f] = m /\ missed[f] >= ResolveAfter

(* An open incident that is in the last snapshot and nobody was told about *)
(* is in the work of that snapshot: a failed investigation or delivery is  *)
(* retried at the next poll instead of hidden for the cooldown.            *)
UntoldIncidentsAreDue ==
    \A f \in Fingerprints :
        Active(f) /\ missed[f] = 0 /\ told[f] = None
        => f \in DOMAIN changes[MinionOf[f]].firing

(* The payload an active row keeps for its resolution is the one delivered *)
(* last for this very incident, never one of an earlier generation.        *)
RowRemembersDelivery ==
    \A f \in Fingerprints : Active(f) => rows[f].emitted = told[f]
=============================================================================
