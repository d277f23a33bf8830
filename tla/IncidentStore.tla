---------------------------- MODULE IncidentStore ----------------------------
(***************************************************************************)
(* The durable incident rows (uyuni_ai_agent/incident_store.py).           *)
(*                                                                         *)
(* Every method is one SQLite transaction under a lock, hence one action.  *)
(* A row keeps what the decisions of the code read:                        *)
(*   - of the alert payload the severity, the one label that varies among  *)
(*     the alerts of an incident; mark_emitted() writes it together with   *)
(*     last_emitted_severity, so emitted stands for both columns;          *)
(*   - of last_emitted whether the cooldown still runs (cooling);          *)
(*   - consecutive_absent up to the threshold it is compared with;         *)
(*   - starts_at, which is only compared for equality, as a generation     *)
(*     counted modulo Generations.                                         *)
(***************************************************************************)
EXTENDS Naturals

CONSTANTS
    Fingerprints,
    Minions,
    MinionOf,       \* the minion of each fingerprint
    Severities,
    ResolveAfter,   \* resolve_after_healthy_cycles
    Generations,    \* distinct values of starts_at
    None

ASSUME StoreAssumption ==
    /\ MinionOf \in [Fingerprints -> Minions]
    /\ ResolveAfter \in Nat \ {0}
    /\ Generations \in Nat \ {0}
    /\ None \notin Severities

VARIABLES
    rows,       \* the incidents table: a row per fingerprint, or None
    changes     \* what reconcile() last returned for each minion

storeVars == <<rows, changes>>

IncidentsOf(m) == {f \in Fingerprints : MinionOf[f] = m}

(* A FiringIncident, and what one call of reconcile() returns: the firing  *)
(* incidents, and the payload each resolved row held when it was read.     *)
Work == [severity : Severities, starts_at : 0..(Generations - 1),
         previous : Severities \cup {None}]
Nothing == [f \in {} |-> None]
NoChanges == [firing |-> Nothing, resolved |-> Nothing]

Row == [status : {"active", "resolved"}, absent : 0..ResolveAfter,
        starts_at : 0..(Generations - 1), emitted : Severities \cup {None},
        cooling : BOOLEAN]

StoreInit ==
    /\ rows = [f \in Fingerprints |-> None]
    /\ changes = [m \in Minions |-> NoChanges]

-----------------------------------------------------------------------------
(* _SEVERITY_RANK; nothing delivered ranks below everything.               *)
Rank(severity) ==
    CASE severity = "critical" -> 3
      [] severity = "warning"  -> 2
      [] severity = "info"     -> 1
      [] OTHER                 -> 0

Active(f) == rows[f] # None /\ rows[f].status = "active"

(* Variant with a bug: the rows are not selected by minion.                *)
EveryActive(m) == {f \in Fingerprints : Active(f)}

ActiveOf(m) == {f \in IncidentsOf(m) : Active(f)}

(* INSERT ... ON CONFLICT DO UPDATE: a new incident forgets the last one.  *)
Opened(f) ==
    [status |-> "active", absent |-> 0,
     starts_at |-> IF rows[f] = None THEN 0
                   ELSE (rows[f].starts_at + 1) % Generations,
     emitted |-> None, cooling |-> FALSE]

(* Variant with a bug: a reappearing incident keeps its absences.          *)
StillAbsent(f) == IF Active(f) THEN rows[f] ELSE Opened(f)

Present(f) == IF Active(f) THEN [rows[f] EXCEPT !.absent = 0] ELSE Opened(f)

(* Variant with a bug: one absence too many is counted.                    *)
MissedPast(f) ==
    [rows[f] EXCEPT !.absent = IF @ <= ResolveAfter THEN @ + 1 ELSE @]

Missed(f) ==
    [rows[f] EXCEPT !.absent = IF @ < ResolveAfter THEN @ + 1 ELSE @]

(* A notification is due for a new incident, an escalation above what was  *)
(* last delivered, and again after the cooldown.                           *)
Escalated(f, severity) == Rank(severity) > Rank(rows[f].emitted)

(* Variants with a bug: an incident stays silent until a first delivery,   *)
(* or for ever after one.                                                  *)
DueOnceTold(f, severity) ==
    ~Active(f) \/ (rows[f].emitted # None /\ Escalated(f, severity))
DueOnlyOnChange(f, severity) == ~Active(f) \/ Escalated(f, severity)

Due(f, severity) ==
    ~Active(f) \/ Escalated(f, severity) \/ ~rows[f].cooling

Firing(f, severity) ==
    [severity |-> severity, starts_at |-> Present(f).starts_at,
     previous |-> Present(f).emitted]

(* seen maps the incidents a snapshot of minion m contains to severities.  *)
Reconcile(m, seen) ==
    LET gone == ActiveOf(m) \ DOMAIN seen
    IN  /\ rows' = [f \in Fingerprints |->
                       IF f \in DOMAIN seen THEN Present(f)
                       ELSE IF f \in gone THEN Missed(f) ELSE rows[f]]
        /\ changes' = [changes EXCEPT ![m] =
              [firing   |-> [f \in {g \in DOMAIN seen : Due(g, seen[g])} |->
                                Firing(f, seen[f])],
               resolved |-> [f \in {g \in gone : Missed(g).absent >= ResolveAfter}
                                |-> rows[f].emitted]]]

(* Variant with a bug: the generation of an acknowledgement is ignored.    *)
MarkAnyGeneration(f, severity, starts_at) ==
    rows' = IF Active(f)
            THEN [rows EXCEPT ![f].emitted = severity, ![f].cooling = TRUE]
            ELSE rows

MarkEmitted(f, severity, starts_at) ==
    rows' = IF Active(f) /\ rows[f].starts_at = starts_at
            THEN [rows EXCEPT ![f].emitted = severity, ![f].cooling = TRUE]
            ELSE rows

MarkResolved(f) ==
    rows' = IF Active(f) THEN [rows EXCEPT ![f].status = "resolved"] ELSE rows

is_actionable(f, starts_at) ==
    Active(f) /\ rows[f].starts_at = starts_at /\ rows[f].absent = 0

(* cooldown_seconds have passed since last_emitted.                        *)
CooldownElapses(f) ==
    /\ rows[f] # None /\ rows[f].cooling
    /\ rows' = [rows EXCEPT ![f].cooling = FALSE]

-----------------------------------------------------------------------------
(* The snapshots a minion may send.                                        *)
Snapshots(m) == UNION {[S -> Severities] : S \in SUBSET IncidentsOf(m)}

-----------------------------------------------------------------------------
(* Properties.                                                             *)

Changes(m) ==
    [firing : UNION {[S -> Work] : S \in SUBSET IncidentsOf(m)},
     resolved : UNION {[S -> Severities \cup {None}] : S \in SUBSET IncidentsOf(m)}]

StoreTypeOK ==
    /\ rows \in [Fingerprints -> Row \cup {None}]
    /\ \A m \in Minions : changes[m] \in Changes(m)

(* A cooldown runs only for what was delivered: an incident nobody was     *)
(* told about is due at every poll (mark_emitted(), reconcile()).          *)
CooldownNeedsDelivery ==
    \A f \in Fingerprints :
        rows[f] # None /\ rows[f].cooling => rows[f].emitted # None
=============================================================================
