------------------------------- MODULE Evidence -------------------------------
(***************************************************************************)
(* Evidence and grounding (uyuni_ai_agent/evidence.py): what a Salt method *)
(* hands over, the ledger of an investigation, and the gate a diagnosis    *)
(* has to pass to be confirmed.  The evidence ID of a record is its place  *)
(* in the ledger.                                                          *)
(***************************************************************************)
EXTENDS Naturals, Sequences, FiniteSets, FiniteSetsExt

CONSTANTS
    MaxEvidenceAge,     \* quality_gates.max_evidence_age_seconds, in ticks
    MinSupport          \* quality_gates.minimum_supporting_records

(* What a Salt call came to: a text, or one of these.                      *)
Silent == "no return"           \* False: the job did not return
Refused == "failed"             \* "Salt API call failed: ..."
Unanswered == {Silent, Refused}

(* run_command() takes a job that did not return for a failure, while      *)
(* disk_usage() makes a text of whatever it got: "False".                  *)
Handed(check, result) ==
    IF result = Silent /\ check # "disk_usage" THEN Refused ELSE result

evidence_status_for(text) ==
    CASE text = Refused -> "error"
      [] text = "" -> "missing"
      [] OTHER -> "ok"

(* ledger.add().                                                           *)
Record(check, subject, status, text, now) ==
    [check |-> check, subject |-> subject, status |-> status, text |-> text,
     observed_at |-> now]

SaltRecord(check, subject, result, now) ==
    Record(check, subject, evidence_status_for(Handed(check, result)), result, now)

-----------------------------------------------------------------------------
(* An analysis, as far as grounding looks at it: its conclusion, the IDs it *)
(* gives as support, those in its root cause, and those of each bullet.     *)

Analysis(conclusion, supporting, root_refs, bullets) ==
    [conclusion |-> conclusion, supporting |-> supporting, root_refs |-> root_refs,
     bullets |-> bullets]

(* A record of the future is not trusted either.                           *)
Stale(record, now) ==
    now < record.observed_at \/ now - record.observed_at > MaxEvidenceAge

(* Variant with a bug: only the age of a record is looked at.              *)
FreshOnly(ledger, supporting, allow_failed, now) ==
    \A i \in supporting : ~Stale(ledger[i], now)

Acceptable(ledger, supporting, allow_failed, now) ==
    \A i \in supporting :
        /\ allow_failed \/ ledger[i].status = "ok"
        /\ ~Stale(ledger[i], now)

Confirmed(analysis, ledger, allow_failed, now) ==
    LET supporting == analysis.supporting \cap DOMAIN ledger
        root_refs == analysis.root_refs \cap DOMAIN ledger
    IN  /\ analysis.conclusion = "confirmed"
        /\ root_refs # {} /\ root_refs \subseteq supporting
        /\ \E b \in analysis.bullets : b \cap supporting # {}
        /\ Acceptable(ledger, supporting, allow_failed, now)
        /\ Cardinality(supporting) >= Max({1, MinSupport})

Failed(ledger) == {i \in DOMAIN ledger : ledger[i].status # "ok"}

FirstThree(ids) == {i \in ids : Cardinality({j \in ids : j < i}) < 3}

(* What becomes of the citations of an analysis that is not confirmed.     *)
Fallback(ledger) ==
    FirstThree(IF Failed(ledger) # {} THEN Failed(ledger) ELSE DOMAIN ledger)

ground_analysis(analysis, ledger, allow_failed, now) ==
    IF Confirmed(analysis, ledger, allow_failed, now)
    THEN [conclusion |-> "confirmed",
          supporting |-> analysis.supporting \cap DOMAIN ledger]
    ELSE [conclusion |-> "inconclusive", supporting |-> Fallback(ledger)]
=============================================================================
