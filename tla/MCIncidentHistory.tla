-------------------------- MODULE MCIncidentHistory --------------------------
(***************************************************************************)
(* An instance of the incident store for TLC: two minions, an incident on  *)
(* each.                                                                   *)
(***************************************************************************)
EXTENDS IncidentHistory

CONSTANTS f1, f2, m1, m2

MCFingerprints == {f1, f2}
MCMinions == {m1, m2}
MCMinionOf == [f \in MCFingerprints |-> IF f = f1 THEN m1 ELSE m2]
MCSeverities == {"warning", "critical"}
=============================================================================
