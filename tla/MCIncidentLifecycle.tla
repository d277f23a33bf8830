------------------------- MODULE MCIncidentLifecycle -------------------------
(***************************************************************************)
(* Instances of the incident lifecycle for TLC.                            *)
(***************************************************************************)
EXTENDS IncidentDelivery

CONSTANTS f1, f2, m1, w1

MCOne == {f1}
MCTwo == {f1, f2}
MCOneMinion == {m1}
MCOneWorker == {w1}
MCNone == {}
MCSameMinion == [f \in Fingerprints |-> m1]
MCSeverities == {"warning", "critical"}
MCWarning == {"warning"}
=============================================================================
