------------------------ MODULE MCInvestigationQueue ------------------------
(***************************************************************************)
(* An instance of the investigation queue for TLC.                         *)
(***************************************************************************)
EXTENDS InvestigationQueue

CONSTANTS f1, f2, f3, f4, w1, w2, p1

MCWorkers == {w1, w2}
MCFingerprints == {f1, f2, f3, f4}
MCSeverities == {"critical", "warning", "info"}
MCPayloads == {p1}
=============================================================================
