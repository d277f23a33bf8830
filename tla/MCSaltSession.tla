--------------------------- MODULE MCSaltSession ---------------------------
(***************************************************************************)
(* Instances of the Salt session for TLC.                                  *)
(***************************************************************************)
EXTENDS SaltSession

CONSTANTS s1, s2, maintainer

MCTwoCallers == {s1, s2}
=============================================================================
