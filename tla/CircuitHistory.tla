--------------------------- MODULE CircuitHistory ---------------------------
(***************************************************************************)
(* The circuit breaker with a history variable: how long ago it let a call *)
(* through to a dependency that had not answered since.  Neither the age   *)
(* of the opening nor the flag can tell, since both are reset by outcomes  *)
(* of other calls.                                                         *)
(***************************************************************************)
EXTENDS CircuitBreaker

VARIABLE since  \* ticks since the last probe was let through, counted up to
                \* the recovery timeout; a success ends the count

circuitVars == <<breakerVars, since>>

CircuitInit == BreakerInit /\ since = RecoveryTimeout

(* Steps that begin no probe and bring no success.                         *)
OtherStep ==
    \/ Snapshot \/ record_external_failure
    \/ \E c \in Calls : Admit(c) \/ Reject(c) \/ Fail(c) \/ CancelCall(c)

CircuitNext ==
    \/ Tick /\ since' = IF since < RecoveryTimeout THEN since + 1 ELSE since
    \/ (\E c \in Calls : Probe(c)) /\ since' = 0
    \/ (record_external_success \/ \E c \in Calls : Succeed(c))
       /\ since' = RecoveryTimeout
    \/ OtherStep /\ UNCHANGED since

CircuitSpec == CircuitInit /\ [][CircuitNext]_circuitVars /\ BreakerFairness

-----------------------------------------------------------------------------
(* Properties.                                                             *)

(* Between two probes that no success separates lies a whole recovery      *)
(* timeout, however many earlier calls fail meanwhile and lower the flag of*)
(* the first, and whoever looks at the circuit: a dependency that is down  *)
(* is asked once per timeout (acquire(), record_failure()).                *)
ProbesAreSpaced ==
    [][(\E c \in Calls : call[c] # "probe" /\ call'[c] = "probe")
          => since = RecoveryTimeout]_circuitVars
=============================================================================
