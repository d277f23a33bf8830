------------------------ MODULE CircuitBreakerProofs ------------------------
(***************************************************************************)
(* Theorems about the circuit breaker, for any number of callers and any   *)
(* threshold and recovery timeout.                                         *)
(***************************************************************************)
EXTENDS CircuitHistory, TLAPS

Inv == BreakerTypeOK /\ FailuresDecideState

(* An outcome, of whichever call and however late, leaves state and count  *)
(* in agreement, because both are decided from the same new count.         *)
LEMMA SuccessProps ==
    ASSUME record_success
    PROVE  /\ state' = "CLOSED" /\ failures' = 0 /\ openedAgo' = 0
           /\ probing' = FALSE
BY DEF record_success

LEMMA FailureProps ==
    ASSUME Inv, record_failure
    PROVE  /\ state' \in {"CLOSED", "OPEN"}
           /\ failures' \in 0..FailureThreshold
           /\ openedAgo' \in 0..RecoveryTimeout
           /\ probing' = FALSE
           /\ state' = "CLOSED" <=> failures' < FailureThreshold
<1> DEFINE count == IF failures < FailureThreshold THEN failures + 1 ELSE failures
           opens == state = "HALF_OPEN" \/ count >= FailureThreshold
<1>1. /\ failures' = count /\ probing' = FALSE
      /\ state' = IF opens THEN "OPEN" ELSE state
      /\ openedAgo' = IF opens THEN 0 ELSE openedAgo
  BY DEF record_failure
<1>2. /\ state \in {"CLOSED", "OPEN", "HALF_OPEN"}
      /\ failures \in 0..FailureThreshold /\ openedAgo \in 0..RecoveryTimeout
      /\ state = "CLOSED" <=> failures < FailureThreshold
      /\ FailureThreshold \in Nat \ {0} /\ RecoveryTimeout \in Nat \ {0}
  BY BreakerAssumption DEF Inv, BreakerTypeOK, FailuresDecideState
<1>3. /\ count \in 0..FailureThreshold
      /\ ~opens => state = "CLOSED" /\ count < FailureThreshold
      /\ opens => count = FailureThreshold
  BY <1>2
<1> HIDE DEF count, opens
<1> QED BY <1>1, <1>2, <1>3

(* A reader that finds the recovery timeout over opens the circuit halfway *)
(* and lowers the flag of an earlier probe.                                *)
LEMMA SnapshotKeepsInv == ASSUME Inv, Snapshot PROVE Inv'
<1>1. /\ state' = (IF RecoveryDue THEN "HALF_OPEN" ELSE state)
      /\ UNCHANGED <<failures, openedAgo, call>>
  BY DEF Snapshot, effective_state
<1>2. probing' \in BOOLEAN /\ (probing' => probing /\ ~RecoveryDue)
  BY DEF Snapshot, effective_probe, Inv, BreakerTypeOK
<1> QED BY <1>1, <1>2 DEF Inv, BreakerTypeOK, FailuresDecideState, RecoveryDue

LEMMA OutcomeKeepsInv ==
    ASSUME Inv, record_success \/ record_failure,
           call' \in [Calls -> {"idle", "admitted", "probe"}]
    PROVE  Inv'
<1>1. CASE record_success
  BY <1>1, SuccessProps, BreakerAssumption
     DEF Inv, BreakerTypeOK, FailuresDecideState
<1>2. CASE record_failure
  BY <1>2, FailureProps DEF Inv, BreakerTypeOK, FailuresDecideState
<1> QED BY <1>1, <1>2

LEMMA AcquireKeepsInv == ASSUME Inv, NEW c \in Calls, Acquire(c) PROVE Inv'
<1>1. CASE Admit(c)
  BY <1>1 DEF Admit, Inv, BreakerTypeOK, FailuresDecideState
<1>2. CASE Probe(c)
  <2>1. state \in {"OPEN", "HALF_OPEN"} /\ state' = "HALF_OPEN" /\ probing' = TRUE
    BY <1>2 DEF Probe, effective_state, RecoveryDue
  <2>2. call' \in [Calls -> {"idle", "admitted", "probe"}]
    BY <1>2 DEF Probe, Inv, BreakerTypeOK
  <2> QED BY <1>2, <2>1, <2>2 DEF Probe, Inv, BreakerTypeOK, FailuresDecideState
<1>3. CASE Reject(c)
  BY <1>3, SnapshotKeepsInv DEF Reject
<1> QED BY <1>1, <1>2, <1>3 DEF Acquire

-----------------------------------------------------------------------------
LEMMA InitInv == BreakerInit => Inv
<1> SUFFICES ASSUME BreakerInit PROVE Inv
  OBVIOUS
<1>1. FailureThreshold \in Nat \ {0} /\ RecoveryTimeout \in Nat \ {0}
  BY BreakerAssumption DEF BreakerAssumption
<1>2. BreakerTypeOK
  <2>1. failures \in 0..FailureThreshold /\ openedAgo \in 0..RecoveryTimeout
    BY <1>1 DEF BreakerInit
  <2>2. call \in [Calls -> {"idle", "admitted", "probe"}]
    BY DEF BreakerInit
  <2> QED BY <2>1, <2>2 DEF BreakerInit, BreakerTypeOK
<1>3. FailuresDecideState
  BY <1>1 DEF BreakerInit, FailuresDecideState
<1> QED BY <1>2, <1>3 DEF Inv

LEMMA NextKeepsInv == Inv /\ [BreakerNext]_breakerVars => Inv'
<1> SUFFICES ASSUME Inv, [BreakerNext]_breakerVars PROVE Inv'
  OBVIOUS
<1>1. CASE Snapshot
  BY <1>1, SnapshotKeepsInv
<1>2. CASE Tick
  BY <1>2, BreakerAssumption DEF Tick, Inv, BreakerTypeOK, FailuresDecideState
<1>3. CASE record_external_success \/ record_external_failure
  BY <1>3, OutcomeKeepsInv
     DEF record_external_success, record_external_failure, Inv, BreakerTypeOK
<1>4. ASSUME NEW c \in Calls, Acquire(c) PROVE Inv'
  BY <1>4, AcquireKeepsInv
<1>5. ASSUME NEW c \in Calls, Succeed(c) \/ Fail(c) PROVE Inv'
  <2>1. call' \in [Calls -> {"idle", "admitted", "probe"}]
    BY <1>5 DEF Succeed, Fail, Return, Inv, BreakerTypeOK
  <2> QED BY <1>5, <2>1, OutcomeKeepsInv DEF Succeed, Fail
<1>6. ASSUME NEW c \in Calls, CancelCall(c) PROVE Inv'
  BY <1>6 DEF CancelCall, Return, Inv, BreakerTypeOK, FailuresDecideState
<1>7. CASE UNCHANGED breakerVars
  BY <1>7 DEF breakerVars, Inv, BreakerTypeOK, FailuresDecideState
<1> QED BY <1>1, <1>2, <1>3, <1>4, <1>5, <1>6, <1>7 DEF BreakerNext

LEMMA InvIsInvariant == BreakerSpec => []Inv
BY InitInv, NextKeepsInv, PTL DEF BreakerSpec

-----------------------------------------------------------------------------
(* Every variable keeps its type; in particular the age of the opening and *)
(* the count never leave the range in which they are compared.             *)
THEOREM BreakerTypeCorrect == BreakerSpec => []BreakerTypeOK
<1>1. Inv => BreakerTypeOK
  BY DEF Inv
<1> QED BY <1>1, InvIsInvariant, PTL

(* The circuit is closed exactly while the count is below the threshold,   *)
(* whatever calls of whichever earlier state report, are cancelled or are  *)
(* reported from outside (record_success(), record_failure()).             *)
THEOREM StateFollowsFailures == BreakerSpec => []FailuresDecideState
<1>1. Inv => FailuresDecideState
  BY DEF Inv
<1> QED BY <1>1, InvIsInvariant, PTL

(* The flag is left without its probe by the cancellation of that probe    *)
(* alone, whichever callers run under a deadline, whatever outcome arrives *)
(* meanwhile, and whoever reads the circuit (acquire(), execute()).        *)
THEOREM FlagIsHonest == BreakerSpec => OnlyCancellationLosesProbe
<1> DEFINE Kept == ProbeLost' => ProbeLost \/ \E c \in Probes : CancelCall(c)
<1>1. ASSUME Inv, BreakerNext PROVE Kept
  <2>1. ASSUME probing' = FALSE PROVE Kept
    BY <2>1 DEF ProbeLost
  <2>2. ASSUME probing' => probing, call' = call PROVE Kept
    BY <2>2 DEF ProbeLost, Probes
  <2>3. CASE Snapshot \/ \E c \in Calls : Reject(c)
    <3>1. Snapshot
      BY <2>3 DEF Reject
    <3> QED BY <3>1, <2>2 DEF Snapshot, effective_probe
  <2>4. CASE Tick
    BY <2>4, <2>2 DEF Tick
  <2>5. CASE record_external_success \/ record_external_failure
    BY <2>5, <2>1, FailureProps, <1>1
       DEF record_external_success, record_external_failure, record_success
  <2>6. ASSUME NEW c \in Calls, Succeed(c) \/ Fail(c) PROVE Kept
    BY <2>6, <2>1, FailureProps, <1>1 DEF Succeed, Fail, record_success
  <2>7. ASSUME NEW c \in Calls, Admit(c) PROVE Kept
    BY <2>7, <1>1 DEF Admit, ProbeLost, Probes, Inv, BreakerTypeOK
  <2>8. ASSUME NEW c \in Calls, Probe(c) PROVE Kept
    <3>1. c \in Probes'
      BY <2>8, <1>1 DEF Probe, Probes, Inv, BreakerTypeOK
    <3> QED BY <3>1 DEF ProbeLost
  <2>9. ASSUME NEW c \in Calls, CancelCall(c) PROVE Kept
    <3>1. CASE c \in Probes
      BY <3>1, <2>9
    <3>2. CASE c \notin Probes
      <4>1. Probes' = Probes
        BY <3>2, <2>9, <1>1 DEF CancelCall, Return, Probes, Inv, BreakerTypeOK
      <4> QED BY <4>1, <2>9 DEF CancelCall, ProbeLost
    <3> QED BY <3>1, <3>2
  <2> QED BY <1>1, <2>3, <2>4, <2>5, <2>6, <2>7, <2>8, <2>9 DEF BreakerNext, Acquire
<1>2. Inv /\ [BreakerNext]_breakerVars => [Kept]_breakerVars
  BY <1>1
<1> QED BY <1>2, InvIsInvariant, PTL DEF BreakerSpec, OnlyCancellationLosesProbe

-----------------------------------------------------------------------------
(* The spacing of the probes.  The age of the opening never runs ahead of  *)
(* the time since the last probe, and the flag is down only if that is long*)
(* ago.                                                                    *)

Spaced ==
    /\ since \in 0..RecoveryTimeout
    /\ state = "OPEN" => openedAgo <= since
    /\ state = "HALF_OPEN" /\ ~probing => since = RecoveryTimeout

CInv == Inv /\ Spaced

LEMMA CircuitStepIsBreakerStep ==
    [CircuitNext]_circuitVars => [BreakerNext]_breakerVars
BY DEF CircuitNext, OtherStep, BreakerNext, Acquire, circuitVars

(* A reader that finds the timeout over finds the last probe as old.       *)
LEMMA SnapshotKeepsSpaced ==
    ASSUME CInv, Snapshot, UNCHANGED since PROVE Spaced'
<1>1. openedAgo \in 0..RecoveryTimeout /\ RecoveryTimeout \in Nat
  BY BreakerAssumption DEF CInv, Inv, BreakerTypeOK
<1>2. CASE RecoveryDue
  <2>1. since = RecoveryTimeout
    BY <1>1, <1>2 DEF RecoveryDue, CInv, Spaced
  <2> QED BY <2>1, <1>1, <1>2 DEF Snapshot, effective_state, RecoveryDue, CInv, Spaced
<1>3. CASE ~RecoveryDue
  BY <1>3 DEF Snapshot, effective_state, effective_probe, CInv, Spaced
<1> QED BY <1>2, <1>3

(* A failure opens the circuit anew or leaves it closed; the flag of a     *)
(* probe it lowers is of no use before the timeout is over again.          *)
LEMMA FailureKeepsSpaced ==
    ASSUME CInv, record_failure, UNCHANGED since PROVE Spaced'
<1>1. /\ openedAgo \in 0..RecoveryTimeout /\ RecoveryTimeout \in Nat
      /\ since \in 0..RecoveryTimeout
  BY BreakerAssumption DEF CInv, Inv, BreakerTypeOK, Spaced
<1>2. state' \in {"CLOSED", "OPEN"}
  BY FailureProps DEF CInv
<1>3. state' = "OPEN" => \/ openedAgo' = 0
                         \/ state = "OPEN" /\ openedAgo' = openedAgo
  <2> DEFINE count == IF failures < FailureThreshold THEN failures + 1 ELSE failures
             opens == state = "HALF_OPEN" \/ count >= FailureThreshold
  <2>1. /\ state' = (IF opens THEN "OPEN" ELSE state)
        /\ openedAgo' = IF opens THEN 0 ELSE openedAgo
    BY DEF record_failure
  <2> HIDE DEF opens
  <2> QED BY <2>1
<1> QED BY <1>1, <1>2, <1>3 DEF CInv, Spaced

LEMMA NextKeepsCInv == CInv /\ [CircuitNext]_circuitVars => CInv'
<1> SUFFICES ASSUME CInv, [CircuitNext]_circuitVars PROVE CInv'
  OBVIOUS
<1>1. Inv'
  BY CircuitStepIsBreakerStep, NextKeepsInv DEF CInv
<1>2. /\ openedAgo \in 0..RecoveryTimeout /\ RecoveryTimeout \in Nat \ {0}
      /\ since \in 0..RecoveryTimeout
  BY BreakerAssumption DEF CInv, Inv, BreakerTypeOK, Spaced
<1>3. ASSUME Tick, since' = (IF since < RecoveryTimeout THEN since + 1 ELSE since)
      PROVE  Spaced'
  BY <1>2, <1>3 DEF Tick, CInv, Spaced
<1>4. ASSUME NEW c \in Calls, Probe(c), since' = 0 PROVE Spaced'
  BY <1>2, <1>4 DEF Probe, Spaced
<1>5. ASSUME record_success, since' = RecoveryTimeout PROVE Spaced'
  BY <1>2, <1>5 DEF record_success, Spaced
<1>6. ASSUME OtherStep, UNCHANGED since PROVE Spaced'
  <2>1. ASSUME NEW c \in Calls, Admit(c) \/ CancelCall(c) PROVE Spaced'
    BY <1>6, <2>1 DEF Admit, CancelCall, CInv, Spaced
  <2>2. CASE Snapshot \/ \E c \in Calls : Reject(c)
    <3>1. Snapshot
      BY <2>2 DEF Reject
    <3> QED BY <1>6, <3>1, SnapshotKeepsSpaced
  <2>3. CASE record_external_failure \/ \E c \in Calls : Fail(c)
    <3>1. record_failure
      BY <2>3 DEF record_external_failure, Fail
    <3> QED BY <1>6, <3>1, FailureKeepsSpaced
  <2> QED BY <1>6, <2>1, <2>2, <2>3 DEF OtherStep
<1>7. ASSUME UNCHANGED circuitVars PROVE Spaced'
  BY <1>7 DEF circuitVars, breakerVars, CInv, Spaced
<1>8. Spaced'
  BY <1>3, <1>4, <1>5, <1>6, <1>7 DEF CircuitNext, record_external_success, Succeed
<1> QED BY <1>1, <1>8 DEF CInv

(* A dependency that does not answer is probed once per recovery timeout,  *)
(* whatever late outcomes, cancellations and reports from outside there    *)
(* are (acquire(), record_failure()).                                      *)
THEOREM ProbesKeepTheirDistance == CircuitSpec => ProbesAreSpaced
<1> DEFINE Distance == (\E c \in Calls : call[c] # "probe" /\ call'[c] = "probe")
                          => since = RecoveryTimeout
<1>1. CircuitInit => CInv
  BY InitInv, BreakerAssumption DEF CircuitInit, BreakerInit, CInv, Spaced
<1>2. ASSUME CInv, [CircuitNext]_circuitVars PROVE [Distance]_circuitVars
  <2> SUFFICES ASSUME [BreakerNext]_breakerVars, NEW c \in Calls,
                      call[c] # "probe", call'[c] = "probe"
               PROVE  since = RecoveryTimeout
    BY <1>2, CircuitStepIsBreakerStep
  <2>1. /\ call \in [Calls -> {"idle", "admitted", "probe"}]
        /\ openedAgo \in 0..RecoveryTimeout /\ RecoveryTimeout \in Nat
        /\ since \in 0..RecoveryTimeout
    BY <1>2, BreakerAssumption DEF CInv, Inv, BreakerTypeOK, Spaced
  <2>2. PICK d \in Calls : Probe(d)
    BY <2>1 DEF BreakerNext, breakerVars, Snapshot, Tick, record_external_success,
                record_external_failure, Acquire, Admit, Reject, Succeed, Fail,
                CancelCall, Return
  <2>3. CASE RecoveryDue
    BY <1>2, <2>1, <2>3 DEF RecoveryDue, CInv, Spaced
  <2>4. CASE ~RecoveryDue
    BY <1>2, <2>2, <2>4 DEF Probe, effective_state, effective_probe, CInv, Spaced
  <2> QED BY <2>3, <2>4
<1> QED BY <1>1, <1>2, NextKeepsCInv, PTL DEF CircuitSpec, ProbesAreSpaced

(* The invariants proved of the breaker hold with the history variable as  *)
(* well, which the runs have.                                              *)
THEOREM HistoryKeepsInv == CircuitSpec => [](BreakerTypeOK /\ FailuresDecideState)
<1>1. CircuitInit => Inv
  BY InitInv DEF CircuitInit
<1>2. Inv /\ [CircuitNext]_circuitVars => Inv'
  BY CircuitStepIsBreakerStep, NextKeepsInv
<1>3. Inv => BreakerTypeOK /\ FailuresDecideState
  BY DEF Inv
<1> QED BY <1>1, <1>2, <1>3, PTL DEF CircuitSpec
=============================================================================
