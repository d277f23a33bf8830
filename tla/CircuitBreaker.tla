--------------------------- MODULE CircuitBreaker ---------------------------
(***************************************************************************)
(* One dependency of DependencyManager: its circuit breaker and the calls  *)
(* that execute() has in flight (uyuni_ai_agent/resilience.py).            *)
(*                                                                         *)
(* acquire() and the record_* methods run without an await; the operation  *)
(* between them does not, so calls admitted in one state of the circuit    *)
(* finish in another.  call[c] remembers as what a call was admitted,      *)
(* which the code does not.                                                *)
(*                                                                         *)
(* Time is the age of opened_at, counted up to the recovery timeout.  The  *)
(* code compares consecutive_failures with the threshold only, so the      *)
(* count stops there.                                                      *)
(***************************************************************************)
EXTENDS Naturals, FiniteSets

CONSTANTS
    Calls,              \* concurrent callers of execute()
    Cancellable,        \* those that run under a deadline of their own
    FailureThreshold,   \* failure_threshold
    RecoveryTimeout,    \* recovery_timeout_seconds, in ticks
    ExternalReports     \* whether record_external_*() is used

ASSUME BreakerAssumption ==
    /\ FailureThreshold \in Nat \ {0}
    /\ RecoveryTimeout \in Nat \ {0}
    /\ Cancellable \subseteq Calls
    /\ ExternalReports \in BOOLEAN

VARIABLES
    state,      \* _state
    failures,   \* _consecutive_failures
    openedAgo,  \* now - _opened_at, 0 while _opened_at is None
    probing,    \* _probe_in_flight
    call        \* "idle", or how the caller's operation was admitted

breakerVars == <<state, failures, openedAgo, probing, call>>

BreakerInit ==
    /\ state = "CLOSED"
    /\ failures = 0
    /\ openedAgo = 0
    /\ probing = FALSE
    /\ call = [c \in Calls |-> "idle"]

(* The circuit of a new process.                                           *)
Renew ==
    /\ state' = "CLOSED"
    /\ failures' = 0
    /\ openedAgo' = 0
    /\ probing' = FALSE
    /\ call' = [c \in Calls |-> "idle"]

(* _effective_state(): an open circuit becomes half-open when somebody     *)
(* looks at it after the recovery timeout.                                 *)
RecoveryDue == state = "OPEN" /\ openedAgo >= RecoveryTimeout

effective_state == IF RecoveryDue THEN "HALF_OPEN" ELSE state

effective_probe == probing /\ ~RecoveryDue

Snapshot ==
    /\ state' = effective_state /\ probing' = effective_probe
    /\ UNCHANGED <<failures, openedAgo, call>>

Tick ==
    /\ state = "OPEN" /\ openedAgo < RecoveryTimeout
    /\ openedAgo' = openedAgo + 1
    /\ UNCHANGED <<state, failures, probing, call>>

-----------------------------------------------------------------------------
(* execute(): acquire() ...                                                *)

Admit(c) ==
    /\ call[c] = "idle" /\ effective_state = "CLOSED"
    /\ call' = [call EXCEPT ![c] = "admitted"]
    /\ UNCHANGED <<state, failures, openedAgo, probing>>

Probe(c) ==
    /\ call[c] = "idle" /\ effective_state = "HALF_OPEN" /\ ~effective_probe
    /\ state' = "HALF_OPEN" /\ probing' = TRUE
    /\ call' = [call EXCEPT ![c] = "probe"]
    /\ UNCHANGED <<failures, openedAgo>>

(* DependencyUnavailable: open, or half-open with the probe under way.     *)
Reject(c) ==
    /\ call[c] = "idle"
    /\ effective_state = "OPEN" \/ (effective_state = "HALF_OPEN" /\ effective_probe)
    /\ Snapshot

Acquire(c) == Admit(c) \/ Probe(c) \/ Reject(c)

(* Variant with a bug: a success forgets the flag.                         *)
SuccessKeepsFlag ==
    state' = "CLOSED" /\ failures' = 0 /\ openedAgo' = 0 /\ UNCHANGED probing

(* Variant with a bug: a success forgets to reset the count.               *)
SuccessKeepsCount ==
    state' = "CLOSED" /\ openedAgo' = 0 /\ probing' = FALSE /\ UNCHANGED failures

(* ... and the outcome of the operation.                                   *)
record_success ==
    /\ state' = "CLOSED"
    /\ failures' = 0
    /\ openedAgo' = 0
    /\ probing' = FALSE

(* Variant with a bug: the time of the first opening is kept.              *)
FailureKeepsOpening ==
    LET count == IF failures < FailureThreshold THEN failures + 1 ELSE failures
    IN  /\ probing' = FALSE
        /\ failures' = count
        /\ state' = IF count >= FailureThreshold THEN "OPEN" ELSE state
        /\ UNCHANGED openedAgo

record_failure ==
    LET count == IF failures < FailureThreshold THEN failures + 1 ELSE failures
        opens == state = "HALF_OPEN" \/ count >= FailureThreshold
    IN  /\ probing' = FALSE
        /\ failures' = count
        /\ state' = IF opens THEN "OPEN" ELSE state
        /\ openedAgo' = IF opens THEN 0 ELSE openedAgo

Return(c) == call' = [call EXCEPT ![c] = "idle"]

Succeed(c) == call[c] # "idle" /\ record_success /\ Return(c)

(* A timeout, an exception, or a result that success_predicate refuses.    *)
Fail(c) == call[c] # "idle" /\ record_failure /\ Return(c)

(* The deadline of the caller cancels execute(), which re-raises at once.  *)
CancelCall(c) ==
    /\ c \in Cancellable /\ call[c] # "idle"
    /\ Return(c)
    /\ UNCHANGED <<state, failures, openedAgo, probing>>

record_external_success == ExternalReports /\ record_success /\ UNCHANGED call

record_external_failure == ExternalReports /\ record_failure /\ UNCHANGED call

-----------------------------------------------------------------------------
BreakerNext ==
    \/ Snapshot \/ Tick \/ record_external_success \/ record_external_failure
    \/ \E c \in Calls : Acquire(c) \/ Succeed(c) \/ Fail(c) \/ CancelCall(c)

(* Time passes, every operation ends by its timeout, and the poll loop     *)
(* keeps calling its dependencies.                                         *)
BreakerFairness ==
    /\ WF_breakerVars(Tick)
    /\ \A c \in Calls : /\ WF_breakerVars(Succeed(c) \/ Fail(c))
                        /\ WF_breakerVars(Acquire(c))

BreakerSpec == BreakerInit /\ [][BreakerNext]_breakerVars /\ BreakerFairness

-----------------------------------------------------------------------------
(* Properties.                                                             *)

Probes == {c \in Calls : call[c] = "probe"}

BreakerTypeOK ==
    /\ state \in {"CLOSED", "OPEN", "HALF_OPEN"}
    /\ failures \in 0..FailureThreshold
    /\ openedAgo \in 0..RecoveryTimeout
    /\ probing \in BOOLEAN
    /\ call \in [Calls -> {"idle", "admitted", "probe"}]

(* The circuit is closed exactly while fewer failures than the threshold   *)
(* are counted, however late outcomes arrive, and the probe flag is up     *)
(* only while it is half-open (record_success(), record_failure()).        *)
FailuresDecideState ==
    /\ state = "CLOSED" <=> failures < FailureThreshold
    /\ probing => state = "HALF_OPEN"

(* The flag shuts the other callers out, but no probe is under way that    *)
(* could lower it again.                                                   *)
ProbeLost == probing /\ Probes = {}

(* The flag loses its probe in one way only, the cancellation of the probe *)
(* by a deadline of its caller: no outcome of whatever call, however late, *)
(* and no reader of the circuit leaves it behind (acquire(), execute()).   *)
OnlyCancellationLosesProbe ==
    [][ProbeLost' => ProbeLost \/ \E c \in Probes : CancelCall(c)]_breakerVars

(* A circuit that is not closed lets a probe through in the end: it never  *)
(* refuses every caller for ever (docs/runbooks/dependency-circuit-open.md).*)
RecoveryAdmitsProbe ==
    state # "CLOSED" /\ Probes = {} ~> state = "CLOSED" \/ Probes # {}
=============================================================================
