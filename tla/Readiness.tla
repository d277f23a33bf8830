------------------------------ MODULE Readiness ------------------------------
(***************************************************************************)
(* What the agent says about itself (uyuni_ai_agent/observability.py): the *)
(* age of the last poll that was worth something, the last outcome of each *)
(* dependency, and from both whether it is ready.  The counters, gauges    *)
(* and histograms that nothing reads back are left out.                    *)
(***************************************************************************)
EXTENDS Naturals

CONSTANTS
    Dependencies,   \* the required ones
    ReadyAge,       \* readiness_max_age_seconds, in ticks
    None

VARIABLES
    last_poll,  \* ticks since the last successful poll, up to ReadyAge + 1, or None
    available,  \* the dependencies whose last operation succeeded
    server      \* the HTTP server of the health probes is "off" or "listening"

readinessVars == <<last_poll, available, server>>

ReadinessInit ==
    /\ last_poll = None /\ available = {} /\ server = "off"

Ready == last_poll # None /\ last_poll <= ReadyAge /\ Dependencies \subseteq available

record_poll(successful) ==
    /\ last_poll' = IF successful > 0 THEN 0 ELSE last_poll
    /\ UNCHANGED <<available, server>>

(* Variant with a bug: what failed once stays unavailable.                 *)
after_first(operation) == IF operation[2] THEN available ELSE available \ {operation[1]}

(* The last operation decides, for which minion it was, or why it failed.  *)
after_operation(operation) ==
    IF operation[2] THEN available \cup {operation[1]} ELSE available \ {operation[1]}

record_dependency(dependency, success) ==
    /\ available' = after_operation(<<dependency, success>>)
    /\ UNCHANGED <<last_poll, server>>

mark_stopping == server' = "off" /\ UNCHANGED <<last_poll, available>>

PollAges ==
    last_poll' = IF last_poll = None \/ last_poll > ReadyAge THEN last_poll
                 ELSE last_poll + 1

ReadinessTypeOK ==
    /\ last_poll \in 0..(ReadyAge + 1) \cup {None}
    /\ available \subseteq Dependencies
    /\ server \in {"off", "listening"}
=============================================================================
