---------------------------- MODULE SaltSession ----------------------------
(***************************************************************************)
(* The shared session of the Salt API (uyuni_ai_agent/salt_api.py): the    *)
(* inspections that use it at the same time, each under the circuit        *)
(* breaker of "salt" and under a deadline of its task, which may cancel it,*)
(* and the task of run() that keeps it alive.                              *)
(*                                                                         *)
(* The session is a cookie in the jar of the HTTP client, which the server *)
(* honours until it expires.  logged_in is only a belief about it, written *)
(* by every caller and by the maintainer, with awaits in between.  The     *)
(* lock and the semaphore are held by whoever is in the phases they        *)
(* enclose, so neither is a variable.                                      *)
(***************************************************************************)
EXTENDS Naturals, FiniteSets

CONSTANTS
    Callers,            \* concurrent inspections: _safe_call()
    Maintainer,         \* maintain_salt_session()
    MaxSaltCalls,       \* concurrency.max_salt_calls
    FailureThreshold,
    RecoveryTimeout,
    MaxFaults,          \* bound: outages, timeouts, broken answers, deadlines
    MaxExpiries         \* bound: expiries of the session

ASSUME SessionAssumption ==
    /\ Maintainer \notin Callers
    /\ MaxSaltCalls \in Nat \ {0}
    /\ FailureThreshold \in Nat \ {0}
    /\ RecoveryTimeout \in Nat \ {0}
    /\ MaxFaults \in Nat /\ MaxExpiries \in Nat

VARIABLES
    loggedIn,   \* logged_in
    cookieLive, \* the server still honours the cookie in the jar
    pc,         \* what each caller and the maintainer is at
    stale,      \* callers whose request under way the server will refuse
    retried,    \* callers that met a 401, past line 245
    attempted,  \* initial_salt_attempt
    up,         \* the server answers
    faults, expiries,
    state, failures, openedAgo, probing, call   \* the breaker of "salt"

sessionVars == <<loggedIn, cookieLive, pc, stale, retried, attempted>>
serverVars == <<up, faults, expiries>>
circuitVars == <<state, failures, openedAgo, probing, call>>
saltVars == <<sessionVars, serverVars, circuitVars>>

Users == Callers \cup {Maintainer}

Circuit == INSTANCE CircuitBreaker
             WITH Calls <- Users, Cancellable <- Callers, ExternalReports <- FALSE

(* "ok", "lost" and "error" are outcomes that execute() has yet to report: *)
(* a result, an httpx.HTTPError, and any other exception.                  *)
Outcomes == {"ok", "lost", "error"}

SaltInit ==
    /\ loggedIn = FALSE /\ cookieLive = FALSE
    /\ pc = [u \in Users |-> "idle"]
    /\ stale = {} /\ retried = {}
    /\ attempted = FALSE
    /\ up \in BOOLEAN
    /\ faults = 0 /\ expiries = 0
    /\ Circuit!BreakerInit

Goto(u, phase) == pc' = [pc EXCEPT ![u] = phase]

LockFree == \A c \in Callers : pc[c] # "login"

Waiting == {c \in Callers : pc[c] = "locking"}

(* Variant with a bug: a slot is given back before the renewal of a 401.   *)
SlotsOfRequests == {c \in Callers : pc[c] = "posting"}

(* The slots of salt_semaphore stay taken during the renewal of a 401.     *)
SlotsTaken == {c \in Callers : pc[c] = "posting" \/ c \in retried}

-----------------------------------------------------------------------------
(* login().  The flag falls before the request leaves.                     *)
StartLogin(u) == Goto(u, "login") /\ loggedIn' = FALSE

Post(c) ==
    /\ Goto(c, "posting")
    /\ stale' = IF cookieLive THEN stale ELSE stale \cup {c}

(* Variant with a bug: a call that fails after a 401 keeps its slot.       *)
LeaveKeepingSlot(c, outcome) == Goto(c, outcome) /\ stale' = stale \ {c} /\ UNCHANGED retried

(* The call leaves `async with self.salt_semaphore`, or never entered it.  *)
Leave(c, outcome) ==
    /\ Goto(c, outcome)
    /\ retried' = retried \ {c} /\ stale' = stale \ {c}

(* After _ensure_login(): first for a slot, or again with the one held.    *)
Proceed(c) ==
    IF c \in retried THEN Post(c)
                     ELSE Goto(c, "queueing") /\ UNCHANGED stale

(* The response to a login, with the cookie it sets.                       *)
LoginSucceeds(u) ==
    /\ pc[u] = "login" /\ up
    /\ loggedIn' = TRUE /\ cookieLive' = TRUE
    /\ Goto(u, CASE u = Maintainer -> "ok"
                 [] u \in retried  -> "posting"
                 [] OTHER          -> "queueing")
    /\ UNCHANGED <<stale, retried, attempted, serverVars, circuitVars>>

(* No answer, or one with an error status.                                 *)
LoginFails(u) ==
    /\ pc[u] = "login"
    /\ \/ ~up /\ UNCHANGED faults
       \/ up /\ faults < MaxFaults /\ faults' = faults + 1
    /\ loggedIn' = FALSE
    /\ Leave(u, "lost")
    /\ UNCHANGED <<cookieLive, attempted, up, expiries, circuitVars>>

-----------------------------------------------------------------------------
(* One inspection: _safe_call() and _call().                               *)

(* execute(): a refusal by the circuit lowers the flag in the same step.   *)
Start(c) ==
    /\ pc[c] = "idle" /\ attempted
    /\ Circuit!Acquire(c)
    /\ IF call'[c] = "idle"
       THEN loggedIn' = FALSE /\ UNCHANGED pc
       ELSE Goto(c, "started") /\ UNCHANGED loggedIn
    /\ UNCHANGED <<cookieLive, stale, retried, attempted, serverVars>>

(* validate_configured_minion(): the target is not (or no longer) one of   *)
(* the inventory.                                                          *)
RefuseTarget(c) ==
    /\ pc[c] = "started" /\ faults < MaxFaults
    /\ Goto(c, "error") /\ faults' = faults + 1
    /\ UNCHANGED <<loggedIn, cookieLive, stale, retried, attempted,
                   up, expiries, circuitVars>>

(* _ensure_login(): a free lock is taken without a pause.                  *)
LogInOrWait(c) ==
    IF LockFree /\ Waiting = {}
    THEN StartLogin(c)
    ELSE Goto(c, "locking") /\ loggedIn' = FALSE

EnsureLogin(c) ==
    /\ pc[c] = "started"
    /\ IF loggedIn THEN Goto(c, "queueing") /\ UNCHANGED loggedIn
                   ELSE LogInOrWait(c)
    /\ UNCHANGED <<cookieLive, stale, retried, attempted, serverVars, circuitVars>>

GetLock(c) ==
    /\ pc[c] = "locking" /\ LockFree
    /\ IF loggedIn THEN Proceed(c) /\ UNCHANGED loggedIn
                   ELSE StartLogin(c) /\ UNCHANGED stale
    /\ UNCHANGED <<cookieLive, retried, attempted, serverVars, circuitVars>>

EnterSemaphore(c) ==
    /\ pc[c] = "queueing" /\ Cardinality(SlotsTaken) < MaxSaltCalls
    /\ Post(c)
    /\ UNCHANGED <<loggedIn, cookieLive, retried, attempted, serverVars, circuitVars>>

Answered(c) ==
    /\ pc[c] = "posting" /\ up /\ c \notin stale
    /\ Leave(c, "ok")
    /\ UNCHANGED <<loggedIn, cookieLive, attempted, serverVars, circuitVars>>

(* Variant with a bug: a 401 does not lower the flag, so that              *)
(* _ensure_login() has nothing to do.                                      *)
RetryAtOnce(c) ==
    /\ pc[c] = "posting" /\ up /\ c \in stale
    /\ IF c \in retried
       THEN Leave(c, "lost") /\ UNCHANGED loggedIn
       ELSE retried' = retried \cup {c} /\ UNCHANGED <<loggedIn, pc, stale>>
    /\ UNCHANGED <<cookieLive, attempted, serverVars, circuitVars>>

(* 401: lower the flag and log in again, unless somebody else is doing it; *)
(* a second 401 raises.                                                    *)
Unauthorized(c) ==
    /\ pc[c] = "posting" /\ up /\ c \in stale
    /\ IF c \in retried
       THEN Leave(c, "lost") /\ UNCHANGED loggedIn
       ELSE /\ LogInOrWait(c)
            /\ retried' = retried \cup {c} /\ stale' = stale \ {c}
    /\ UNCHANGED <<cookieLive, attempted, serverVars, circuitVars>>

Unreachable(c) ==
    /\ pc[c] = "posting" /\ ~up
    /\ Leave(c, "lost")
    /\ UNCHANGED <<loggedIn, cookieLive, attempted, serverVars, circuitVars>>

(* The server answers an error status, or something that is not the result *)
(* of the minion (SaltAPIError).                                           *)
BrokenAnswer(c) ==
    /\ pc[c] = "posting" /\ up /\ faults < MaxFaults
    /\ \E outcome \in {"lost", "error"} : Leave(c, outcome)
    /\ faults' = faults + 1
    /\ UNCHANGED <<loggedIn, cookieLive, attempted, up, expiries, circuitVars>>

(* wait_for() cancels the operation in whatever phase it is, which frees   *)
(* the lock and the slot.                                                  *)
TimeOut(u) ==
    /\ pc[u] \notin Outcomes \cup {"idle"} /\ faults < MaxFaults
    /\ Leave(u, "error") /\ faults' = faults + 1
    /\ UNCHANGED <<loggedIn, cookieLive, attempted, up, expiries, circuitVars>>

(* The deadline of the minion, of the poll cycle or of the investigation   *)
(* cancels the task that inspects: lock and slot are freed, nobody reports *)
(* to the circuit, and _safe_call() catches nothing.  An operation that is *)
(* done has its outcome reported all the same (wait_for()).                *)
Cancelled(c) ==
    /\ pc[c] \notin Outcomes /\ faults < MaxFaults
    /\ Circuit!CancelCall(c)
    /\ Leave(c, "idle") /\ faults' = faults + 1
    /\ UNCHANGED <<loggedIn, cookieLive, attempted, up, expiries>>

(* execute() reports to the circuit; _safe_call() catches what it raises.  *)
Report(c) ==
    /\ pc[c] \in Outcomes
    /\ IF pc[c] = "ok" THEN Circuit!Succeed(c) ELSE Circuit!Fail(c)
    /\ loggedIn' = (loggedIn /\ pc[c] # "lost")
    /\ Goto(c, "idle")
    /\ UNCHANGED <<cookieLive, stale, retried, attempted, serverVars>>

-----------------------------------------------------------------------------
(* maintain_salt_session().  Its pauses are the steps it does not take.    *)

(* Variant with a bug: the maintainer trusts the first login for ever.     *)
MaintainOnce ==
    /\ pc[Maintainer] = "idle" /\ ~loggedIn /\ ~attempted
    /\ Circuit!Acquire(Maintainer)
    /\ IF call'[Maintainer] = "idle" THEN UNCHANGED pc ELSE Goto(Maintainer, "started")
    /\ UNCHANGED <<loggedIn, cookieLive, stale, retried, attempted, serverVars>>

Maintain ==
    /\ pc[Maintainer] = "idle" /\ ~loggedIn
    /\ Circuit!Acquire(Maintainer)
    /\ IF call'[Maintainer] = "idle" THEN UNCHANGED pc ELSE Goto(Maintainer, "started")
    /\ UNCHANGED <<loggedIn, cookieLive, stale, retried, attempted, serverVars>>

(* start() logs in without the lock.                                       *)
MaintainerLogin ==
    /\ pc[Maintainer] = "started"
    /\ StartLogin(Maintainer)
    /\ UNCHANGED <<cookieLive, stale, retried, attempted, serverVars, circuitVars>>

MaintainerReport ==
    /\ pc[Maintainer] \in Outcomes
    /\ IF pc[Maintainer] = "ok" THEN Circuit!Succeed(Maintainer)
                                ELSE Circuit!Fail(Maintainer)
    /\ attempted' = TRUE
    /\ Goto(Maintainer, "idle")
    /\ UNCHANGED <<loggedIn, cookieLive, stale, retried, serverVars>>

-----------------------------------------------------------------------------
(* The server and the clock.                                               *)

(* Of the requests under way some were served before the expiry.           *)
Expire ==
    /\ cookieLive /\ expiries < MaxExpiries
    /\ cookieLive' = FALSE /\ expiries' = expiries + 1
    /\ \E late \in SUBSET SlotsOfRequests : stale' = stale \cup late
    /\ UNCHANGED <<loggedIn, pc, retried, attempted, up, faults, circuitVars>>

GoDown ==
    /\ up /\ faults < MaxFaults
    /\ up' = FALSE /\ faults' = faults + 1
    /\ UNCHANGED <<sessionVars, expiries, circuitVars>>

ComeBack ==
    /\ ~up /\ up' = TRUE
    /\ UNCHANGED <<sessionVars, faults, expiries, circuitVars>>

TimePasses == Circuit!Tick /\ UNCHANGED <<sessionVars, serverVars>>

-----------------------------------------------------------------------------
CallStep(c) ==
    \/ EnsureLogin(c) \/ LoginSucceeds(c) \/ LoginFails(c)
    \/ Answered(c) \/ Unauthorized(c) \/ Unreachable(c) \/ Report(c)

MaintainerStep ==
    \/ Maintain \/ MaintainerLogin \/ MaintainerReport
    \/ LoginSucceeds(Maintainer) \/ LoginFails(Maintainer)

Fault(c) == RefuseTarget(c) \/ BrokenAnswer(c) \/ Cancelled(c)

SaltNext ==
    \/ MaintainerStep
    \/ \E c \in Callers :
          Start(c) \/ CallStep(c) \/ GetLock(c) \/ EnterSemaphore(c) \/ Fault(c)
    \/ \E u \in Users : TimeOut(u)
    \/ Expire \/ GoDown \/ ComeBack \/ TimePasses

(* Every await ends; the lock and the semaphore are first come, first      *)
(* served; the poll loop inspects while it believes the session to exist;  *)
(* the server comes back.                                                  *)
SaltFairness ==
    /\ WF_saltVars(MaintainerStep) /\ WF_saltVars(ComeBack) /\ WF_saltVars(TimePasses)
    /\ \A c \in Callers :
          /\ WF_saltVars(CallStep(c)) /\ SF_saltVars(GetLock(c))
          /\ SF_saltVars(EnterSemaphore(c)) /\ WF_saltVars(loggedIn /\ Start(c))

SaltSpec == SaltInit /\ [][SaltNext]_saltVars /\ SaltFairness

-----------------------------------------------------------------------------
(* Properties.                                                             *)

(* No burst of expired sessions sends the master more requests at a time   *)
(* than max_salt_calls (salt_semaphore).                                   *)
MasterIsProtected == Cardinality(SlotsOfRequests) <= MaxSaltCalls

(* The probe flag, which shuts every inspection and login out, stands for  *)
(* one under way that will lower it, until a deadline cancels just that one*)
(* (acquire(), execute()).                                                 *)
OnlyDeadlinesLoseTheProbe ==
    [][Circuit!ProbeLost' => Circuit!ProbeLost \/ \E c \in Callers : Cancelled(c)]_saltVars

(* While the server answers, the expiry of a session does not fail a call: *)
(* only a second one during the retry does (_call()).                      *)
ExpiryIsInvisible ==
    [][\A c \in Callers : pc[c] # "lost" /\ pc'[c] = "lost" /\ up
          => faults' > faults \/ expiries > 1]_saltVars

(* Every inspection ends, and gives its slot and the lock back.            *)
InspectionsEnd == \A c \in Callers : pc[c] # "idle" ~> pc[c] = "idle"

(* After the last fault the session is restored and the circuit closed,    *)
(* for good, unless a deadline cancelled a probe: then, and only then, the *)
(* circuit may stay shut (maintain_salt_session(), execute()).             *)
SessionIsRestored ==
    <>[](loggedIn /\ state = "CLOSED") \/ <>[]Circuit!ProbeLost
=============================================================================
