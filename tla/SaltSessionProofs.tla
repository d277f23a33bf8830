-------------------------- MODULE SaltSessionProofs --------------------------
(***************************************************************************)
(* Theorems about the Salt session, for any number of inspections, slots,  *)
(* faults and expiries: what the semaphore protects, what an expiry can do *)
(* to a call, and that the circuit of "salt" is used as a circuit breaker. *)
(***************************************************************************)
EXTENDS SaltSession, FiniteSetTheorems, TLAPS

Phases == {"idle", "started", "locking", "login", "queueing", "posting"} \cup Outcomes

(* Whoever holds a slot is counted once, be it for a request or for the    *)
(* renewal of a session after a 401.                                       *)
SlotInv ==
    /\ pc \in [Users -> Phases]
    /\ IsFiniteSet(SlotsTaken)
    /\ Cardinality(SlotsTaken) <= MaxSaltCalls

-----------------------------------------------------------------------------
(* A step that lets nobody into the semaphore keeps the invariant.         *)
LEMMA NobodyEnters ==
    ASSUME SlotInv, pc' \in [Users -> Phases], SlotsTaken' \subseteq SlotsTaken
    PROVE  SlotInv'
<1>1. /\ IsFiniteSet(SlotsTaken')
      /\ Cardinality(SlotsTaken') <= Cardinality(SlotsTaken)
  BY FS_Subset DEF SlotInv
<1>2. Cardinality(SlotsTaken') \in Nat /\ Cardinality(SlotsTaken) \in Nat
  BY <1>1, FS_CardinalityType DEF SlotInv
<1> QED BY <1>1, <1>2, SessionAssumption DEF SlotInv, SessionAssumption

(* Somebody enters a semaphore that has a slot left.                       *)
LEMMA EnteringKeepsInv ==
    ASSUME SlotInv, NEW c \in Callers, EnterSemaphore(c) PROVE SlotInv'
<1>1. /\ pc' \in [Users -> Phases]
      /\ SlotsTaken' = SlotsTaken \cup {c}
      /\ Cardinality(SlotsTaken) < MaxSaltCalls
  BY DEF EnterSemaphore, Post, Goto, SlotInv, SlotsTaken, Users, Phases
<1>2. /\ IsFiniteSet(SlotsTaken \cup {c}) /\ Cardinality(SlotsTaken) \in Nat
      /\ \/ Cardinality(SlotsTaken \cup {c}) = Cardinality(SlotsTaken)
         \/ Cardinality(SlotsTaken \cup {c}) = Cardinality(SlotsTaken) + 1
  BY FS_AddElement, FS_CardinalityType DEF SlotInv
<1> QED BY <1>1, <1>2, SessionAssumption DEF SlotInv, SessionAssumption

(* The renewal after a 401 keeps the slot: a caller that comes back to     *)
(* posting without passing the semaphore was counted all the time.         *)
LEMMA CallsKeepInv ==
    ASSUME SlotInv, NEW c \in Callers,
           \/ Start(c) \/ EnsureLogin(c) \/ GetLock(c)
           \/ Answered(c) \/ Unauthorized(c) \/ Unreachable(c) \/ Report(c)
           \/ RefuseTarget(c) \/ BrokenAnswer(c)
    PROVE  SlotInv'
<1>0. c \in Users /\ pc \in [Users -> Phases]
  BY DEF Users, SlotInv
<1>1. CASE Start(c) \/ RefuseTarget(c)
  <2>1. pc' \in [Users -> Phases] /\ SlotsTaken' \subseteq SlotsTaken
    BY <1>0, <1>1 DEF Start, RefuseTarget, Goto, SlotsTaken, Phases, Outcomes, Users
  <2> QED BY <2>1, NobodyEnters
<1>2. CASE EnsureLogin(c)
  <2>1. pc' \in [Users -> Phases] /\ SlotsTaken' \subseteq SlotsTaken
    BY <1>0, <1>2 DEF EnsureLogin, LogInOrWait, StartLogin, Goto, SlotsTaken,
                      Phases, Outcomes, Users
  <2> QED BY <2>1, NobodyEnters
<1>3. CASE GetLock(c)
  <2>1. pc' \in [Users -> Phases] /\ SlotsTaken' \subseteq SlotsTaken
    BY <1>0, <1>3 DEF GetLock, Proceed, Post, StartLogin, Goto, SlotsTaken,
                      Phases, Outcomes, Users
  <2> QED BY <2>1, NobodyEnters
<1>4. CASE Unauthorized(c)
  <2>1. pc' \in [Users -> Phases] /\ SlotsTaken' \subseteq SlotsTaken
    BY <1>0, <1>4 DEF Unauthorized, LogInOrWait, StartLogin, Leave, Goto,
                      SlotsTaken, Phases, Outcomes, Users
  <2> QED BY <2>1, NobodyEnters
<1>5. CASE Answered(c) \/ Unreachable(c) \/ BrokenAnswer(c)
  <2>1. pc' \in [Users -> Phases] /\ SlotsTaken' \subseteq SlotsTaken
    BY <1>0, <1>5 DEF Answered, Unreachable, BrokenAnswer, Leave, Goto,
                      SlotsTaken, Phases, Outcomes, Users
  <2> QED BY <2>1, NobodyEnters
<1>6. CASE Report(c)
  <2>1. pc' \in [Users -> Phases] /\ SlotsTaken' \subseteq SlotsTaken
    BY <1>0, <1>6 DEF Report, Goto, SlotsTaken, Phases, Outcomes, Users
  <2> QED BY <2>1, NobodyEnters
<1> QED BY <1>1, <1>2, <1>3, <1>4, <1>5, <1>6

(* Logins, the maintainer and cancelled operations.                        *)
LEMMA UsersKeepInv ==
    ASSUME SlotInv, NEW u \in Users,
           LoginSucceeds(u) \/ LoginFails(u) \/ TimeOut(u) \/ Cancelled(u)
    PROVE  SlotInv'
<1>1. CASE LoginSucceeds(u)
  <2>1. pc' \in [Users -> Phases] /\ SlotsTaken' \subseteq SlotsTaken
    BY <1>1, SessionAssumption
       DEF LoginSucceeds, Goto, SlotInv, SlotsTaken, Phases, Outcomes, Users,
           SessionAssumption
  <2> QED BY <2>1, NobodyEnters
<1>2. CASE LoginFails(u) \/ TimeOut(u) \/ Cancelled(u)
  <2>1. pc' \in [Users -> Phases] /\ SlotsTaken' \subseteq SlotsTaken
    BY <1>2 DEF LoginFails, TimeOut, Cancelled, Leave, Goto, SlotInv, SlotsTaken, Phases,
                Outcomes, Users
  <2> QED BY <2>1, NobodyEnters
<1> QED BY <1>1, <1>2

LEMMA MaintainerKeepsInv ==
    ASSUME SlotInv, Maintain \/ MaintainerLogin \/ MaintainerReport
    PROVE  SlotInv'
<1>1. pc' \in [Users -> Phases] /\ SlotsTaken' \subseteq SlotsTaken
  BY SessionAssumption
     DEF Maintain, MaintainerLogin, MaintainerReport, StartLogin, Goto, SlotInv,
         SlotsTaken, Phases, Outcomes, Users, SessionAssumption
<1> QED BY <1>1, NobodyEnters

LEMMA NextKeepsSlots == SlotInv /\ [SaltNext]_saltVars => SlotInv'
<1> SUFFICES ASSUME SlotInv, [SaltNext]_saltVars PROVE SlotInv'
  OBVIOUS
<1>1. CASE \/ Expire \/ GoDown \/ ComeBack \/ TimePasses
           \/ UNCHANGED saltVars
  <2>1. pc' = pc /\ SlotsTaken' = SlotsTaken
    BY <1>1 DEF Expire, GoDown, ComeBack, TimePasses, saltVars, sessionVars,
                SlotsTaken
  <2> QED BY <2>1 DEF SlotInv
<1>2. CASE MaintainerStep
  BY <1>2, MaintainerKeepsInv, UsersKeepInv DEF MaintainerStep, Users
<1>3. ASSUME NEW u \in Users, TimeOut(u) PROVE SlotInv'
  BY <1>3, UsersKeepInv
<1>4. ASSUME NEW c \in Callers,
             Start(c) \/ CallStep(c) \/ GetLock(c) \/ EnterSemaphore(c) \/ Fault(c)
      PROVE  SlotInv'
  BY <1>4, CallsKeepInv, UsersKeepInv, EnteringKeepsInv DEF CallStep, Fault, Users
<1> QED BY <1>1, <1>2, <1>3, <1>4 DEF SaltNext

LEMMA InitSlots == SaltInit => SlotInv
<1> SUFFICES ASSUME SaltInit PROVE SlotInv
  OBVIOUS
<1>1. pc \in [Users -> Phases] /\ SlotsTaken = {}
  BY DEF SaltInit, SlotsTaken, Phases, Users
<1> QED BY <1>1, FS_EmptySet, SessionAssumption DEF SlotInv, SessionAssumption

(* However many inspections meet an expired session at once, the master    *)
(* never has more than max_salt_calls requests of theirs (salt_semaphore,  *)
(* _call()).                                                               *)
THEOREM SemaphoreHolds == SaltSpec => []MasterIsProtected
<1>1. ASSUME SlotInv PROVE MasterIsProtected
  <2>1. Cardinality(SlotsOfRequests) <= Cardinality(SlotsTaken)
    BY <1>1, FS_Subset DEF SlotInv, SlotsOfRequests, SlotsTaken
  <2>2. Cardinality(SlotsOfRequests) \in Nat /\ Cardinality(SlotsTaken) \in Nat
    BY <1>1, FS_Subset, FS_CardinalityType
       DEF SlotInv, SlotsOfRequests, SlotsTaken
  <2> QED BY <1>1, <2>1, <2>2, SessionAssumption
          DEF SlotInv, MasterIsProtected, SessionAssumption
<1> QED BY <1>1, InitSlots, NextKeepsSlots, PTL DEF SaltSpec

-----------------------------------------------------------------------------
(* What an expiry can do.  A caller on its way to the server has a cookie  *)
(* that is dead only if the session expired after a login.  One that       *)
(* renews it after its 401 has seen one expiry, and is refused again only  *)
(* after a second one, whoever of all the callers logged in between.       *)
SessionInv ==
    /\ faults \in Nat /\ expiries \in Nat
    /\ \A c \in stale : c \in Callers /\ pc[c] = "posting"
    /\ \A c \in retried : c \in Callers /\ pc[c] \in {"locking", "login", "posting"}
    /\ ~cookieLive /\ (loggedIn \/ \E u \in Users : pc[u] \in {"queueing", "posting"})
           => expiries >= 1
    /\ stale # {} \/ retried # {} => expiries >= 1
    /\ ~cookieLive /\ loggedIn /\ (\E c \in retried : pc[c] = "locking") => expiries >= 2
    /\ stale \cap retried # {} => expiries >= 2

LEMMA StartKeepsSession ==
    ASSUME SlotInv, SessionInv, NEW c \in Callers,
           Start(c) \/ RefuseTarget(c) \/ EnsureLogin(c) \/ Report(c)
    PROVE  SessionInv'
<1>0. c \in Users /\ pc \in [Users -> Phases]
  BY DEF Users, SlotInv
<1>1. CASE Start(c)
  BY <1>0, <1>1 DEF Start, Goto, SessionInv, serverVars, Users
<1>2. CASE RefuseTarget(c)
  BY <1>0, <1>2 DEF RefuseTarget, Goto, SessionInv, Users
<1>3. CASE EnsureLogin(c)
  BY <1>0, <1>3 DEF EnsureLogin, LogInOrWait, StartLogin, Goto, SessionInv, serverVars, Users
<1>4. CASE Report(c)
  BY <1>0, <1>4 DEF Report, Goto, SessionInv, serverVars, Users, Outcomes
<1> QED BY <1>1, <1>2, <1>3, <1>4

LEMMA RequestKeepsSession ==
    ASSUME SlotInv, SessionInv, NEW c \in Callers,
           GetLock(c) \/ EnterSemaphore(c) \/ Unauthorized(c)
    PROVE  SessionInv'
<1>0. c \in Users /\ pc \in [Users -> Phases]
  BY DEF Users, SlotInv
<1>1. CASE GetLock(c)
  BY <1>0, <1>1 DEF GetLock, Proceed, Post, StartLogin, Goto, SessionInv, serverVars, Users
<1>2. CASE EnterSemaphore(c)
  BY <1>0, <1>2 DEF EnterSemaphore, Post, Goto, SessionInv, serverVars, Users
<1>3. CASE Unauthorized(c)
  BY <1>0, <1>3 DEF Unauthorized, LogInOrWait, StartLogin, Leave, Goto, SessionInv,
                    serverVars, Users
<1> QED BY <1>1, <1>2, <1>3

(* Whoever leaves, leaves both sets.                                       *)
LEMMA LeaveKeepsSession ==
    ASSUME SlotInv, SessionInv, NEW u \in Users, NEW outcome \in Outcomes \cup {"idle"},
           Leave(u, outcome), UNCHANGED <<cookieLive, expiries>>,
           loggedIn' => loggedIn, faults' \in Nat
    PROVE  SessionInv'
BY DEF Leave, Goto, SlotInv, SessionInv, Outcomes, Phases

LEMMA EndKeepsSession ==
    ASSUME SlotInv, SessionInv, NEW u \in Users,
           \/ LoginFails(u) \/ TimeOut(u) \/ Cancelled(u)
           \/ u \in Callers /\ (Answered(u) \/ Unreachable(u) \/ BrokenAnswer(u))
    PROVE  SessionInv'
<1>1. PICK outcome \in Outcomes \cup {"idle"} : Leave(u, outcome)
  BY DEF LoginFails, TimeOut, Cancelled, Answered, Unreachable, BrokenAnswer, Outcomes
<1>2. /\ UNCHANGED <<cookieLive, expiries>> /\ (loggedIn' => loggedIn)
      /\ faults' \in Nat
  BY DEF LoginFails, TimeOut, Cancelled, Answered, Unreachable, BrokenAnswer, SessionInv,
         serverVars
<1> QED BY <1>1, <1>2, LeaveKeepsSession

LEMMA LoginKeepsSession ==
    ASSUME SlotInv, SessionInv, NEW u \in Users, LoginSucceeds(u)
    PROVE  SessionInv'
BY SessionAssumption DEF LoginSucceeds, Goto, SlotInv, SessionInv, serverVars, SessionAssumption

LEMMA MaintainerKeepsSession ==
    ASSUME SlotInv, SessionInv, Maintain \/ MaintainerLogin \/ MaintainerReport
    PROVE  SessionInv'
<1>0. Maintainer \in Users /\ Maintainer \notin Callers /\ pc \in [Users -> Phases]
  BY SessionAssumption DEF Users, SlotInv, SessionAssumption
<1>1. CASE Maintain
  <2>1. pc' \in {pc, [pc EXCEPT ![Maintainer] = "started"]}
    BY <1>1 DEF Maintain, Goto
  <2>2. UNCHANGED <<loggedIn, cookieLive, stale, retried, faults, expiries>>
    BY <1>1 DEF Maintain, serverVars
  <2>3. \A u \in Users : pc'[u] = pc[u] \/ (u = Maintainer /\ pc'[u] = "started")
    BY <1>0, <2>1
  <2> QED BY <1>0, <2>2, <2>3 DEF SessionInv, Users
<1>2. CASE MaintainerLogin
  BY <1>0, <1>2 DEF MaintainerLogin, StartLogin, Goto, SessionInv, serverVars
<1>3. CASE MaintainerReport
  BY <1>0, <1>3 DEF MaintainerReport, Goto, SessionInv, serverVars
<1> QED BY <1>1, <1>2, <1>3

LEMMA ExpiryKeepsSession ==
    ASSUME SlotInv, SessionInv, Expire PROVE SessionInv'
BY DEF Expire, SlotsOfRequests, SessionInv

LEMMA NextKeepsSession == SlotInv /\ SessionInv /\ [SaltNext]_saltVars => SessionInv'
<1> SUFFICES ASSUME SlotInv, SessionInv, [SaltNext]_saltVars PROVE SessionInv'
  OBVIOUS
<1>1. CASE GoDown \/ ComeBack \/ TimePasses \/ UNCHANGED saltVars
  BY <1>1 DEF GoDown, ComeBack, TimePasses, saltVars, sessionVars, serverVars, SessionInv
<1>2. CASE MaintainerStep
  BY <1>2, MaintainerKeepsSession, LoginKeepsSession, EndKeepsSession DEF MaintainerStep, Users
<1>3. ASSUME NEW u \in Users, TimeOut(u) PROVE SessionInv'
  BY <1>3, EndKeepsSession
<1>4. ASSUME NEW c \in Callers,
             Start(c) \/ CallStep(c) \/ GetLock(c) \/ EnterSemaphore(c) \/ Fault(c)
      PROVE  SessionInv'
  BY <1>4, StartKeepsSession, RequestKeepsSession, LoginKeepsSession, EndKeepsSession
     DEF CallStep, Fault, Users
<1>5. CASE Expire
  BY <1>5, ExpiryKeepsSession
<1> QED BY <1>1, <1>2, <1>3, <1>4, <1>5 DEF SaltNext

LEMMA SessionInvariant == SaltSpec => [](SlotInv /\ SessionInv)
<1>1. SaltInit => SessionInv
  BY DEF SaltInit, SessionInv
<1> QED BY <1>1, InitSlots, NextKeepsSlots, NextKeepsSession, PTL DEF SaltSpec

(* A call that fails while the server answers met a fault, or a second     *)
(* expiry: never the first one, however many callers renewed the session   *)
(* meanwhile (_call()).                                                    *)
THEOREM ExpiriesAreInvisible == SaltSpec => ExpiryIsInvisible
<1>1. SlotInv /\ SessionInv /\ [SaltNext]_saltVars =>
         [\A c \in Callers : pc[c] # "lost" /\ pc'[c] = "lost" /\ up
             => faults' > faults \/ expiries > 1]_saltVars
  <2> SUFFICES ASSUME SlotInv, SessionInv, SaltNext, NEW c \in Callers,
                      pc[c] # "lost", pc'[c] = "lost", up
               PROVE  faults' > faults \/ expiries > 1
    OBVIOUS
  <2>1. pc \in [Users -> Phases] /\ faults \in Nat /\ expiries \in Nat
    BY DEF SlotInv, SessionInv
  <2>2. \E u \in Users : LoginFails(u) \/ (u \in Callers /\ (BrokenAnswer(u) \/ Unauthorized(u)))
    BY <2>1 DEF SaltNext, CallStep, MaintainerStep, Fault, Start, RefuseTarget, EnsureLogin,
        Report, GetLock, EnterSemaphore, Answered, Unauthorized, Unreachable, TimeOut,
        Cancelled, Expire, GoDown, ComeBack, TimePasses, Maintain, MaintainerLogin, MaintainerReport, LoginSucceeds,
        LogInOrWait, StartLogin, Proceed, Post, Leave, Goto, sessionVars, Users, Outcomes
  <2>3. ASSUME NEW u \in Users, LoginFails(u) PROVE faults' > faults
    BY <2>1, <2>3 DEF LoginFails
  <2>4. ASSUME NEW u \in Callers, BrokenAnswer(u) PROVE faults' > faults
    BY <2>1, <2>4 DEF BrokenAnswer
  <2>5. ASSUME NEW u \in Callers, Unauthorized(u) PROVE expiries > 1
    <3>1. u \in retried /\ u \in stale
      BY <2>1, <2>5 DEF Unauthorized, LogInOrWait, StartLogin, Goto, Users
    <3> QED BY <3>1 DEF SessionInv
  <2> QED BY <2>2, <2>3, <2>4, <2>5
<1> QED BY <1>1, SessionInvariant, PTL DEF SaltSpec, ExpiryIsInvisible

-----------------------------------------------------------------------------
(* Inspections and maintainer use the circuit of "salt" as acquire(),      *)
(* execute() and the clock let them.                                       *)
LEMMA StepsOfTheCircuit ==
    [SaltNext]_saltVars => [Circuit!BreakerNext]_(Circuit!breakerVars)
<1> SUFFICES ASSUME [SaltNext]_saltVars
             PROVE  Circuit!BreakerNext \/ UNCHANGED circuitVars
  BY DEF circuitVars, Circuit!breakerVars
<1>1. CASE MaintainerStep
  <2>1. CASE Maintain
    BY <2>1 DEF Maintain, Circuit!BreakerNext, Users
  <2>2. CASE MaintainerReport
    BY <2>2 DEF MaintainerReport, Circuit!BreakerNext, Users
  <2> QED BY <1>1, <2>1, <2>2 DEF MaintainerStep, MaintainerLogin, LoginSucceeds, LoginFails
<1>2. ASSUME NEW c \in Callers,
             Start(c) \/ CallStep(c) \/ GetLock(c) \/ EnterSemaphore(c) \/ Fault(c)
      PROVE  Circuit!BreakerNext \/ UNCHANGED circuitVars
  <2>1. CASE Start(c)
    BY <2>1 DEF Start, Circuit!BreakerNext, Users
  <2>2. CASE Report(c)
    BY <2>2 DEF Report, Circuit!BreakerNext, Users
  <2>3. CASE Cancelled(c)
    BY <2>3 DEF Cancelled, Circuit!BreakerNext, Users
  <2> QED BY <1>2, <2>1, <2>2, <2>3
          DEF CallStep, Fault, GetLock, EnterSemaphore, EnsureLogin, LoginSucceeds, LoginFails,
              Answered, Unauthorized, Unreachable, RefuseTarget, BrokenAnswer
<1>3. CASE TimePasses
  BY <1>3 DEF TimePasses, Circuit!BreakerNext
<1>4. CASE Expire \/ GoDown \/ ComeBack \/ \E u \in Users : TimeOut(u)
  BY <1>4 DEF Expire, GoDown, ComeBack, TimeOut
<1>5. CASE UNCHANGED saltVars
  BY <1>5 DEF saltVars
<1> QED BY <1>1, <1>2, <1>3, <1>4, <1>5 DEF SaltNext

THEOREM InspectionsUseTheCircuit ==
    SaltSpec => Circuit!BreakerInit /\ [][Circuit!BreakerNext]_(Circuit!breakerVars)
<1>1. SaltInit => Circuit!BreakerInit
  BY DEF SaltInit
<1> QED BY <1>1, StepsOfTheCircuit, PTL DEF SaltSpec

(* Whatever inspections and logins fail, time out, expire or are refused,  *)
(* the flag of the probe goes on standing for one under way, and falls with*)
(* it; the only step that leaves it up without one is a deadline that      *)
(* cancels the inspection which is the probe (acquire(), execute()).  A    *)
(* login of the maintainer never does.                                     *)
THEOREM FlagsMeanProbes == SaltSpec => OnlyDeadlinesLoseTheProbe
<1> DEFINE Calls == call \in [Users -> {"idle", "admitted", "probe"}]
           Kept == Circuit!ProbeLost' => Circuit!ProbeLost \/ \E c \in Callers : Cancelled(c)
           SameOrNoFlag == probing' = FALSE \/ (call' = call /\ (probing' => probing))
<1> USE DEF Circuit!ProbeLost, Circuit!Probes
<1>1. SaltInit => Calls
  BY DEF SaltInit, Circuit!BreakerInit
<1>2. Calls /\ [Circuit!BreakerNext]_(Circuit!breakerVars) => Calls'
  BY DEF Circuit!BreakerNext, Circuit!breakerVars, Circuit!Snapshot, Circuit!Tick,
         Circuit!record_external_success, Circuit!record_external_failure, Circuit!Acquire,
         Circuit!Admit, Circuit!Probe, Circuit!Reject, Circuit!Succeed, Circuit!Fail,
         Circuit!CancelCall, Circuit!Return
<1>3. ASSUME Calls, [SaltNext]_saltVars PROVE [Kept]_saltVars
  <2> SUFFICES ASSUME SaltNext PROVE Kept
    BY <1>3
  <2>1. ASSUME SameOrNoFlag PROVE Kept
    BY <2>1
  <2>2. ASSUME NEW u \in Users, Circuit!Acquire(u) PROVE Kept
    <3>1. CASE Circuit!Admit(u)
      BY <1>3, <3>1 DEF Circuit!Admit
    <3>2. CASE Circuit!Probe(u)
      BY <1>3, <3>2 DEF Circuit!Probe
    <3>3. CASE Circuit!Reject(u)
      BY <2>1, <3>3 DEF Circuit!Reject, Circuit!Snapshot, Circuit!effective_probe
    <3> QED BY <2>2, <3>1, <3>2, <3>3 DEF Circuit!Acquire
  <2>3. ASSUME NEW u \in Users, Circuit!Succeed(u) \/ Circuit!Fail(u) PROVE Kept
    BY <2>1, <2>3 DEF Circuit!Succeed, Circuit!Fail, Circuit!record_success,
                      Circuit!record_failure
  <2>4. ASSUME UNCHANGED circuitVars PROVE Kept
    BY <2>1, <2>4 DEF circuitVars
  <2>5. CASE TimePasses
    BY <2>1, <2>5 DEF TimePasses, Circuit!Tick
  <2>6. CASE MaintainerStep
    BY <2>2, <2>3, <2>4, <2>6
       DEF MaintainerStep, Maintain, MaintainerLogin, MaintainerReport, LoginSucceeds,
           LoginFails, Users
  <2>7. ASSUME NEW c \in Callers, Start(c) \/ Report(c) PROVE Kept
    BY <2>2, <2>3, <2>7 DEF Start, Report, Users
  <2>8. ASSUME NEW c \in Callers, Cancelled(c) PROVE Kept
    BY <2>8
  <2>9. ASSUME NEW c \in Callers,
               \/ CallStep(c) /\ ~Report(c)
               \/ GetLock(c) \/ EnterSemaphore(c) \/ RefuseTarget(c) \/ BrokenAnswer(c)
        PROVE  Kept
    BY <2>4, <2>9
       DEF CallStep, GetLock, EnterSemaphore, RefuseTarget, BrokenAnswer, EnsureLogin,
           LoginSucceeds, LoginFails, Answered, Unauthorized, Unreachable
  <2>10. CASE Expire \/ GoDown \/ ComeBack \/ \E u \in Users : TimeOut(u)
    BY <2>4, <2>10 DEF Expire, GoDown, ComeBack, TimeOut
  <2> QED BY <2>5, <2>6, <2>7, <2>8, <2>9, <2>10 DEF SaltNext, CallStep, Fault
<1> HIDE DEF Calls
<1>4. SaltSpec => []Calls
  BY <1>1, <1>2, InspectionsUseTheCircuit, PTL DEF SaltSpec
<1> QED BY <1>3, <1>4, PTL DEF SaltSpec, OnlyDeadlinesLoseTheProbe
=============================================================================
