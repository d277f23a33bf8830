------------------------ MODULE IncidentDeliveryProofs ------------------------
(***************************************************************************)
(* What Alertmanager is told, for any incidents, however many of them a    *)
(* minion has, and for any workers, bounds and faults.                     *)
(***************************************************************************)
EXTENDS IncidentDelivery, IncidentLifecycleProofs

(* A step of DeliverySpec: whoever is told about while a decision about it *)
(* waits is overtaken, and stays so.                                       *)
DeliveryStep ==
    /\ [Next]_vars
    /\ overtaken \subseteq overtaken'
    /\ \A w \in Workers :
          AlertReturns(w) /\ Decided(job[w].fingerprint)
          => job[w].fingerprint \in overtaken'

-----------------------------------------------------------------------------
(* What a poll task decided still holds when the job is done.              *)

(* The work is new, overdue, or more severe than what was told; and it     *)
(* knows the payload of the row.                                           *)
Sound(f, work) ==
    /\ rows[f].cooling => Store!Rank(work.severity) > Store!Rank(rows[f].emitted)
    /\ work.previous = rows[f].emitted

SoundWorkOf(m) ==
    /\ \A f \in DOMAIN changes[m].firing \ overtaken : Sound(f, changes[m].firing[f])
    /\ \A f \in DOMAIN changes[m].resolved \ overtaken :
          Store!Active(f) /\ changes[m].resolved[f] = rows[f].emitted

JobsAreSound ==
    /\ \A f \in Queue!pending \ overtaken : Sound(f, heap[f].payload)
    /\ \A w \in Queue!Busy :
          stage[w] # "sent" /\ job[w].fingerprint \notin overtaken
          => Sound(job[w].fingerprint, job[w].payload)

SoundInv ==
    /\ Inv /\ StrayOK /\ SentIsFiring
    /\ JobsAreSound
    /\ \A m \in Minions : SoundWorkOf(m)

LEMMA StepProps ==
    ASSUME Inv, SentIsFiring, [DeliveryNext]_deliveryVars
    PROVE  DeliveryStep
<1>1. CASE DeliveryNext
  <2>1. ASSUME NEW w \in Workers, AlertReturns(w), Decided(job[w].fingerprint)
        PROVE  job[w].fingerprint \in overtaken'
    <3>1. Serving(w, "sent") /\ w \in Queue!Busy
      BY <2>1 DEF AlertReturns, Serving, Queue!Busy
    <3>2. job[w].fingerprint \in Fingerprints
      BY <3>1 DEF Inv, Holders, Queue!Job
    <3> QED BY <1>1, <2>1, <3>1, <3>2 DEF DeliveryNext, Acknowledged
  <2> QED BY <1>1, <2>1 DEF DeliveryNext, DeliveryStep
<1>2. CASE UNCHANGED deliveryVars
  <2>1. ASSUME NEW w \in Workers, AlertReturns(w) PROVE FALSE
    BY <1>2, <2>1 DEF AlertReturns, Serving, End, SentIsFiring, deliveryVars, vars
  <2> QED BY <1>2, <2>1 DEF deliveryVars, DeliveryStep
<1> QED BY <1>1, <1>2

-----------------------------------------------------------------------------
(* The rows.                                                               *)

Kept(f) ==
    /\ rows'[f].emitted = rows[f].emitted
    /\ rows'[f].cooling => rows[f].cooling

(* Nobody was told anything about an open incident but those of Told.      *)
KeptBut(Told) == \A f \in Fingerprints \ Told : Store!Active(f) => Kept(f)

LEMMA RowShape ==
    ASSUME StoreOK, NEW f \in Fingerprints, Store!Active(f)
    PROVE  rows[f] \in Store!Row /\ rows \in [Fingerprints -> Store!Row \cup {None}]
BY DEF StoreOK, Store!StoreTypeOK, Store!Active

LEMMA WritesKeepRows ==
    ASSUME StoreOK,
           \/ rows' = rows
           \/ \E g : Store!MarkResolved(g) \/ Store!CooldownElapses(g)
    PROVE  KeptBut({})
<1> SUFFICES ASSUME NEW f \in Fingerprints, Store!Active(f) PROVE Kept(f)
  BY DEF KeptBut
<1>1. rows[f] \in Store!Row /\ rows \in [Fingerprints -> Store!Row \cup {None}]
  BY RowShape
<1>2. ASSUME NEW g, Store!MarkResolved(g) PROVE Kept(f)
  BY <1>1, <1>2 DEF Store!MarkResolved, Store!Row, Kept
<1>3. ASSUME NEW g, Store!CooldownElapses(g) PROVE Kept(f)
  BY <1>1, <1>3 DEF Store!CooldownElapses, Store!Row, Kept
<1> QED BY <1>2, <1>3 DEF Kept

LEMMA MarkKeepsOthers ==
    ASSUME StoreOK, NEW g, NEW severity, NEW starts_at,
           Store!MarkEmitted(g, severity, starts_at)
    PROVE  KeptBut({g})
<1> SUFFICES ASSUME NEW f \in Fingerprints \ {g}, Store!Active(f) PROVE Kept(f)
  BY DEF KeptBut
<1>1. rows \in [Fingerprints -> Store!Row \cup {None}]
  BY RowShape
<1>2. rows'[f] = rows[f]
  BY <1>1 DEF Store!MarkEmitted
<1> QED BY <1>2 DEF Kept

(* What reconcile() returns is sound.                                      *)
LEMMA ReconcileIsSound ==
    ASSUME StoreOK, NEW m \in Minions, NEW seen,
           DOMAIN seen \subseteq Store!IncidentsOf(m), Store!Reconcile(m, seen)
    PROVE  KeptBut({}) /\ SoundWorkOf(m)'
<1> DEFINE gone == Store!ActiveOf(m) \ DOMAIN seen
           due  == {g \in DOMAIN seen : Store!Due(g, seen[g])}
           over == {g \in gone : Store!Missed(g).absent >= ResolveAfter}
<1>1. \A f \in Fingerprints :
         rows'[f] = IF f \in DOMAIN seen THEN Store!Present(f)
                    ELSE IF f \in gone THEN Store!Missed(f) ELSE rows[f]
  BY DEF Store!Reconcile
<1>2. changes'[m] = [firing   |-> [f \in due |-> Store!Firing(f, seen[f])],
                     resolved |-> [f \in over |-> rows[f].emitted]]
  BY DEF Store!Reconcile, StoreOK
<1>3. \A f \in gone : f \in Fingerprints /\ Store!Active(f)
  BY DEF Store!ActiveOf, Store!IncidentsOf
<1>4. ASSUME NEW f \in Fingerprints, Store!Active(f)
      PROVE  /\ Store!Missed(f).emitted = rows[f].emitted
             /\ Store!Missed(f).cooling = rows[f].cooling
             /\ Store!Missed(f).status = "active" /\ Store!Missed(f) # None
             /\ Store!Present(f).emitted = rows[f].emitted
             /\ Store!Present(f).cooling = rows[f].cooling
  <2>1. rows[f] \in Store!Row /\ rows[f].status = "active"
    BY <1>4, RowShape DEF Store!Active
  <2>2. Store!Missed(f) \in Store!Row
    BY <1>4, MissedProps DEF StoreOK
  <2> QED BY <1>4, <2>1, <2>2, NoneIsNoRow
          DEF Store!Missed, Store!Present, Store!Row, NoneIsNoRow
<1> HIDE DEF gone, over
<1>5. KeptBut({})
  <2> SUFFICES ASSUME NEW f \in Fingerprints, Store!Active(f) PROVE Kept(f)
    BY DEF KeptBut
  <2> QED BY <1>1, <1>4 DEF Kept
<1>6. ASSUME NEW f \in due PROVE Sound(f, changes[m].firing[f])'
  <2>1. f \in Fingerprints /\ f \in DOMAIN seen /\ Store!Due(f, seen[f])
    BY DEF Store!IncidentsOf
  <2>2. /\ rows'[f] = Store!Present(f)
        /\ changes'[m].firing[f] = Store!Firing(f, seen[f])
    BY <1>1, <1>2, <2>1
  <2>3. /\ Store!Firing(f, seen[f]).previous = rows'[f].emitted
        /\ Store!Firing(f, seen[f]).severity = seen[f]
    BY <2>2 DEF Store!Firing
  <2>4. CASE Store!Active(f)
    <3>1. rows'[f].cooling = rows[f].cooling /\ rows'[f].emitted = rows[f].emitted
      BY <1>4, <2>1, <2>2, <2>4
    <3>2. rows[f].cooling =>
             Store!Rank(seen[f]) > Store!Rank(rows[f].emitted)
      BY <2>1, <2>4 DEF Store!Due, Store!Escalated
    <3> QED BY <2>2, <2>3, <3>1, <3>2 DEF Sound, Store!Rank
  <2>5. CASE ~Store!Active(f)
    <3>1. rows'[f].cooling = FALSE
      BY <2>2, <2>5 DEF Store!Present, Store!Opened
    <3> QED BY <2>2, <2>3, <3>1 DEF Sound
  <2> QED BY <2>4, <2>5
<1>7. ASSUME NEW f \in over
      PROVE  Store!Active(f)' /\ changes'[m].resolved[f] = rows'[f].emitted
  <2>1. f \in gone /\ f \notin DOMAIN seen
    BY DEF gone, over
  <2>2. rows'[f] = Store!Missed(f) /\ changes'[m].resolved[f] = rows[f].emitted
    BY <1>1, <1>2, <1>3, <2>1
  <2> QED BY <1>3, <1>4, <2>1, <2>2 DEF Store!Active
<1>8. DOMAIN changes'[m].firing = due /\ DOMAIN changes'[m].resolved = over
  BY <1>2
<1> QED BY <1>5, <1>6, <1>7, <1>8 DEF SoundWorkOf

LEMMA PollSees ==
    ASSUME Inv, NEW m \in Minions, Poll(m)
    PROVE  \E seen : /\ DOMAIN seen \subseteq Store!IncidentsOf(m)
                     /\ \A f \in DOMAIN seen : seen[f] \in Severities
                     /\ Store!Reconcile(m, seen)
<1>1. \A f \in Observed(m) : f \in Store!IncidentsOf(m) /\ anomaly[f] \in Severities
  BY DEF Observed, Store!IncidentsOf, Inv
<1>2. CASE Store!Reconcile(m, [f \in Observed(m) |-> anomaly[f]])
  BY <1>1, <1>2
<1>3. CASE Store!Reconcile(m, [f \in Observed(m) \ SaltChecks |-> anomaly[f]])
  BY <1>1, <1>3
<1> QED BY <1>2, <1>3 DEF Poll

(* Only the answer to an alert tells.                                      *)
LEMMA OnlyAnswersTell ==
    ASSUME Inv, [Next]_vars
    PROVE  \/ KeptBut({})
           \/ \E w \in Workers : AlertReturns(w) /\ KeptBut({job[w].fingerprint})
<1>0. StoreOK
  BY DEF Inv
<1>1. CASE UNCHANGED vars
  BY <1>0, <1>1, WritesKeepRows DEF vars, storeVars
<1>2. CASE Start \/ PollTimeout \/ Crash \/ AlertmanagerStep
  BY <1>0, <1>2, WritesKeepRows
     DEF Start, PollTimeout, Crash, AlertmanagerStep, ApplyStray, ApplyResolution,
         ApplyWithdrawal, ApplyAlert, storeVars
<1>3. ASSUME NEW f \in Fingerprints, Alter(f) \/ CooldownElapses(f)
      PROVE  KeptBut({})
  BY <1>0, <1>3, WritesKeepRows DEF Alter, CooldownElapses, storeVars
<1>4. ASSUME NEW m \in Minions, Poll(m) PROVE KeptBut({})
  BY <1>0, <1>4, PollSees, ReconcileIsSound
<1>5. ASSUME NEW m \in Minions, PollStep(m) \/ Unanswered(m) PROVE KeptBut({})
  <2>1. rows' = rows \/ \E f : Store!MarkResolved(f)
    BY <1>5, UnansweredProps DEF PollStep, ResolveNext, CloseSilently, ResolutionReturns,
       EnqueueNext, PollEnds, storeVars
  <2> QED BY <1>0, <2>1, WritesKeepRows
<1>6. ASSUME NEW w \in Workers, AlertReturns(w)
      PROVE  KeptBut({job[w].fingerprint})
  BY <1>0, <1>6, MarkKeepsOthers DEF AlertReturns
<1>7. ASSUME NEW w \in Workers, WorkerTaskStep(w), ~AlertReturns(w)
      PROVE  KeptBut({})
  <2>1. rows' = rows
    BY <1>7, GivenUpProps DEF WorkerTaskStep, Take, Sleep, HandlerStep, Begin,
       Investigated, WithdrawalReturns, storeVars
  <2> QED BY <1>0, <2>1, WritesKeepRows
<1> QED BY <1>1, <1>2, <1>3, <1>4, <1>5, <1>6, <1>7
        DEF Next, WorkerTaskStep, Unanswered, GivenUp

-----------------------------------------------------------------------------
(* The poll tasks.                                                         *)

LEMMA NothingLeft ==
    /\ DOMAIN Store!NoChanges.firing = {}
    /\ DOMAIN Store!NoChanges.resolved = {}
BY DEF Store!NoChanges, Store!Nothing

LEMMA HandledWork ==
    ASSUME StoreOK, NEW m \in Minions, NEW f, changes' = Handled(m, f),
           NEW n \in Minions
    PROVE  /\ changes'[n].firing = changes[n].firing
           /\ DOMAIN changes'[n].resolved
                 = DOMAIN changes[n].resolved \ (IF n = m THEN {f} ELSE {})
           /\ \A g \in DOMAIN changes'[n].resolved :
                 changes'[n].resolved[g] = changes[n].resolved[g]
<1> DEFINE rest == [g \in DOMAIN changes[m].resolved \ {f} |-> changes[m].resolved[g]]
<1>1. changes[m] = [firing |-> changes[m].firing, resolved |-> changes[m].resolved]
  BY ChangesAreOfMinion
<1>2. changes' = [changes EXCEPT ![m].resolved = rest]
  BY DEF Handled
<1>3. /\ DOMAIN rest = DOMAIN changes[m].resolved \ {f}
      /\ \A g \in DOMAIN rest : rest[g] = changes[m].resolved[g]
  OBVIOUS
<1> HIDE DEF rest
<1>4. /\ n # m => changes'[n] = changes[n]
      /\ changes'[m] = [firing |-> changes[m].firing, resolved |-> rest]
  BY <1>1, <1>2 DEF StoreOK
<1> QED BY <1>3, <1>4

(* What is left to do about an incident nobody was told about since.       *)
LEMMA WorkStays ==
    ASSUME Inv, NEW m \in Minions, SoundWorkOf(m), overtaken \subseteq overtaken',
           NEW Told, NEW Gone, KeptBut(Told), StaysOpen(Gone),
           DOMAIN changes'[m].firing \ overtaken'
              \subseteq DOMAIN changes[m].firing \ Told,
           \A f \in DOMAIN changes'[m].firing :
              changes'[m].firing[f] = changes[m].firing[f],
           DOMAIN changes'[m].resolved \ overtaken'
              \subseteq DOMAIN changes[m].resolved \ (Told \cup Gone),
           \A f \in DOMAIN changes'[m].resolved :
              changes'[m].resolved[f] = changes[m].resolved[f]
    PROVE  SoundWorkOf(m)'
<1>0. /\ DOMAIN changes[m].firing \subseteq Fingerprints
      /\ DOMAIN changes[m].resolved \subseteq Fingerprints
  BY ChangesAreOfMinion DEF Inv, Store!IncidentsOf
<1>1. ASSUME NEW f \in DOMAIN changes'[m].firing \ overtaken'
      PROVE  Sound(f, changes[m].firing[f])'
  <2>1. f \in Fingerprints \ Told /\ Store!Active(f)
    BY <1>0 DEF Inv, WorkIsOpen, Open
  <2>2. Kept(f) /\ Sound(f, changes[m].firing[f])
    BY <2>1 DEF KeptBut, SoundWorkOf
  <2> DEFINE work == changes[m].firing[f]
  <2>3. Sound(f, work) /\ changes'[m].firing[f] = work /\ work' = work
    BY <2>2
  <2> QED BY <2>2, <2>3 DEF Sound, Kept, Store!Rank
<1>2. ASSUME NEW f \in DOMAIN changes'[m].resolved \ overtaken'
      PROVE  Store!Active(f)' /\ changes'[m].resolved[f] = rows'[f].emitted
  <2>1. /\ f \in Fingerprints \ Told /\ f \notin Gone /\ Store!Active(f)
        /\ changes[m].resolved[f] = rows[f].emitted
    BY <1>0 DEF SoundWorkOf
  <2>2. Kept(f) /\ Store!Active(f)'
    BY <2>1 DEF KeptBut, StaysOpen
  <2> QED BY <2>1, <2>2 DEF Kept
<1> QED BY <1>1, <1>2 DEF SoundWorkOf

LEMMA RowsStayOpen ==
    ASSUME rows' = rows PROVE StaysOpen({})
BY DEF StaysOpen, Store!Active

LEMMA WorkKeepsSound ==
    ASSUME SoundInv, DeliveryStep, NEW m \in Minions
    PROVE  SoundWorkOf(m)'
<1>0. /\ Inv /\ SoundWorkOf(m) /\ StoreOK
      /\ [Next]_vars /\ overtaken \subseteq overtaken'
  BY DEF SoundInv, Inv, DeliveryStep
<1>1. ASSUME NEW n \in Minions, Poll(n) PROVE SoundWorkOf(m)'
  <2>1. PICK seen : /\ DOMAIN seen \subseteq Store!IncidentsOf(n)
                    /\ \A f \in DOMAIN seen : seen[f] \in Severities
                    /\ Store!Reconcile(n, seen)
    BY <1>0, <1>1, PollSees
  <2>2. KeptBut({}) /\ SoundWorkOf(n)'
    BY <1>0, <2>1, ReconcileIsSound
  <2>3. /\ StaysOpen({})
        /\ \A k \in Minions \ {n} : changes'[k] = changes[k]
    BY <1>0, <2>1, ReconcileProps
  <2>4. CASE m # n
    <3>1. changes'[m] = changes[m]
      BY <2>3, <2>4
    <3> QED BY <1>0, <2>2, <2>3, <3>1, WorkStays
  <2> QED BY <2>2, <2>4
<1>2. ASSUME NEW n \in Minions, NEW f \in DOMAIN changes[n].resolved,
             changes' = Handled(n, f), rows' = rows \/ Store!MarkResolved(f)
      PROVE  SoundWorkOf(m)'
  <2>1. f \in Fingerprints /\ MinionOf[f] = n
    BY <1>0, <1>2, ChangesAreOfMinion DEF Store!IncidentsOf
  <2>2. KeptBut({})
    BY <1>0, <1>2, WritesKeepRows
  <2>3. StaysOpen({f})
    <3>1. CASE rows' = rows
      BY <3>1 DEF StaysOpen, Store!Active
    <3>2. CASE Store!MarkResolved(f)
      BY <1>0, <2>1, <3>2, ResolvedProps DEF StoreOK
    <3> QED BY <1>2, <3>1, <3>2
  <2>4. f \in DOMAIN changes[m].resolved => m = n
    BY <1>0, <2>1, ChangesAreOfMinion DEF Store!IncidentsOf
  <2>5. /\ changes'[m].firing = changes[m].firing
        /\ DOMAIN changes'[m].resolved
              = DOMAIN changes[m].resolved \ (IF m = n THEN {f} ELSE {})
        /\ \A g \in DOMAIN changes'[m].resolved :
              changes'[m].resolved[g] = changes[m].resolved[g]
    BY <1>0, <1>2, HandledWork
  <2> QED BY <1>0, <2>2, <2>3, <2>4, <2>5, WorkStays
<1>3. ASSUME NEW n \in Minions, EnqueueNext(n) PROVE SoundWorkOf(m)'
  <2>1. PICK f \in DOMAIN changes[n].firing :
           changes' = [changes EXCEPT ![n].firing =
               [g \in DOMAIN changes[n].firing \ {f} |-> changes[n].firing[g]]]
    BY <1>3 DEF EnqueueNext
  <2> DEFINE rest == [g \in DOMAIN changes[n].firing \ {f} |-> changes[n].firing[g]]
  <2>2. changes[n] = [firing |-> changes[n].firing, resolved |-> changes[n].resolved]
    BY <1>0, ChangesAreOfMinion
  <2>3. /\ DOMAIN rest \subseteq DOMAIN changes[n].firing
        /\ \A g \in DOMAIN rest : rest[g] = changes[n].firing[g]
        /\ changes' = [changes EXCEPT ![n].firing = rest]
    BY <2>1
  <2> HIDE DEF rest
  <2>4. /\ m # n => changes'[m] = changes[m]
        /\ changes'[n] = [firing |-> rest, resolved |-> changes[n].resolved]
    BY <1>0, <2>2, <2>3 DEF StoreOK
  <2>5. rows' = rows
    BY <1>3 DEF EnqueueNext
  <2>6. KeptBut({}) /\ StaysOpen({})
    BY <1>0, <2>5, WritesKeepRows, RowsStayOpen
  <2>7. CASE m = n
    BY <1>0, <2>3, <2>4, <2>6, <2>7, WorkStays
  <2>8. CASE m # n
    BY <1>0, <2>4, <2>6, <2>8, WorkStays
  <2> QED BY <2>7, <2>8
<1>4. ASSUME NEW w \in Workers, AlertReturns(w) PROVE SoundWorkOf(m)'
  <2> DEFINE f == job[w].fingerprint
  <2>1. /\ w \in Queue!Busy /\ UNCHANGED changes
        /\ Store!MarkEmitted(f, job[w].payload.severity, job[w].payload.starts_at)
    BY <1>4 DEF AlertReturns, Serving, Queue!Busy
  <2>2. f \in inFlight /\ f \in Fingerprints /\ job[w].payload.severity \in Severities
    BY <1>0, <2>1 DEF Inv, Holders, Queue!Job, Store!Work
  <2>3. f \in DOMAIN changes[m].firing \cup DOMAIN changes[m].resolved => f \in overtaken'
    <3>1. /\ DOMAIN changes[m].firing \subseteq Store!IncidentsOf(m)
          /\ DOMAIN changes[m].resolved \subseteq Store!IncidentsOf(m)
      BY <1>0, ChangesAreOfMinion
    <3> QED BY <1>4, <3>1 DEF DeliveryStep, Decided, Store!IncidentsOf
  <2> HIDE DEF f
  <2>4. KeptBut({f}) /\ StaysOpen({})
    BY <1>0, <2>1, <2>2, MarkKeepsOthers, EmittedProps
  <2> QED BY <1>0, <2>1, <2>3, <2>4, WorkStays
<1>5. ASSUME rows' = rows, changes' = changes PROVE SoundWorkOf(m)'
  <2>1. KeptBut({}) /\ StaysOpen({})
    BY <1>0, <1>5, WritesKeepRows, RowsStayOpen
  <2> QED BY <1>0, <1>5, <2>1, WorkStays
<1>6. ASSUME NEW f \in Fingerprints, CooldownElapses(f) PROVE SoundWorkOf(m)'
  <2>1. Store!CooldownElapses(f) /\ UNCHANGED changes
    BY <1>6 DEF CooldownElapses
  <2>2. KeptBut({}) /\ StaysOpen({})
    BY <1>0, <2>1, WritesKeepRows, CoolingProps
  <2> QED BY <1>0, <2>1, <2>2, WorkStays
<1>7. CASE PollTimeout \/ Crash
  <2>1. changes'[m] = Store!NoChanges
    BY <1>7 DEF PollTimeout, Crash
  <2> QED BY <2>1, NothingLeft DEF SoundWorkOf
<1>8. ASSUME NEW n \in Minions, PollStep(n) \/ Unanswered(n) PROVE SoundWorkOf(m)'
  <2>1. CASE ResolveNext(n)
    <3>1. \/ UNCHANGED storeVars
          \/ \E f \in DOMAIN changes[n].resolved :
                changes' = Handled(n, f) /\ (rows' = rows \/ Store!MarkResolved(f))
      BY <2>1 DEF ResolveNext, CloseSilently
    <3> QED BY <1>2, <1>5, <3>1 DEF storeVars
  <2>2. CASE ResolutionEnds(n) /\ (rows' = rows \/ Store!MarkResolved(resolving[n]))
    <3>1. /\ resolving[n] \in DOMAIN changes[n].resolved
          /\ changes' = Handled(n, resolving[n])
      BY <1>0, <2>2 DEF ResolutionEnds, Inv, ResolvedUndisturbed
    <3> QED BY <1>2, <2>2, <3>1
  <2>3. CASE PollEnds(n)
    BY <1>5, <2>3 DEF PollEnds, storeVars
  <2>4. CASE Unanswered(n)
    BY <1>5, <2>2, <2>4, UnansweredProps DEF storeVars
  <2> QED BY <1>3, <1>8, <2>1, <2>2, <2>3, <2>4 DEF PollStep, ResolutionReturns
<1>9. ASSUME NEW w \in Workers, WorkerTaskStep(w), ~AlertReturns(w)
      PROVE  SoundWorkOf(m)'
  BY <1>5, <1>9, GivenUpProps DEF WorkerTaskStep, Take, Sleep, HandlerStep, Begin,
     Investigated, WithdrawalReturns, storeVars
<1>10. CASE UNCHANGED vars \/ Start \/ AlertmanagerStep
            \/ \E f \in Fingerprints : Alter(f)
  BY <1>5, <1>10 DEF vars, Start, AlertmanagerStep, ApplyStray, ApplyResolution,
                     ApplyWithdrawal, ApplyAlert, Alter, storeVars
<1> QED BY <1>0, <1>1, <1>4, <1>6, <1>7, <1>8, <1>9, <1>10
        DEF Next, WorkerTaskStep, Unanswered, GivenUp

-----------------------------------------------------------------------------
(* The jobs.                                                               *)

(* Only EnqueueNext makes a job out of new work.                           *)
LEMMA JobsComeFromJobs ==
    ASSUME Inv, [Next]_vars, \A m \in Minions : ~EnqueueNext(m)
    PROVE  NoJobsBut({})
<1>0. QueueOK /\ Holders
  BY DEF Inv
<1>1. ASSUME UNCHANGED queueVars PROVE NoJobsBut({})
  BY <1>1 DEF queueVars, NoJobsBut, Queue!pending, Queue!Busy
<1>2. CASE UNCHANGED vars \/ PollTimeout \/ AlertmanagerStep
           \/ \E f \in Fingerprints : Alter(f) \/ CooldownElapses(f)
  BY <1>1, <1>2 DEF vars, PollTimeout, AlertmanagerStep, ApplyStray, ApplyResolution,
                    ApplyWithdrawal, ApplyAlert, Alter, CooldownElapses
<1>3. CASE Start
  BY <1>0, <1>3, IdleProps DEF Start
<1>4. CASE Crash
  BY <1>4 DEF Crash, NoJobsBut, Queue!pending, Queue!Busy, Store!Nothing
<1>5. ASSUME NEW m \in Minions, PollTaskStep(m) PROVE NoJobsBut({})
  <2>1. CASE ResolveNext(m)
    <3>1. PICK f \in DOMAIN changes[m].resolved : Queue!Cancel(f)
      BY <2>1 DEF ResolveNext
    <3>2. f \in Fingerprints
      BY ChangesAreOfMinion DEF Inv, Store!IncidentsOf
    <3> QED BY <1>0, <3>1, <3>2, CancelProps
  <2>2. CASE Poll(m) \/ ResolutionReturns(m) \/ PollEnds(m) \/ Unanswered(m)
    BY <1>1, <2>2, UnansweredProps DEF Poll, ResolutionReturns, ResolutionEnds, PollEnds
  <2> QED BY <1>5, <2>1, <2>2 DEF PollStep, PollTaskStep
<1>6. ASSUME NEW w \in Workers, WorkerTaskStep(w) PROVE NoJobsBut({})
  <2>1. \/ Queue!Take(w) \/ Queue!Sleep(w) \/ Queue!Finish(w) \/ UNCHANGED queueVars
    BY <1>6, GivenUpProps DEF WorkerTaskStep, Take, Sleep, HandlerStep, Begin,
       Investigated, WithdrawalReturns, AlertReturns, AwaitAt, End
  <2> QED BY <1>0, <1>1, <2>1, TakeProps, IdleProps, FinishProps
<1> QED BY <1>2, <1>3, <1>4, <1>5, <1>6
        DEF Next, PollTaskStep, WorkerTaskStep, Unanswered, GivenUp

(* A worker leaves "sent" with its job.                                    *)
LEMMA SentEnds ==
    ASSUME Inv, SentIsFiring, [Next]_vars, NEW w \in Workers, stage[w] = "sent"
    PROVE  stage'[w] = "sent" \/ w \notin Queue!Busy'
<1>1. ASSUME NEW v \in Workers, End(v) PROVE v \notin Queue!Busy'
  BY <1>1 DEF End, Queue!Finish, Queue!Woken, Queue!Busy
<1>2. ASSUME NEW v \in Workers, v # w,
             \/ End(v)
             \/ \E s \in {"investigating", "withdrawing", "sending", "withdrawn",
                          "sent"} : stage' = [stage EXCEPT ![v] = s]
      PROVE  stage'[w] = "sent"
  BY <1>2 DEF End, SentIsFiring
<1>3. ASSUME NEW v \in Workers, HandlerStep(v) \/ GivenUp(v)
      PROVE  stage'[w] = "sent" \/ w \notin Queue!Busy'
  <2>1. \/ End(v) \/ stage' = stage
        \/ /\ stage[v] # "sent"
           /\ \E s \in {"investigating", "withdrawing", "sending"} :
                 stage' = [stage EXCEPT ![v] = s]
    BY <1>3, GivenUpProps DEF HandlerStep, Begin, Investigated, WithdrawalReturns,
       AlertReturns, AwaitAt, Serving
  <2> QED BY <1>1, <1>2, <2>1
<1>4. ASSUME NEW v \in Workers, ApplyWithdrawal(v) \/ ApplyAlert(v)
      PROVE  stage'[w] = "sent"
  <2>1. /\ stage[v] # "sent"
        /\ \E s \in {"withdrawn", "sent"} : stage' = [stage EXCEPT ![v] = s]
    BY <1>4 DEF ApplyWithdrawal, ApplyAlert, Serving
  <2> QED BY <1>2, <2>1
<1>5. CASE Crash
  BY <1>5 DEF Crash, Queue!Busy
<1>6. CASE stage' = stage
  BY <1>6
<1>7. \/ stage' = stage \/ Crash
      \/ \E v \in Workers : \/ ApplyWithdrawal(v) \/ ApplyAlert(v)
                            \/ HandlerStep(v) \/ GivenUp(v)
  <2>1. CASE \E m \in Minions : Unanswered(m)
    BY <2>1, UnansweredProps
  <2> QED BY <2>1
          DEF Next, vars, Start, PollTimeout, AlertmanagerStep, ApplyStray,
              ApplyResolution, Alter, CooldownElapses, Poll, PollStep, ResolveNext,
              ResolutionReturns, ResolutionEnds, EnqueueNext, PollEnds, Take, Sleep,
              Unanswered, GivenUp
<1> QED BY <1>3, <1>4, <1>5, <1>6, <1>7

LEMMA JobsStaySound ==
    ASSUME SoundInv, Inv', [Next]_vars, overtaken \subseteq overtaken',
           NEW New, NoJobsBut(New),
           \A f \in (Queue!pending' \cap New) \ overtaken' : Sound(f, heap[f].payload)',
           NEW Told, KeptBut(Told), Told \cap Queue!pending' = {},
           \A w \in Queue!Busy' : job'[w].fingerprint \notin Told
    PROVE  JobsAreSound'
<1>0. Inv /\ SentIsFiring /\ JobsAreSound /\ JobsAreOfOpenIncidents
  BY DEF SoundInv, Inv
<1>2. ASSUME NEW f \in Queue!pending' \ overtaken' PROVE Sound(f, heap[f].payload)'
  <2>1. CASE f \in New
    BY <1>2, <2>1
  <2>2. CASE f \notin New
    <3>1. f \in Queue!pending \ overtaken /\ heap'[f].payload = heap[f].payload
      BY <1>2, <2>2 DEF NoJobsBut
    <3>2. f \in Fingerprints \ Told /\ Store!Active(f) /\ Sound(f, heap[f].payload)
      BY <1>0, <1>2, <3>1 DEF Inv, QueueOK, JobsAreSound, JobsAreOfOpenIncidents
    <3>3. Kept(f)
      BY <3>2 DEF KeptBut
    <3> QED BY <3>1, <3>2, <3>3 DEF Kept, Sound, Store!Rank
  <2> QED BY <2>1, <2>2
<1>3. ASSUME NEW w \in Queue!Busy', stage'[w] # "sent",
             job'[w].fingerprint \notin overtaken'
      PROVE  Sound(job[w].fingerprint, job[w].payload)'
  <2> DEFINE f == job'[w].fingerprint
  <2>1. f \in Fingerprints \ Told /\ f \notin overtaken
    BY <1>3 DEF Inv, Holders, Queue!Job
  <2>2. CASE w \in Queue!Busy /\ job'[w] = job[w]
    <3>1. stage[w] # "sent"
      BY <1>0, <1>3, SentEnds DEF Queue!Busy
    <3>2. Store!Active(job[w].fingerprint) /\ Sound(job[w].fingerprint, job[w].payload)
      BY <1>0, <2>1, <2>2, <3>1 DEF JobsAreSound, JobsAreOfOpenIncidents
    <3>3. Kept(job[w].fingerprint)
      BY <2>1, <2>2, <3>2 DEF KeptBut
    <3> QED BY <2>2, <3>2, <3>3 DEF Kept, Sound, Store!Rank
  <2>3. CASE f \in Queue!pending /\ job'[w].payload = heap[f].payload
    <3>1. Store!Active(f) /\ Sound(f, heap[f].payload)
      BY <1>0, <2>1, <2>3 DEF JobsAreSound, JobsAreOfOpenIncidents
    <3>2. Kept(f)
      BY <2>1, <3>1 DEF KeptBut
    <3> QED BY <2>3, <3>1, <3>2 DEF Kept, Sound, Store!Rank
  <2> QED BY <1>3, <2>2, <2>3 DEF NoJobsBut
<1> QED BY <1>2, <1>3 DEF JobsAreSound

LEMMA NextKeepsJobsSound ==
    ASSUME SoundInv, DeliveryStep
    PROVE  JobsAreSound'
<1>0. /\ Inv /\ Inv' /\ QueueOK /\ Holders /\ StoreOK
      /\ [Next]_vars /\ overtaken \subseteq overtaken'
  BY NextKeepsInv DEF SoundInv, Inv, DeliveryStep
<1>1. ASSUME NEW m \in Minions, EnqueueNext(m) PROVE JobsAreSound'
  <2>1. PICK f \in DOMAIN changes[m].firing :
           Queue!Enqueue(f, changes[m].firing[f].severity, changes[m].firing[f])
    BY <1>1 DEF EnqueueNext
  <2> DEFINE work == changes[m].firing[f]
  <2>2. f \in Fingerprints /\ work \in Store!Work /\ (f \notin overtaken => Sound(f, work))
    BY <1>0, ChangesAreOfMinion DEF SoundInv, SoundWorkOf, Store!IncidentsOf
  <2>3. Queue!Enqueue(f, work.severity, work)
    BY <2>1
  <2> HIDE DEF work
  <2>4. /\ NoJobsBut({f})
        /\ f \in Queue!pending' =>
              \/ heap'[f].payload = work
              \/ f \in Queue!pending /\ heap'[f].payload = heap[f].payload
    BY <1>0, <2>2, <2>3, EnqueueProps
  <2>5. rows' = rows
    BY <1>1 DEF EnqueueNext
  <2>6. KeptBut({})
    BY <1>0, <2>5, WritesKeepRows
  <2>7. ASSUME f \in Queue!pending' \ overtaken' PROVE Sound(f, heap[f].payload)'
    <3>1. CASE heap'[f].payload = work
      BY <1>0, <2>2, <2>5, <2>7, <3>1 DEF Sound, Store!Rank
    <3>2. CASE f \in Queue!pending /\ heap'[f].payload = heap[f].payload
      <4>1. Sound(f, heap[f].payload)
        BY <1>0, <2>7, <3>2 DEF SoundInv, JobsAreSound
      <4> QED BY <2>5, <3>2, <4>1 DEF Sound, Store!Rank
    <3> QED BY <2>4, <2>7, <3>1, <3>2
  <2> QED BY <1>0, <2>4, <2>6, <2>7, JobsStaySound
<1>2. ASSUME NEW w \in Workers, AlertReturns(w), KeptBut({job[w].fingerprint}),
             NoJobsBut({})
      PROVE  JobsAreSound'
  <2> DEFINE f == job[w].fingerprint
  <2>1. w \in Queue!Busy /\ Queue!Finish(w)
    BY <1>2 DEF AlertReturns, Serving, End, Queue!Busy
  <2>2. /\ f \in inFlight /\ f \notin Queue!pending /\ Queue!pending' = Queue!pending
        /\ w \notin Queue!Busy'
    BY <1>0, <2>1 DEF Holders, Queue!Finish, Queue!pending, Queue!Woken, Queue!Busy
  <2>3. ASSUME NEW v \in Queue!Busy' PROVE job'[v].fingerprint # f
    <3>1. CASE v \in Queue!Busy /\ job'[v] = job[v]
      BY <1>0, <2>1, <2>2, <2>3, <3>1 DEF Holders
    <3>2. CASE job'[v].fingerprint \in Queue!pending
      BY <2>2, <3>2
    <3> QED BY <1>2, <2>3, <3>1, <3>2 DEF NoJobsBut
  <2> QED BY <1>0, <1>2, <2>2, <2>3, JobsStaySound
<1>3. CASE \A m \in Minions : ~EnqueueNext(m)
  <2>1. NoJobsBut({})
    BY <1>0, <1>3, JobsComeFromJobs
  <2>2. CASE KeptBut({})
    BY <1>0, <2>1, <2>2, JobsStaySound
  <2> QED BY <1>0, <1>2, <2>1, <2>2, OnlyAnswersTell
<1> QED BY <1>1, <1>3

LEMMA InitSound == DeliveryInit => SoundInv
<1> SUFFICES ASSUME DeliveryInit PROVE SoundInv
  OBVIOUS
<1>1. Init /\ Inv
  BY InitInv DEF DeliveryInit
<1>2. SentIsFiring /\ StrayOK
  BY <1>1 DEF Init, SentIsFiring, StrayOK
<1>3. \A m \in Minions : changes[m] = Store!NoChanges
  BY <1>1 DEF Init, Store!StoreInit
<1>4. Queue!Busy = {} /\ Queue!pending = {}
  BY <1>1 DEF Init, Queue!QueueInit, Queue!Busy, Queue!pending
<1> QED BY <1>1, <1>2, <1>3, <1>4, NothingLeft
        DEF SoundInv, JobsAreSound, SoundWorkOf

LEMMA NextKeepsSound ==
    ASSUME SoundInv, [DeliveryNext]_deliveryVars
    PROVE  SoundInv'
<1>1. DeliveryStep /\ [Next]_vars
  BY StepProps DEF SoundInv, DeliveryStep
<1>2. Inv' /\ StrayOK' /\ SentIsFiring'
  BY <1>1, NextKeepsInv, NextKeepsStray, NextKeepsSent DEF SoundInv
<1>3. JobsAreSound' /\ \A m \in Minions : SoundWorkOf(m)'
  BY <1>1, NextKeepsJobsSound, WorkKeepsSound
<1> QED BY <1>2, <1>3 DEF SoundInv

(* An incident nobody was told about behind the back of a waiting poll     *)
(* task is not told about twice in a cooldown, unless it got worse: from   *)
(* reconcile(), which decides it, to the answer of Alertmanager only its   *)
(* own job tells about it, however many incidents share its minion         *)
(* (process_minion_anomalies(), _process_firing_investigation()).          *)
THEOREM CooldownsAreRespected == DeliverySpec => CooldownIsRespected
<1>1. DeliveryInit => SoundInv
  BY InitSound
<1>2. SoundInv /\ [DeliveryNext]_deliveryVars => SoundInv'
  BY NextKeepsSound
<1>3. SoundInv =>
         [\A w \in Workers :
            /\ stage[w] = "sending" /\ stage'[w] = "sent"
            /\ job[w].fingerprint \notin overtaken
            => LET row == rows[job[w].fingerprint]
               IN  row.cooling =>
                   Store!Rank(job[w].payload.severity)
                      > Store!Rank(row.emitted)]_deliveryVars
  <2> SUFFICES ASSUME SoundInv, NEW w \in Workers, stage[w] = "sending",
                      job[w].fingerprint \notin overtaken
               PROVE  rows[job[w].fingerprint].cooling =>
                         Store!Rank(job[w].payload.severity)
                            > Store!Rank(rows[job[w].fingerprint].emitted)
    OBVIOUS
  <2>1. Sound(job[w].fingerprint, job[w].payload)
    BY DEF SoundInv, SentIsFiring, JobsAreSound
  <2> QED BY <2>1 DEF Sound
<1> QED BY <1>1, <1>2, <1>3, PTL DEF DeliverySpec, CooldownIsRespected

-----------------------------------------------------------------------------
(* What fires in Alertmanager.                                             *)

(* What fires of incident f, but for requests that were given up.          *)
Traced(f) == alerts[f] \ Astray(f)

(* Incident f fires with severity s because the row says so, or because a  *)
(* delivery is about to be acknowledged.                                   *)
Remembered(f, s) ==
    \/ Store!Active(f) /\ rows[f].emitted = s
    \/ \E w \in Workers : /\ stage[w] = "sent" /\ job[w].fingerprint = f
                          /\ job[w].payload.severity = s

(* What may still fire of its incident at each stage of a handler.         *)
Expected(w) ==
    CASE stage[w] = "withdrawn"          -> {}
      [] stage[w] \in {"sending", "sent"} -> {job[w].payload.severity}
      [] OTHER                           -> Severities

AlertsOK ==
    /\ alerts \in [Fingerprints -> SUBSET Severities]
    /\ \A f \in Fingerprints \ overtaken : \A s \in Traced(f) : Remembered(f, s)
    /\ \A w \in Queue!Busy :
          job[w].fingerprint \notin overtaken
          => Traced(job[w].fingerprint) \subseteq Expected(w)
    /\ \A m \in answered :
          /\ m \in Minions /\ resolving[m] # None
          /\ resolving[m] \notin overtaken => Traced(resolving[m]) = {}

(* What is closed does not fire, and what fires stays as it was told.      *)
FiringRowsStay ==
    \A f \in Fingerprints \ overtaken' :
        Store!Active(f) /\ Traced(f) # {}
        => Store!Active(f)' /\ rows'[f].emitted = rows[f].emitted

(* Requests are given up, and none is recalled.                            *)
LEMMA TracedShrinks ==
    ASSUME stray \subseteq stray', NEW f, alerts'[f] \subseteq alerts[f]
    PROVE  Traced(f)' \subseteq Traced(f)
BY DEF Traced, Astray

LEMMA StaysFiring ==
    ASSUME KeptBut({}), NEW Gone, StaysOpen(Gone), overtaken \subseteq overtaken',
           \A f \in Gone \ overtaken : Traced(f) = {}
    PROVE  FiringRowsStay
BY DEF KeptBut, Kept, StaysOpen, FiringRowsStay

(* Of an incident that nobody investigates fires only what the row says.   *)
LEMMA OnlyTheRow ==
    ASSUME Inv, SentIsFiring, AlertsOK,
           NEW f \in Fingerprints \ overtaken, f \notin inFlight, NEW s \in Traced(f)
    PROVE  Store!Active(f) /\ rows[f].emitted = s /\ s \in Severities
<1>1. \A w \in Workers : stage[w] = "sent" => job[w].fingerprint # f
  BY DEF SentIsFiring, Inv, Holders
<1>2. Remembered(f, s) /\ s \in Severities
  BY DEF AlertsOK, Traced
<1> QED BY <1>1, <1>2 DEF Remembered

(* What the steps below have in common.                                    *)
Growing == stray \subseteq stray' /\ overtaken \subseteq overtaken'

(* The queue moves, or a poll task.                                        *)
LEMMA QuietStepsKeepAlerts ==
    ASSUME SoundInv, Inv', AlertsOK, Growing, UNCHANGED <<alerts, stage>>, KeepsJobs({}),
           FiringRowsStay, answered' \subseteq answered,
           \A m \in answered' : resolving'[m] = resolving[m]
    PROVE  AlertsOK'
<1>0. \A f : Traced(f)' \subseteq Traced(f)
  BY TracedShrinks DEF Growing
<1>1. ASSUME NEW f \in Fingerprints \ overtaken', NEW s \in Traced(f)'
      PROVE  Remembered(f, s)'
  <2>1. Remembered(f, s) /\ Traced(f) # {}
    BY <1>0, <1>1 DEF AlertsOK, Growing
  <2>2. CASE Store!Active(f) /\ rows[f].emitted = s
    BY <2>1, <2>2 DEF FiringRowsStay, Remembered
  <2>3. ASSUME NEW w \in Workers, stage[w] = "sent", job[w].fingerprint = f,
               job[w].payload.severity = s
        PROVE  Remembered(f, s)'
    <3>1. job'[w] = job[w] /\ stage'[w] = "sent"
      BY <2>3 DEF SoundInv, SentIsFiring, KeepsJobs
    <3> QED BY <2>3, <3>1 DEF Remembered
  <2> QED BY <2>1, <2>2, <2>3 DEF Remembered
<1>2. ASSUME NEW w \in Queue!Busy', job'[w].fingerprint \notin overtaken'
      PROVE  Traced(job[w].fingerprint)' \subseteq Expected(w)'
  <2>1. CASE w \in Queue!Busy
    <3>1. job'[w] = job[w] /\ job[w].fingerprint \notin overtaken
      BY <1>2, <2>1 DEF KeepsJobs, Growing
    <3>2. Traced(job[w].fingerprint) \subseteq Expected(w)
      BY <2>1, <3>1 DEF AlertsOK
    <3>3. Expected(w)' = Expected(w)
      BY <3>1 DEF Expected
    <3>4. Traced(job[w].fingerprint)' \subseteq Traced(job[w].fingerprint)
      BY <3>1 DEF Traced, Astray, Growing
    <3> QED BY <3>2, <3>3, <3>4
  <2>2. CASE w \notin Queue!Busy
    <3>1. w \in Workers /\ job'[w].fingerprint \in Fingerprints
      BY <1>2 DEF Inv, Holders, Queue!Job, Queue!Busy
    <3>2. stage'[w] = "none"
      BY <2>2, <3>1 DEF SoundInv, SentIsFiring
    <3> QED BY <3>1, <3>2 DEF Expected, AlertsOK, Traced
  <2> QED BY <2>1, <2>2
<1>3. ASSUME NEW m \in answered'
      PROVE  /\ m \in Minions /\ resolving'[m] # None
             /\ resolving'[m] \notin overtaken' => Traced(resolving[m])' = {}
  <2>1. /\ m \in Minions /\ resolving[m] # None /\ resolving'[m] = resolving[m]
        /\ resolving[m] \notin overtaken => Traced(resolving[m]) = {}
    BY DEF AlertsOK
  <2> QED BY <2>1 DEF Traced, Astray, Growing
<1> QED BY <1>1, <1>2, <1>3 DEF AlertsOK

(* A handler ends that has nothing on the way, or has given it up.         *)
LEMMA EndKeepsAlerts ==
    ASSUME SoundInv, Inv', AlertsOK, Growing, NEW w \in Workers, End(w),
           \/ stage[w] # "sent"
           \/ \A f \in Fingerprints :
                 job[w].fingerprint = f => job[w].payload.severity \in Astray(f)',
           UNCHANGED <<rows, alerts, resolving, answered>>
    PROVE  AlertsOK'
<1>0. \A f : Traced(f)' \subseteq Traced(f)
  BY TracedShrinks DEF Growing
<1>1. KeepsJobs({w}) /\ stage' = [stage EXCEPT ![w] = "none"]
  BY FinishKeepsJobs DEF End, SoundInv, Inv
<1>2. ASSUME NEW f \in Fingerprints \ overtaken', NEW s \in Traced(f)'
      PROVE  Remembered(f, s)'
  <2>1. Remembered(f, s)
    BY <1>0, <1>2 DEF AlertsOK, Growing
  <2>2. CASE Store!Active(f) /\ rows[f].emitted = s
    BY <2>2 DEF Remembered, Store!Active
  <2>3. ASSUME NEW v \in Workers, stage[v] = "sent", job[v].fingerprint = f,
               job[v].payload.severity = s
        PROVE  Remembered(f, s)'
    <3>1. v # w
      BY <1>2, <2>3 DEF Traced
    <3>2. job'[v] = job[v] /\ stage'[v] = "sent"
      BY <1>1, <2>3, <3>1 DEF SoundInv, SentIsFiring, KeepsJobs
    <3> QED BY <2>3, <3>2 DEF Remembered
  <2> QED BY <2>1, <2>2, <2>3 DEF Remembered
<1>3. ASSUME NEW v \in Queue!Busy', job'[v].fingerprint \notin overtaken'
      PROVE  Traced(job[v].fingerprint)' \subseteq Expected(v)'
  <2>1. v \in Workers \ {w} /\ v \in Queue!Busy
    BY <1>3 DEF End, Queue!Finish, Queue!Busy, Queue!Woken
  <2>2. job'[v] = job[v] /\ stage'[v] = stage[v]
    BY <1>1, <2>1 DEF KeepsJobs, SoundInv, SentIsFiring
  <2>3. Traced(job[v].fingerprint) \subseteq Expected(v)
    BY <1>3, <2>1, <2>2 DEF AlertsOK, Growing
  <2>4. Traced(job[v].fingerprint)' \subseteq Traced(job[v].fingerprint)
    BY <2>2 DEF Traced, Astray, Growing
  <2> QED BY <2>2, <2>3, <2>4 DEF Expected
<1>4. ASSUME NEW m \in answered'
      PROVE  /\ m \in Minions /\ resolving'[m] # None
             /\ resolving'[m] \notin overtaken' => Traced(resolving[m])' = {}
  BY <1>4 DEF AlertsOK, Traced, Astray, Growing
<1> QED BY <1>2, <1>3, <1>4 DEF AlertsOK

(* A handler goes on, and nothing else happens.                            *)
LEMMA AwaitKeepsAlerts ==
    ASSUME SoundInv, AlertsOK, Growing, NEW w \in Queue!Busy, stage[w] # "sent", NEW s,
           stage' = [stage EXCEPT ![w] = s],
           job[w].fingerprint \notin overtaken'
              => Traced(job[w].fingerprint) \subseteq Expected(w)',
           UNCHANGED <<rows, alerts, stray, pc, job, resolving, answered>>
    PROVE  AlertsOK'
<1>0. \A f : Traced(f)' = Traced(f)
  BY DEF Traced, Astray
<1>1. w \in Workers /\ Queue!Busy' = Queue!Busy
  BY DEF Queue!Busy
<1>2. \A v \in Workers \ {w} : stage'[v] = stage[v]
  BY DEF SoundInv, SentIsFiring
<1>3. ASSUME NEW f \in Fingerprints \ overtaken', NEW t \in Traced(f)'
      PROVE  Remembered(f, t)'
  <2>1. Remembered(f, t)
    BY <1>0, <1>3 DEF AlertsOK, Growing
  <2> QED BY <1>1, <1>2, <2>1 DEF Remembered, Store!Active
<1>4. ASSUME NEW v \in Queue!Busy', job'[v].fingerprint \notin overtaken'
      PROVE  Traced(job[v].fingerprint)' \subseteq Expected(v)'
  <2>0. Traced(job[v].fingerprint)' = Traced(job[v].fingerprint)
    BY DEF Traced, Astray
  <2>1. CASE v = w
    BY <1>4, <2>0, <2>1
  <2>2. CASE v # w
    <3>1. v \in Queue!Busy /\ stage'[v] = stage[v]
      BY <1>1, <1>2, <1>4, <2>2 DEF Queue!Busy
    <3>2. Traced(job[v].fingerprint) \subseteq Expected(v)
      BY <1>4, <3>1 DEF AlertsOK, Growing
    <3> QED BY <2>0, <3>1, <3>2 DEF Expected
  <2> QED BY <2>1, <2>2
<1>5. ASSUME NEW m \in answered'
      PROVE  /\ m \in Minions /\ resolving'[m] # None
             /\ resolving'[m] \notin overtaken' => Traced(resolving[m])' = {}
  BY <1>5 DEF AlertsOK, Traced, Astray, Growing
<1> QED BY <1>3, <1>4, <1>5 DEF AlertsOK

(* A worker that is about to tell is the only one who could have told.     *)
LEMMA OnlyTheRowOf ==
    ASSUME SoundInv, AlertsOK, NEW w \in Queue!Busy, stage[w] # "sent",
           job[w].fingerprint \notin overtaken, NEW s \in Traced(job[w].fingerprint)
    PROVE  job[w].payload.previous = s /\ s \in Severities
<1> DEFINE f == job[w].fingerprint
<1>1. f \in Fingerprints /\ Sound(f, job[w].payload)
  BY DEF SoundInv, Inv, Holders, Queue!Job, JobsAreSound
<1>2. \A v \in Workers : stage[v] = "sent" => job[v].fingerprint # f
  BY DEF SoundInv, SentIsFiring, Inv, Holders
<1>3. Remembered(f, s) /\ s \in Severities
  BY <1>1 DEF AlertsOK, Traced
<1>4. rows[f].emitted = s
  BY <1>2, <1>3 DEF Remembered
<1> QED BY <1>1, <1>3, <1>4 DEF Sound

(* Nobody cancels a worker of this agent: it crashes, or runs on.          *)
NoneCancelled == \A w \in Workers : pc[w] # "cancelled"

LEMMA NextCancelsNone ==
    ASSUME Inv, NoneCancelled, [Next]_vars
    PROVE  NoneCancelled'
<1>0. QueueOK
  BY DEF Inv
<1>1. \/ UNCHANGED queueVars \/ Crash \/ Queue!Start
      \/ \E w \in Workers : Queue!Take(w) \/ Queue!Sleep(w) \/ Queue!Finish(w)
      \/ \E f : Queue!Cancel(f) \/ \E s, work : Queue!Enqueue(f, s, work)
  <2>1. CASE UNCHANGED vars \/ PollTimeout \/ AlertmanagerStep
             \/ \E f \in Fingerprints : Alter(f) \/ CooldownElapses(f)
    BY <2>1 DEF vars, PollTimeout, AlertmanagerStep, ApplyStray, ApplyResolution,
       ApplyWithdrawal, ApplyAlert, Alter, CooldownElapses
  <2>2. CASE \E m \in Minions : PollTaskStep(m)
    BY <2>2, UnansweredProps DEF PollTaskStep, Poll, PollStep, ResolveNext,
       ResolutionReturns, ResolutionEnds, EnqueueNext, PollEnds
  <2>3. CASE \E w \in Workers : WorkerTaskStep(w)
    BY <2>3, GivenUpProps DEF WorkerTaskStep, Take, Sleep, HandlerStep, Begin,
       Investigated, WithdrawalReturns, AlertReturns, AwaitAt, End
  <2> QED BY <2>1, <2>2, <2>3
          DEF Next, Start, PollTaskStep, WorkerTaskStep, Unanswered, GivenUp
<1>2. CASE UNCHANGED queueVars \/ Crash \/ Queue!Start
  BY <1>2 DEF queueVars, Crash, Queue!Start, NoneCancelled
<1>3. ASSUME NEW w \in Workers, Queue!Take(w) \/ Queue!Sleep(w) \/ Queue!Finish(w)
      PROVE  NoneCancelled'
  BY <1>0, <1>3 DEF Queue!Take, Queue!Sleep, Queue!Finish, Queue!Woken, QueueOK, NoneCancelled
<1>4. ASSUME NEW f, Queue!Cancel(f) PROVE NoneCancelled'
  BY <1>4 DEF Queue!Cancel, Queue!Woken, NoneCancelled
<1>5. ASSUME NEW f, NEW s, NEW work, Queue!Enqueue(f, s, work) PROVE NoneCancelled'
  <2>1. Queue!NotifyOne \/ pc' = pc
    BY <1>5 DEF Queue!Enqueue, Queue!Refuse, Queue!Coalesce, Queue!Push, Queue!Evict,
       Queue!queueVars
  <2> QED BY <1>0, <2>1 DEF Queue!NotifyOne, Queue!Waiting, QueueOK, NoneCancelled
<1> QED BY <1>1, <1>2, <1>3, <1>4, <1>5

(* What a handler that gives up in the middle of a delivery leaves behind. *)
LEMMA StrandedIsAstray ==
    ASSUME SentIsFiring, NoneCancelled, NEW w \in Workers, stage[w] = "sent"
    PROVE  /\ Delivering(w)
           /\ \A f : DeliveryOf(w) \in stray' /\ job[w].fingerprint = f =>
                 job[w].payload.severity \in Astray(f)'
<1>1. pc[w] = "running"
  BY DEF SentIsFiring, NoneCancelled, Queue!Busy
<1>2. /\ Delivering(w)
      /\ DeliveryOf(w) = Request(job[w].fingerprint, job[w].payload.severity, TRUE)
  BY <1>1 DEF Delivering, DeliveryOf, Withdrawing, Serving
<1> QED BY <1>2 DEF Astray, Request

LEMMA HandlersKeepAlerts ==
    ASSUME SoundInv, Inv', AlertsOK, Growing, NEW w \in Workers,
           Begin(w) \/ Investigated(w) \/ WithdrawalReturns(w)
    PROVE  AlertsOK'
<1> DEFINE F == job[w].fingerprint
<1>1. /\ w \in Queue!Busy /\ stage[w] # "sent"
      /\ UNCHANGED <<rows, alerts, stray, resolving, answered>>
  BY DEF Begin, Investigated, WithdrawalReturns, Fault, Serving, Queue!Busy,
         storeVars, pollVars
<1>2. F \in Fingerprints
  BY <1>1 DEF SoundInv, Inv, Holders, Queue!Job
<1>3. \/ End(w)
      \/ UNCHANGED <<pc, job>> /\ stage' = [stage EXCEPT ![w] = "investigating"]
      \/ /\ Investigated(w) /\ UNCHANGED <<pc, job>>
         /\ stage' = [stage EXCEPT ![w] = "withdrawing"]
      \/ /\ Investigated(w) /\ UNCHANGED <<pc, job>> /\ ~Relabels(job[w].payload)
         /\ stage' = [stage EXCEPT ![w] = "sending"]
      \/ /\ WithdrawalReturns(w) /\ UNCHANGED <<pc, job>>
         /\ stage' = [stage EXCEPT ![w] = "sending"]
  BY DEF Begin, Investigated, WithdrawalReturns, AwaitAt, queueVars
<1>4. CASE End(w)
  BY <1>1, <1>4, EndKeepsAlerts
<1>5. ASSUME NEW s, stage' = [stage EXCEPT ![w] = s], UNCHANGED <<pc, job>>,
             \/ s \in {"investigating", "withdrawing"}
             \/ /\ s = "sending"
                /\ F \notin overtaken => Traced(F) \subseteq {job[w].payload.severity}
      PROVE  AlertsOK'
  <2>1. stage'[w] = s
    BY <1>1, <1>5 DEF SoundInv, SentIsFiring, Queue!Busy
  <2>2. F \notin overtaken' => Traced(F) \subseteq Expected(w)'
    <3>1. CASE s \in {"investigating", "withdrawing"}
      BY <1>2, <2>1, <3>1 DEF Expected, AlertsOK, Traced
    <3>2. CASE s = "sending"
      BY <1>5, <2>1, <3>2 DEF Expected, Growing
    <3> QED BY <1>5, <3>1, <3>2
  <2> QED BY <1>1, <1>5, <2>2, AwaitKeepsAlerts
<1>6. CASE Investigated(w) /\ ~Relabels(job[w].payload)
  <2>1. F \notin overtaken => \A s \in Traced(F) : s = job[w].payload.severity
    BY <1>1, <1>6, OnlyTheRowOf, NoneIsNoRow DEF Relabels, NoneIsNoRow
  <2> QED BY <1>3, <1>4, <1>5, <2>1
<1>7. CASE WithdrawalReturns(w)
  <2>1. F \notin overtaken => Traced(F) = {}
    BY <1>1, <1>7 DEF AlertsOK, WithdrawalReturns, Serving, Expected
  <2> QED BY <1>3, <1>4, <1>5, <2>1
<1> QED BY <1>3, <1>4, <1>5, <1>6, <1>7

LEMMA GivenUpKeepsAlerts ==
    ASSUME SoundInv, Inv', AlertsOK, NoneCancelled, Growing,
           NEW w \in Workers, GivenUp(w)
    PROVE  AlertsOK'
<1>1. UNCHANGED <<rows, alerts, resolving, answered>>
  BY GivenUpProps DEF storeVars, pollVars
<1>2. CASE End(w)
  <2>1. stage[w] = "sent" => DeliveryAstray(w)
    BY DEF GivenUp, Abort, Refused, Serving
  <2>2. DeliveryAstray(w) => DeliveryOf(w) \in stray'
    BY DEF DeliveryAstray
  <2>3. \/ stage[w] # "sent"
        \/ \A f \in Fingerprints :
              job[w].fingerprint = f => job[w].payload.severity \in Astray(f)'
    BY <2>1, <2>2, StrandedIsAstray DEF SoundInv
  <2> QED BY <1>1, <1>2, <2>3, EndKeepsAlerts
<1>3. CASE ~End(w)
  <2>1. UNCHANGED <<queueVars, stage>>
    BY <1>3, GivenUpProps
  <2>2. KeepsJobs({}) /\ FiringRowsStay
    BY <1>1, <2>1, QueueKeepsJobs DEF SoundInv, Inv, FiringRowsStay, Store!Active
  <2> QED BY <1>1, <2>1, <2>2, QuietStepsKeepAlerts
<1> QED BY <1>2, <1>3

(* The answer to an alert: the row remembers what fires.                   *)
LEMMA AnswersKeepAlerts ==
    ASSUME SoundInv, Inv', AlertsOK, Growing, NEW w \in Workers, AlertReturns(w)
    PROVE  AlertsOK'
<1>0. PICK F, severity : F = job[w].fingerprint /\ severity = job[w].payload.severity
  OBVIOUS
<1>1. /\ w \in Queue!Busy /\ stage[w] = "sent" /\ End(w)
      /\ Store!MarkEmitted(F, severity, job[w].payload.starts_at)
      /\ UNCHANGED <<changes, alerts, stray, resolving, answered>>
  BY <1>0 DEF AlertReturns, Serving, Queue!Busy, pollVars
<1>2. /\ F \in Fingerprints /\ severity \in Severities
      /\ Store!Active(F) /\ rows[F].starts_at = job[w].payload.starts_at
      /\ StoreOK
  BY <1>0, <1>1 DEF SoundInv, Inv, Holders, Queue!Job, Store!Work, JobsAreOfOpenIncidents
<1>3. F \notin overtaken => Traced(F) \subseteq {severity}
  BY <1>0, <1>1 DEF AlertsOK, Expected
<1>4. Store!Active(F)' /\ rows'[F].emitted = severity
  <2>1. /\ rows[F] \in Store!Row
        /\ rows \in [Fingerprints -> Store!Row \cup {None}]
    BY <1>2, RowShape
  <2>2. rows' = [rows EXCEPT ![F].emitted = severity, ![F].cooling = TRUE]
    BY <1>1, <1>2 DEF Store!MarkEmitted
  <2>3. rows'[F].emitted = severity
    BY <1>2, <2>1, <2>2 DEF Store!Row
  <2>4. StaysOpen({})
    BY <1>1, <1>2, EmittedProps
  <2> QED BY <1>2, <2>3, <2>4 DEF StaysOpen
<1>5. \A g \in Fingerprints \ {F} :
         Store!Active(g) => Store!Active(g)' /\ rows'[g].emitted = rows[g].emitted
  <2>1. KeptBut({F}) /\ StaysOpen({})
    BY <1>1, <1>2, MarkKeepsOthers, EmittedProps
  <2> QED BY <2>1 DEF KeptBut, Kept, StaysOpen
<1>6. /\ KeepsJobs({w}) /\ stage' = [stage EXCEPT ![w] = "none"]
      /\ w \notin Queue!Busy' /\ Queue!Busy' \subseteq Queue!Busy
  <2>1. KeepsJobs({w}) /\ stage' = [stage EXCEPT ![w] = "none"]
    BY <1>1, FinishKeepsJobs DEF End, SoundInv, Inv
  <2> QED BY <1>1, <2>1 DEF End, Queue!Finish, Queue!Busy, Queue!Woken
<1>7. \A f : Traced(f)' = Traced(f)
  BY <1>1 DEF Traced, Astray
<1>8. ASSUME NEW f \in Fingerprints \ overtaken', NEW s \in Traced(f)'
      PROVE  Remembered(f, s)'
  <2>0. f \notin overtaken /\ s \in Traced(f)
    BY <1>7, <1>8 DEF Growing
  <2>1. CASE f = F
    BY <1>3, <1>4, <2>0, <2>1 DEF Remembered
  <2>2. CASE f # F
    <3>1. Remembered(f, s)
      BY <2>0 DEF AlertsOK
    <3>2. CASE Store!Active(f) /\ rows[f].emitted = s
      BY <1>5, <2>2, <3>2 DEF Remembered
    <3>3. ASSUME NEW v \in Workers, stage[v] = "sent", job[v].fingerprint = f,
                 job[v].payload.severity = s
          PROVE  Remembered(f, s)'
      <4>1. v # w
        BY <1>0, <2>2, <3>3
      <4>2. job'[v] = job[v] /\ stage'[v] = "sent"
        BY <1>6, <3>3, <4>1 DEF SoundInv, SentIsFiring, KeepsJobs
      <4> QED BY <3>3, <4>2 DEF Remembered
    <3> QED BY <3>1, <3>2, <3>3 DEF Remembered
  <2> QED BY <2>1, <2>2
<1>9. ASSUME NEW v \in Queue!Busy', job'[v].fingerprint \notin overtaken'
      PROVE  Traced(job[v].fingerprint)' \subseteq Expected(v)'
  <2>1. /\ v \in Queue!Busy /\ v # w /\ v \in Workers
        /\ job'[v] = job[v] /\ stage'[v] = stage[v]
    BY <1>6, <1>9 DEF KeepsJobs, SoundInv, SentIsFiring, Queue!Busy
  <2>2. Traced(job[v].fingerprint) \subseteq Expected(v)
    BY <1>9, <2>1 DEF AlertsOK, Growing
  <2>3. Traced(job[v].fingerprint)' = Traced(job[v].fingerprint)
    BY <1>1, <2>1 DEF Traced, Astray
  <2> QED BY <2>1, <2>2, <2>3 DEF Expected
<1>10. ASSUME NEW m \in answered'
       PROVE  /\ m \in Minions /\ resolving'[m] # None
              /\ resolving'[m] \notin overtaken' => Traced(resolving[m])' = {}
  BY <1>1, <1>10 DEF AlertsOK, Traced, Astray, Growing
<1> QED BY <1>1, <1>8, <1>9, <1>10 DEF AlertsOK

(* Less fires than before.                                                 *)
LEMMA FewerKeepAlerts ==
    ASSUME SoundInv, AlertsOK, Growing,
           UNCHANGED <<rows, stray, stage, pc, job, resolving>>,
           alerts' \in [Fingerprints -> SUBSET Severities],
           \A f \in Fingerprints : Traced(f)' \subseteq Traced(f),
           \A m \in answered' :
              \/ m \in answered
              \/ /\ m \in Minions /\ resolving[m] # None
                 /\ resolving[m] \notin overtaken' => Traced(resolving[m])' = {}
    PROVE  AlertsOK'
<1>0. Queue!Busy' = Queue!Busy
  BY DEF Queue!Busy
<1>1. ASSUME NEW f \in Fingerprints \ overtaken', NEW s \in Traced(f)'
      PROVE  Remembered(f, s)'
  <2>1. Remembered(f, s)
    BY <1>1 DEF AlertsOK, Growing
  <2> QED BY <2>1 DEF Remembered, Store!Active
<1>2. ASSUME NEW v \in Queue!Busy', job'[v].fingerprint \notin overtaken'
      PROVE  Traced(job[v].fingerprint)' \subseteq Expected(v)'
  <2> DEFINE g == job[v].fingerprint
  <2>1. /\ v \in Queue!Busy /\ g \in Fingerprints \ overtaken /\ g' = g
    BY <1>0, <1>2 DEF SoundInv, Inv, Holders, Queue!Job, Growing
  <2>2. Traced(g) \subseteq Expected(v)
    BY <2>1 DEF AlertsOK
  <2>3. Expected(v)' = Expected(v)
    BY DEF Expected
  <2>4. \A f \in Fingerprints : f = g => Traced(f)' \subseteq Traced(f)
    OBVIOUS
  <2>5. \A f \in Fingerprints : f = g => Traced(g)' = Traced(f)'
    BY DEF Traced, Astray
  <2> HIDE DEF g
  <2>6. Traced(g)' \subseteq Traced(g)
    BY <2>1, <2>4, <2>5
  <2> QED BY <2>2, <2>3, <2>6 DEF g
<1>3. ASSUME NEW m \in answered'
      PROVE  /\ m \in Minions /\ resolving'[m] # None
             /\ resolving'[m] \notin overtaken' => Traced(resolving[m])' = {}
  <2>1. CASE m \in answered
    <3>1. /\ m \in Minions /\ resolving[m] \in Fingerprints
          /\ resolving[m] # None
          /\ resolving[m] \notin overtaken => Traced(resolving[m]) = {}
      BY <2>1 DEF AlertsOK, SoundInv, Inv
    <3>2. \A f \in Fingerprints : f = resolving[m] =>
             Traced(resolving[m])' = Traced(f)' /\ Traced(resolving[m]) = Traced(f)
      BY DEF Traced, Astray
    <3> QED BY <3>1, <3>2 DEF Growing
  <2>2. CASE m \notin answered
    BY <1>3, <2>2
  <2> QED BY <2>1, <2>2
<1> QED BY <1>1, <1>2, <1>3 DEF AlertsOK

(* Alertmanager withdraws what is in the row, and applies one alert. A     *)
(* request that was given up adds nothing but what was given up.           *)
LEMMA AlertmanagerKeepsAlerts ==
    ASSUME SoundInv, AlertsOK, StrayOK, Growing, AlertmanagerStep
    PROVE  AlertsOK'
<1>1. ASSUME NEW m \in Minions, ApplyResolution(m) PROVE AlertsOK'
  <2>0. PICK f : f = resolving[m]
    OBVIOUS
  <2>1. /\ f \in DOMAIN changes[m].resolved /\ f \notin inFlight /\ f # None
        /\ alerts' = [alerts EXCEPT ![f] = @ \ {changes[m].resolved[f]}]
        /\ answered' = answered \cup {m}
        /\ UNCHANGED <<rows, stray, stage, pc, job, resolving>>
    BY <1>1, <2>0 DEF ApplyResolution, SoundInv, Inv, ResolvedUndisturbed, queueVars,
                      storeVars
  <2>2. /\ f \in Fingerprints
        /\ f \notin overtaken => changes[m].resolved[f] = rows[f].emitted
    <3>1. f \in Fingerprints
      BY <2>1, ChangesAreOfMinion DEF SoundInv, Inv, Store!IncidentsOf
    <3>2. SoundWorkOf(m)
      BY DEF SoundInv
    <3> QED BY <2>1, <3>1, <3>2 DEF SoundWorkOf
  <2>3. /\ \A g \in Fingerprints \ {f} : alerts'[g] = alerts[g]
        /\ alerts'[f] = alerts[f] \ {changes[m].resolved[f]}
        /\ alerts' \in [Fingerprints -> SUBSET Severities]
    BY <2>1, <2>2 DEF AlertsOK
  <2>4. \A g \in Fingerprints : Traced(g)' \subseteq Traced(g)
    BY <2>1, <2>2, <2>3 DEF Traced, Astray
  <2>5. f \notin overtaken' => Traced(f)' = {}
    <3> SUFFICES ASSUME f \notin overtaken' PROVE Traced(f)' = {}
      OBVIOUS
    <3>1. f \notin overtaken
      BY DEF Growing
    <3>2. \A s \in Traced(f) : s = rows[f].emitted
      BY <2>1, <2>2, <3>1, OnlyTheRow DEF SoundInv
    <3>3. Traced(f)' = Traced(f) \ {rows[f].emitted}
      BY <2>1, <2>2, <2>3, <3>1 DEF Traced, Astray
    <3> QED BY <3>2, <3>3
  <2>6. Traced(resolving[m])' = Traced(f)'
    BY <2>0, <2>1 DEF Traced, Astray
  <2> QED BY <2>0, <2>1, <2>3, <2>4, <2>5, <2>6, FewerKeepAlerts
<1>2. ASSUME NEW w \in Workers, ApplyWithdrawal(w) \/ ApplyAlert(w) PROVE AlertsOK'
  <2>0. PICK f, work : f = job[w].fingerprint /\ work = job[w].payload
    OBVIOUS
  <2>1. /\ w \in Queue!Busy /\ stage[w] # "sent"
        /\ f \in Fingerprints /\ f \in inFlight /\ work.severity \in Severities
        /\ UNCHANGED <<rows, stray, pc, job, resolving, answered>>
        /\ Queue!Busy' = Queue!Busy
    BY <1>2, <2>0 DEF ApplyWithdrawal, ApplyAlert, Serving, Queue!Busy, queueVars,
                storeVars, pollVars, SoundInv, Inv, Holders, Queue!Job, Store!Work
  <2>2. /\ alerts' \in [Fingerprints -> SUBSET Severities]
        /\ \A g \in Fingerprints \ {f} : alerts'[g] = alerts[g]
        /\ \A v \in Workers \ {w} : stage'[v] = stage[v]
    BY <1>2, <2>0, <2>1 DEF ApplyWithdrawal, ApplyAlert, AlertsOK, SoundInv, SentIsFiring
  <2>3. \A g \in Fingerprints \ {f} : Traced(g)' = Traced(g)
    BY <2>1, <2>2 DEF Traced, Astray
  <2>4. ASSUME f \notin overtaken'
        PROVE  /\ Traced(f)' \subseteq Expected(w)'
               /\ \A s \in Traced(f)' : Remembered(f, s)'
    <3>0. f \notin overtaken
      BY <2>4 DEF Growing
    <3>1. CASE ApplyWithdrawal(w)
      <4>1. \A s \in Traced(f) : s = work.previous
        BY <2>0, <2>1, <3>0, OnlyTheRowOf
      <4>2. alerts'[f] = alerts[f] \ {work.previous}
        BY <2>0, <2>1, <3>1 DEF ApplyWithdrawal, AlertsOK
      <4>3. Traced(f)' = {}
        BY <2>1, <4>1, <4>2 DEF Traced, Astray
      <4> QED BY <4>3
    <3>2. CASE ApplyAlert(w)
      <4>1. stage[w] = "sending" /\ stage'[w] = "sent"
        BY <2>1, <3>2 DEF ApplyAlert, Serving, SoundInv, SentIsFiring
      <4>2. Traced(f) \subseteq {work.severity}
        BY <2>0, <2>1, <3>0, <4>1 DEF AlertsOK, Expected
      <4>3. alerts'[f] = alerts[f] \cup {work.severity}
        BY <2>0, <2>1, <3>2 DEF ApplyAlert, AlertsOK
      <4>4. Traced(f)' \subseteq {work.severity}
        BY <2>1, <4>2, <4>3 DEF Traced, Astray
      <4>5. job'[w] = job[w]
        BY <2>1
      <4> QED BY <2>0, <4>1, <4>4, <4>5 DEF Expected, Remembered
    <3> QED BY <1>2, <3>1, <3>2
  <2>5. ASSUME NEW g \in Fingerprints \ overtaken', g # f, NEW s \in Traced(g)'
        PROVE  Remembered(g, s)'
    <3>1. Remembered(g, s)
      BY <2>3, <2>5 DEF AlertsOK, Growing
    <3> QED BY <2>1, <2>2, <3>1 DEF Remembered, Store!Active
  <2>6. ASSUME NEW v \in Queue!Busy \ {w}, job'[v].fingerprint \notin overtaken'
        PROVE  Traced(job[v].fingerprint)' \subseteq Expected(v)'
    <3>1. /\ job[v].fingerprint \in Fingerprints \ {f} /\ v \in Workers
          /\ job'[v] = job[v] /\ stage'[v] = stage[v]
      BY <2>0, <2>1, <2>2, <2>6 DEF SoundInv, Inv, Holders, Queue!Job, Queue!Busy
    <3>2. Traced(job[v].fingerprint) \subseteq Expected(v)
      BY <2>6, <3>1 DEF AlertsOK, Growing
    <3>3. Traced(job[v].fingerprint)' = Traced(job[v].fingerprint)
      BY <2>1, <2>2, <3>1 DEF Traced, Astray
    <3> QED BY <3>1, <3>2, <3>3 DEF Expected
  <2>7. ASSUME NEW m \in answered'
        PROVE  /\ m \in Minions /\ resolving'[m] # None
               /\ resolving'[m] \notin overtaken' => Traced(resolving[m])' = {}
    <3>1. /\ m \in Minions /\ resolving[m] # None
          /\ resolving[m] \notin overtaken => Traced(resolving[m]) = {}
      BY <2>1, <2>7 DEF AlertsOK
    <3>2. resolving[m] \in Fingerprints \ {f}
      BY <2>1, <3>1 DEF SoundInv, Inv, ResolvedUndisturbed
    <3>3. Traced(resolving[m])' = Traced(resolving[m])
      BY <2>1, <2>2, <3>2 DEF Traced, Astray
    <3> QED BY <2>1, <3>1, <3>3 DEF Growing
  <2>8. ASSUME w \in Queue!Busy', job'[w].fingerprint \notin overtaken'
        PROVE  Traced(job[w].fingerprint)' \subseteq Expected(w)'
    <3>1. job'[w].fingerprint = f
      BY <2>0, <2>1
    <3>2. Traced(job[w].fingerprint)' = Traced(f)'
      BY <3>1 DEF Traced, Astray
    <3> QED BY <2>4, <2>8, <3>1, <3>2
  <2> QED BY <2>1, <2>2, <2>4, <2>5, <2>6, <2>7, <2>8 DEF AlertsOK
<1>3. CASE ApplyStray
  <2>1. PICK r \in stray :
           alerts' = [alerts EXCEPT ![r.incident] =
                         IF r.firing THEN @ \cup {r.severity} ELSE @ \ {r.severity}]
    BY <1>3 DEF ApplyStray
  <2>2. /\ UNCHANGED <<rows, stray, stage, pc, job, resolving, answered>>
        /\ r \in Requests
    BY <1>3 DEF ApplyStray, storeVars, queueVars, pollVars, StrayOK
  <2>3. r.incident \in Fingerprints /\ (r.firing => r.severity \in Severities)
    BY <2>2 DEF Requests
  <2>4. /\ \A g \in Fingerprints \ {r.incident} : alerts'[g] = alerts[g]
        /\ alerts'[r.incident] = IF r.firing THEN alerts[r.incident] \cup {r.severity}
                                 ELSE alerts[r.incident] \ {r.severity}
        /\ alerts' \in [Fingerprints -> SUBSET Severities]
    BY <2>1, <2>3 DEF AlertsOK
  <2>5. r.firing => r.severity \in Astray(r.incident)
    BY <2>1 DEF Astray
  <2>6. \A g \in Fingerprints : Traced(g)' \subseteq Traced(g)
    BY <2>2, <2>4, <2>5 DEF Traced, Astray
  <2> QED BY <2>2, <2>4, <2>6, FewerKeepAlerts
<1> QED BY <1>1, <1>2, <1>3 DEF AlertmanagerStep

(* Whatever a poll task closes does not fire: nothing was told, or the     *)
(* resolution has been applied.                                            *)
LEMMA PollTasksKeepAlerts ==
    ASSUME SoundInv, Inv', AlertsOK, Growing, NEW m \in Minions, PollTaskStep(m)
    PROVE  AlertsOK'
<1>0. Inv /\ StoreOK /\ QueueOK
  BY DEF SoundInv, Inv
<1>1. UNCHANGED <<alerts, stage>>
  BY UnansweredProps DEF PollTaskStep, Poll, PollStep, ResolveNext, ResolutionReturns,
     ResolutionEnds, EnqueueNext, PollEnds
<1>2. KeepsJobs({})
  <2>1. \/ UNCHANGED queueVars \/ \E f : Queue!Cancel(f)
        \/ \E f, s, work : Queue!Enqueue(f, s, work)
    BY UnansweredProps DEF PollTaskStep, Poll, PollStep, ResolveNext, ResolutionReturns,
       ResolutionEnds, EnqueueNext, PollEnds
  <2> QED BY <1>0, <2>1, QueueKeepsJobs
<1>3. ASSUME rows' = rows PROVE FiringRowsStay
  BY <1>3 DEF FiringRowsStay, Store!Active
<1>4. ASSUME NEW f \in Fingerprints, Store!MarkResolved(f),
             f \notin overtaken => Traced(f) = {}
      PROVE  FiringRowsStay
  <2>1. KeptBut({}) /\ StaysOpen({f})
    BY <1>0, <1>4, WritesKeepRows, ResolvedProps DEF StoreOK
  <2> QED BY <1>4, <2>1, StaysFiring DEF Growing
<1>5. CASE Poll(m)
  <2>1. KeptBut({}) /\ StaysOpen({})
    BY <1>0, <1>5, PollSees, ReconcileIsSound, ReconcileProps
  <2>2. FiringRowsStay /\ UNCHANGED <<resolving, answered>>
    BY <1>5, <2>1, StaysFiring DEF Poll, pollVars, Growing
  <2> QED BY <1>1, <1>2, <2>2, QuietStepsKeepAlerts
<1>6. CASE ResolveNext(m)
  <2>1. PICK f \in DOMAIN changes[m].resolved :
           \/ rows' = rows /\ (resolving' = resolving
                               \/ resolving' = [resolving EXCEPT ![m] = f])
           \/ /\ ~OnlyInFlight(f) /\ changes[m].resolved[f] = None
              /\ Store!MarkResolved(f) /\ resolving' = resolving
    BY <1>6 DEF ResolveNext, CloseSilently, storeVars
  <2>2. /\ f \in Fingerprints
        /\ f \notin overtaken => changes[m].resolved[f] = rows[f].emitted
        /\ resolving[m] = None /\ answered' = answered
    <3>1. f \in Fingerprints
      BY <1>0, <2>1, ChangesAreOfMinion DEF Store!IncidentsOf
    <3>2. SoundWorkOf(m)
      BY DEF SoundInv
    <3> QED BY <1>6, <2>1, <3>1, <3>2 DEF SoundWorkOf, ResolveNext
  <2>3. FiringRowsStay
    <3>1. CASE rows' = rows
      BY <1>3, <3>1
    <3>2. CASE ~OnlyInFlight(f) /\ changes[m].resolved[f] = None /\ Store!MarkResolved(f)
      <4>1. f \notin inFlight
        BY <3>2 DEF OnlyInFlight, SoundInv, Inv, Holders
      <4>2. f \notin overtaken => Traced(f) = {}
        BY <1>0, <2>2, <3>2, <4>1, OnlyTheRow, NoneIsNoRow DEF SoundInv, NoneIsNoRow
      <4> QED BY <1>4, <2>2, <3>2, <4>2
    <3> QED BY <2>1, <3>1, <3>2
  <2>4. \A n \in answered' : resolving'[n] = resolving[n]
    BY <1>0, <2>1, <2>2 DEF Inv, AlertsOK
  <2> QED BY <1>1, <1>2, <2>2, <2>3, <2>4, QuietStepsKeepAlerts
<1>7. CASE ResolutionReturns(m) \/ Unanswered(m)
  <2>1. /\ resolving[m] # None
        /\ \/ UNCHANGED <<resolving, answered>>
           \/ /\ answered' = answered \ {m}
              /\ resolving' = [resolving EXCEPT ![m] = None]
        /\ \/ rows' = rows
           \/ m \in answered /\ Store!MarkResolved(resolving[m])
    BY <1>7, UnansweredProps DEF ResolutionReturns, ResolutionEnds, pollVars
  <2>2. FiringRowsStay
    <3>1. resolving[m] \in Fingerprints
      BY <1>0, <2>1 DEF Inv
    <3> QED BY <1>3, <1>4, <2>1, <3>1 DEF AlertsOK
  <2>3. answered' \subseteq answered /\ \A n \in answered' : resolving'[n] = resolving[n]
    BY <1>0, <2>1 DEF Inv, AlertsOK
  <2> QED BY <1>1, <1>2, <2>2, <2>3, QuietStepsKeepAlerts
<1>8. CASE EnqueueNext(m) \/ PollEnds(m)
  <2>1. FiringRowsStay /\ UNCHANGED <<resolving, answered>>
    BY <1>3, <1>8 DEF EnqueueNext, PollEnds, storeVars, pollVars
  <2> QED BY <1>1, <1>2, <2>1, QuietStepsKeepAlerts
<1> QED BY <1>5, <1>6, <1>7, <1>8 DEF PollTaskStep, PollStep

(* A dead process has nothing on the way that Alertmanager could apply     *)
(* unnoticed, but for what is astray.                                      *)
LEMMA CrashKeepsAlerts ==
    ASSUME SoundInv, AlertsOK, NoneCancelled, Growing, Crash
    PROVE  AlertsOK'
<1>1. UNCHANGED <<rows, alerts>> /\ answered' = {} /\ Queue!Busy' = {}
  BY DEF Crash, Queue!Busy
<1>2. ASSUME NEW f \in Fingerprints \ overtaken', NEW s \in Traced(f)'
      PROVE  Remembered(f, s)'
  <2>1. s \in Traced(f) /\ f \notin overtaken
    BY <1>1, <1>2 DEF Traced, Astray, Growing
  <2>2. ASSUME NEW w \in Workers, stage[w] = "sent", job[w].fingerprint = f,
               job[w].payload.severity = s
        PROVE  FALSE
    <3>1. DeliveryOf(w) \in stray'
      BY <2>2 DEF Crash
    <3>2. s \in Astray(f)'
      BY <2>2, <3>1, StrandedIsAstray DEF SoundInv
    <3> QED BY <1>2, <3>2 DEF Traced
  <2>3. Store!Active(f) /\ rows[f].emitted = s
    BY <2>1, <2>2 DEF AlertsOK, Remembered
  <2> QED BY <1>1, <2>3 DEF Remembered, Store!Active
<1> QED BY <1>1, <1>2 DEF AlertsOK

LEMMA NextKeepsAlerts ==
    ASSUME SoundInv, AlertsOK, NoneCancelled, DeliveryStep
    PROVE  AlertsOK'
<1>0. /\ Inv /\ Inv' /\ StoreOK /\ QueueOK /\ StrayOK /\ [Next]_vars
      /\ Growing
  BY NextKeepsInv, NextKeepsStray DEF SoundInv, Inv, DeliveryStep, Growing
<1>1. ASSUME \/ UNCHANGED queueVars \/ Queue!Start
             \/ \E w \in Workers : Queue!Take(w) \/ Queue!Sleep(w),
             UNCHANGED <<alerts, stage>>, answered' \subseteq answered,
             \A m \in answered' : resolving'[m] = resolving[m],
             rows' = rows \/ \E f \in Fingerprints : CooldownElapses(f)
      PROVE  AlertsOK'
  <2>1. KeepsJobs({})
    BY <1>0, <1>1, QueueKeepsJobs
  <2>2. FiringRowsStay
    <3>1. CASE rows' = rows
      BY <3>1 DEF FiringRowsStay, Store!Active
    <3>2. ASSUME NEW f \in Fingerprints, CooldownElapses(f) PROVE FiringRowsStay
      <4>1. KeptBut({}) /\ StaysOpen({})
        BY <1>0, <3>2, WritesKeepRows, CoolingProps DEF CooldownElapses
      <4> QED BY <1>0, <4>1, StaysFiring DEF Growing
    <3> QED BY <1>1, <3>1, <3>2
  <2> QED BY <1>0, <1>1, <2>1, <2>2, QuietStepsKeepAlerts
<1>2. CASE UNCHANGED vars \/ Start \/ PollTimeout
           \/ \E f \in Fingerprints : Alter(f) \/ CooldownElapses(f)
  BY <1>1, <1>2 DEF vars, Start, PollTimeout, Alter, CooldownElapses, storeVars,
                    pollVars
<1>3. CASE Crash
  BY <1>0, <1>3, CrashKeepsAlerts
<1>4. CASE AlertmanagerStep
  BY <1>0, <1>4, AlertmanagerKeepsAlerts
<1>5. ASSUME NEW m \in Minions, PollTaskStep(m) PROVE AlertsOK'
  BY <1>0, <1>5, PollTasksKeepAlerts
<1>6. ASSUME NEW w \in Workers, WorkerTaskStep(w) PROVE AlertsOK'
  <2>1. CASE Take(w) \/ Sleep(w)
    BY <1>1, <2>1 DEF Take, Sleep, storeVars, pollVars
  <2>2. CASE AlertReturns(w)
    BY <1>0, <2>2, AnswersKeepAlerts
  <2>3. CASE GivenUp(w)
    BY <1>0, <2>3, GivenUpKeepsAlerts
  <2> QED BY <1>0, <1>6, <2>1, <2>2, <2>3, HandlersKeepAlerts
          DEF WorkerTaskStep, HandlerStep
<1> QED BY <1>0, <1>2, <1>3, <1>4, <1>5, <1>6
        DEF Next, PollTaskStep, WorkerTaskStep, Unanswered, GivenUp

(* Of an incident nobody was told about behind the back of a waiting poll  *)
(* task nothing fires but what its open row remembers, or a request not    *)
(* acknowledged yet: what the row says suffices to resolve it, whatever    *)
(* was cancelled, failed, restarted or answered late, and however many     *)
(* incidents share its minion (_process_firing_investigation(),            *)
(* process_minion_anomalies()).                                            *)
THEOREM FiringIsRemembered == DeliverySpec => []AlertsAreRemembered
<1> DEFINE Told == SoundInv /\ AlertsOK /\ NoneCancelled
<1>1. DeliveryInit => Told
  <2> SUFFICES ASSUME DeliveryInit PROVE Told
    OBVIOUS
  <2>1. Init /\ SoundInv /\ Queue!Busy = {} /\ NoneCancelled
    BY InitSound DEF DeliveryInit, Init, Queue!QueueInit, Queue!Busy, NoneCancelled
  <2>2. \A f \in Fingerprints : Traced(f) = {}
    BY <2>1 DEF Init, Traced
  <2> QED BY <2>1, <2>2 DEF Init, AlertsOK
<1>2. Told /\ [DeliveryNext]_deliveryVars => Told'
  <2> SUFFICES ASSUME Told, [DeliveryNext]_deliveryVars PROVE Told'
    OBVIOUS
  <2>1. DeliveryStep /\ [Next]_vars
    BY StepProps DEF SoundInv, DeliveryStep
  <2> QED BY <2>1, NextKeepsSound, NextKeepsAlerts, NextCancelsNone DEF SoundInv
<1>3. Told => AlertsAreRemembered
  <2> SUFFICES ASSUME AlertsOK, NEW f \in Fingerprints \ overtaken, NEW s \in alerts[f]
               PROVE  s \in Sent(f) \cup Astray(f)
                            \cup (IF Store!Active(f) THEN {rows[f].emitted} ELSE {})
    BY DEF AlertsAreRemembered
  <2>1. CASE s \in Astray(f)
    BY <2>1
  <2>2. CASE s \notin Astray(f)
    <3>1. Remembered(f, s)
      BY <2>2 DEF AlertsOK, Traced
    <3> QED BY <3>1 DEF Remembered, Sent
  <2> QED BY <2>1, <2>2
<1> QED BY <1>1, <1>2, <1>3, PTL DEF DeliverySpec
=============================================================================
