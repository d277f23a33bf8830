----------------------- MODULE IncidentLifecycleProofs -----------------------
(***************************************************************************)
(* Theorems about the path of an incident through the agent, for any       *)
(* incidents, minions, workers, bounds and faults.                         *)
(***************************************************************************)
EXTENDS IncidentLifecycle, TLAPS

(* Incident f is open, in the generation that began at starts_at.          *)
Open(f, starts_at) == Store!Active(f) /\ rows[f].starts_at = starts_at

(* A step of the store leaves every open incident other than those of Gone *)
(* open.                                                                   *)
StaysOpen(Gone) ==
    \A f \in Fingerprints \ Gone :
        Store!Active(f) => /\ Store!Active(f)'
                           /\ rows'[f].starts_at = rows[f].starts_at

StoreOK == Store!StoreTypeOK /\ DOMAIN changes = Minions

-----------------------------------------------------------------------------
(* The store.                                                              *)

LEMMA PresentProps ==
    ASSUME Store!StoreTypeOK, NEW f \in Fingerprints
    PROVE  /\ Store!Present(f) \in Store!Row
           /\ Store!Present(f).status = "active"
           /\ Store!Active(f) => Store!Present(f).starts_at = rows[f].starts_at
<1>1. CASE Store!Active(f)
  BY <1>1, LifecycleAssumption
     DEF LifecycleAssumption, Store!Present, Store!Active, Store!StoreTypeOK,
         Store!Row
<1>2. CASE ~Store!Active(f)
  <2>1. Store!Present(f) = Store!Opened(f)
    BY <1>2 DEF Store!Present
  <2>2. CASE rows[f] = None
    BY <1>2, <2>1, <2>2, LifecycleAssumption
       DEF LifecycleAssumption, Store!Opened, Store!Row
  <2>3. CASE rows[f] # None
    <3>1. rows[f].starts_at \in 0..(Generations - 1)
      BY <2>3 DEF Store!StoreTypeOK, Store!Row
    <3>2. (rows[f].starts_at + 1) % Generations \in 0..(Generations - 1)
      BY <3>1, LifecycleAssumption DEF LifecycleAssumption
    <3> QED BY <1>2, <2>1, <2>3, <3>2, LifecycleAssumption
            DEF LifecycleAssumption, Store!Opened, Store!Row
  <2> QED BY <2>2, <2>3
<1> QED BY <1>1, <1>2

LEMMA MissedProps ==
    ASSUME Store!StoreTypeOK, NEW f \in Fingerprints, Store!Active(f)
    PROVE  /\ Store!Missed(f) \in Store!Row
           /\ Store!Missed(f).status = "active"
           /\ Store!Missed(f).starts_at = rows[f].starts_at
<1>1. rows[f] \in Store!Row /\ rows[f].status = "active"
  BY DEF Store!StoreTypeOK, Store!Active
<1> QED BY <1>1, LifecycleAssumption
        DEF LifecycleAssumption, Store!Missed, Store!Row

(* What reconcile() returns is about its own minion, no incident is both   *)
(* firing and resolved, and whatever it calls firing is open.              *)
LEMMA ReconcileProps ==
    ASSUME StoreOK, NEW m \in Minions, NEW seen,
           DOMAIN seen \subseteq Store!IncidentsOf(m),
           \A f \in DOMAIN seen : seen[f] \in Severities,
           Store!Reconcile(m, seen)
    PROVE  /\ StoreOK' /\ StaysOpen({})
           /\ \A n \in Minions \ {m} : changes'[n] = changes[n]
           /\ DOMAIN changes'[m].firing \cap DOMAIN changes'[m].resolved = {}
           /\ \A f \in DOMAIN changes'[m].firing :
                 Open(f, changes[m].firing[f].starts_at)'
<1> DEFINE gone == Store!ActiveOf(m) \ DOMAIN seen
           due  == {g \in DOMAIN seen : Store!Due(g, seen[g])}
           over == {g \in gone : Store!Missed(g).absent >= ResolveAfter}
<1>1. /\ DOMAIN rows' = Fingerprints
      /\ \A f \in Fingerprints :
            rows'[f] = IF f \in DOMAIN seen THEN Store!Present(f)
                       ELSE IF f \in gone THEN Store!Missed(f) ELSE rows[f]
  BY DEF Store!Reconcile
<1>2. /\ DOMAIN changes' = Minions
      /\ \A n \in Minions \ {m} : changes'[n] = changes[n]
      /\ changes'[m] = [firing   |-> [f \in due |-> Store!Firing(f, seen[f])],
                        resolved |-> [f \in over |-> rows[f].emitted]]
  BY DEF Store!Reconcile, StoreOK
<1>3. /\ due \subseteq Store!IncidentsOf(m) /\ over \subseteq Store!IncidentsOf(m)
      /\ due \cap over = {}
      /\ due \subseteq DOMAIN seen /\ over \subseteq gone
  BY DEF Store!ActiveOf
<1>4. /\ \A f \in gone : f \in Fingerprints /\ Store!Active(f)
      /\ \A f \in DOMAIN seen : f \in Fingerprints
  BY DEF Store!ActiveOf, Store!IncidentsOf
<1> HIDE DEF gone, due, over
<1>5. \A f \in Fingerprints :
         /\ rows'[f] \in Store!Row \cup {None}
         /\ Store!Active(f) => /\ rows'[f] \in Store!Row
                               /\ rows'[f].status = "active"
                               /\ rows'[f].starts_at = rows[f].starts_at
  <2> SUFFICES ASSUME NEW f \in Fingerprints
               PROVE  /\ rows'[f] \in Store!Row \cup {None}
                      /\ Store!Active(f) =>
                            /\ rows'[f] \in Store!Row
                            /\ rows'[f].status = "active"
                            /\ rows'[f].starts_at = rows[f].starts_at
    OBVIOUS
  <2>1. CASE f \in DOMAIN seen
    BY <1>1, <2>1, PresentProps DEF StoreOK
  <2>2. CASE f \notin DOMAIN seen /\ f \in gone
    BY <1>1, <1>4, <2>2, MissedProps DEF StoreOK
  <2>3. CASE f \notin DOMAIN seen /\ f \notin gone
    BY <1>1, <2>3 DEF StoreOK, Store!StoreTypeOK, Store!Active
  <2> QED BY <2>1, <2>2, <2>3
<1>6. StaysOpen({})
  BY <1>5, NoneIsNoRow DEF StaysOpen, Open, Store!Active, NoneIsNoRow
<1>7. \A f \in due : /\ Store!Firing(f, seen[f]) \in Store!Work
                     /\ Store!Firing(f, seen[f]).starts_at = Store!Present(f).starts_at
  BY <1>3, <1>4, PresentProps DEF StoreOK, Store!Firing, Store!Work, Store!Row
<1>8. \A f \in over : rows[f].emitted \in Severities \cup {None}
  BY <1>3, <1>4 DEF StoreOK, Store!StoreTypeOK, Store!Active, Store!Row
<1>9. changes'[m] \in Store!Changes(m)
  BY <1>2, <1>3, <1>7, <1>8 DEF Store!Changes
<1>10. StoreOK'
  <2>1. rows' \in [Fingerprints -> Store!Row \cup {None}]
    BY <1>1, <1>5 DEF Store!Reconcile
  <2>2. \A n \in Minions : changes'[n] \in Store!Changes(n)
    BY <1>2, <1>9 DEF StoreOK, Store!StoreTypeOK
  <2> QED BY <1>2, <2>1, <2>2
          DEF StoreOK, Store!StoreTypeOK, Store!Changes, Store!Row, Store!Work,
              Store!IncidentsOf
<1>11. \A f \in DOMAIN changes'[m].firing :
          Open(f, changes[m].firing[f].starts_at)'
  <2> SUFFICES ASSUME NEW f \in due
               PROVE  Open(f, changes[m].firing[f].starts_at)'
    BY <1>2
  <2>1. /\ rows'[f] = Store!Present(f)
        /\ changes'[m].firing[f].starts_at = Store!Present(f).starts_at
    BY <1>1, <1>2, <1>3, <1>4, <1>7
  <2>2. Store!Present(f) \in Store!Row /\ Store!Present(f).status = "active"
    BY <1>3, <1>4, PresentProps DEF StoreOK
  <2> QED BY <2>1, <2>2, NoneIsNoRow DEF Open, Store!Active, NoneIsNoRow
<1> QED BY <1>2, <1>3, <1>6, <1>10, <1>11

(* The calls that write one row.                                           *)
LEMMA EmittedProps ==
    ASSUME StoreOK, NEW f \in Fingerprints, NEW severity \in Severities,
           NEW starts_at, Store!MarkEmitted(f, severity, starts_at),
           UNCHANGED changes
    PROVE  StoreOK' /\ StaysOpen({})
<1>1. CASE Store!Active(f) /\ rows[f].starts_at = starts_at
  <2> DEFINE row == [rows[f] EXCEPT !.emitted = severity, !.cooling = TRUE]
  <2>1. rows[f] \in Store!Row
    BY <1>1 DEF StoreOK, Store!StoreTypeOK, Store!Active
  <2>2. /\ row \in Store!Row /\ row.status = rows[f].status
        /\ row.starts_at = rows[f].starts_at
    BY <2>1 DEF Store!Row
  <2>3. rows' = [rows EXCEPT ![f] = row]
    BY <1>1 DEF Store!MarkEmitted, StoreOK, Store!StoreTypeOK
  <2> HIDE DEF row
  <2>4. rows' \in [Fingerprints -> Store!Row \cup {None}]
    BY <2>2, <2>3 DEF StoreOK, Store!StoreTypeOK
  <2>5. StaysOpen({})
    BY <1>1, <2>2, <2>3, NoneIsNoRow
       DEF StoreOK, Store!StoreTypeOK, StaysOpen, Open, Store!Active, NoneIsNoRow
  <2> QED BY <2>4, <2>5
          DEF StoreOK, Store!StoreTypeOK, Store!Changes, Store!Row, Store!Work,
              Store!IncidentsOf
<1>2. CASE ~(Store!Active(f) /\ rows[f].starts_at = starts_at)
  <2>1. rows' = rows
    BY <1>2 DEF Store!MarkEmitted
  <2> QED BY <2>1
          DEF StoreOK, Store!StoreTypeOK, Store!Changes, Store!Row, Store!Work,
              Store!IncidentsOf, StaysOpen, Open, Store!Active
<1> QED BY <1>1, <1>2

LEMMA ResolvedProps ==
    ASSUME Store!StoreTypeOK, NEW f \in Fingerprints, Store!MarkResolved(f)
    PROVE  /\ rows' \in [Fingerprints -> Store!Row \cup {None}]
           /\ StaysOpen({f})
<1>1. CASE Store!Active(f)
  <2> DEFINE row == [rows[f] EXCEPT !.status = "resolved"]
  <2>1. rows[f] \in Store!Row
    BY <1>1 DEF Store!StoreTypeOK, Store!Active
  <2>2. row \in Store!Row
    BY <2>1 DEF Store!Row
  <2>3. rows' = [rows EXCEPT ![f] = row]
    BY <1>1 DEF Store!MarkResolved, Store!StoreTypeOK
  <2> HIDE DEF row
  <2> QED BY <2>2, <2>3 DEF Store!StoreTypeOK, StaysOpen, Open, Store!Active
<1>2. CASE ~Store!Active(f)
  BY <1>2 DEF Store!MarkResolved, Store!StoreTypeOK, StaysOpen, Open, Store!Active
<1> QED BY <1>1, <1>2

LEMMA CoolingProps ==
    ASSUME StoreOK, NEW f \in Fingerprints, Store!CooldownElapses(f),
           UNCHANGED changes
    PROVE  StoreOK' /\ StaysOpen({})
<1> DEFINE row == [rows[f] EXCEPT !.cooling = FALSE]
<1>1. rows[f] \in Store!Row
  BY DEF StoreOK, Store!StoreTypeOK, Store!CooldownElapses
<1>2. /\ row \in Store!Row /\ row.status = rows[f].status
      /\ row.starts_at = rows[f].starts_at
  BY <1>1 DEF Store!Row
<1>3. rows' = [rows EXCEPT ![f] = row]
  BY DEF Store!CooldownElapses, StoreOK, Store!StoreTypeOK
<1> HIDE DEF row
<1>4. rows' \in [Fingerprints -> Store!Row \cup {None}]
  BY <1>2, <1>3 DEF StoreOK, Store!StoreTypeOK
<1>5. StaysOpen({})
  BY <1>1, <1>2, <1>3, NoneIsNoRow
     DEF StoreOK, Store!StoreTypeOK, StaysOpen, Open, Store!Active, NoneIsNoRow
<1> QED BY <1>4, <1>5
        DEF StoreOK, Store!StoreTypeOK, Store!Changes, Store!Row, Store!Work,
            Store!IncidentsOf

-----------------------------------------------------------------------------
(* The queue.                                                              *)

PC == {"off", "ready", "waiting", "running", "cancelled", "done"}

(* The variables of the queue that carry jobs.                             *)
QueueOK ==
    /\ Queue!pending \subseteq Fingerprints
    /\ heap \in [Queue!pending -> Queue!Item]
    /\ inFlight \subseteq Fingerprints
    /\ pc \in [Workers -> PC]
    /\ job \in [Workers -> Queue!Job \cup {None}]

(* Each busy worker has a job of its own, which is in flight and not       *)
(* pending.                                                                *)
Holders ==
    /\ \A w \in Queue!Busy : job[w] \in Queue!Job /\ job[w].fingerprint \in inFlight
    /\ \A w, v \in Queue!Busy : job[w].fingerprint = job[v].fingerprint => w = v
    /\ Queue!pending \cap inFlight = {}

(* The jobs after a step are jobs from before it, but for those of New.    *)
NoJobsBut(New) ==
    /\ \A f \in Queue!pending' \ New :
          f \in Queue!pending /\ heap'[f].payload = heap[f].payload
    /\ \A w \in Queue!Busy' :
          \/ w \in Queue!Busy /\ job'[w] = job[w]
          \/ /\ job'[w].fingerprint \in Queue!pending
             /\ job'[w].payload = heap[job'[w].fingerprint].payload

LEMMA NotifyProps ==
    ASSUME QueueOK, Queue!NotifyOne
    PROVE  pc' \in [Workers -> PC] /\ Queue!Busy' = Queue!Busy
BY DEF QueueOK, PC, Queue!NotifyOne, Queue!Waiting, Queue!Busy

LEMMA WokenProps ==
    ASSUME QueueOK
    PROVE  /\ Queue!Woken \in [Workers -> PC]
           /\ \A w \in Workers : Queue!Woken[w] \in {"running", "cancelled"}
                                   <=> pc[w] \in {"running", "cancelled"}
BY DEF QueueOK, PC, Queue!Woken

LEMMA WithoutProps ==
    ASSUME QueueOK, NEW f
    PROVE  /\ Queue!Without(heap, f) \in [Queue!pending \ {f} -> Queue!Item]
           /\ DOMAIN Queue!Without(heap, f) = Queue!pending \ {f}
           /\ \A g \in Queue!pending \ {f} :
                 Queue!Without(heap, f)[g].payload = heap[g].payload
BY DEF QueueOK, Queue!pending, Queue!Without, Queue!Item

LEMMA CancelProps ==
    ASSUME QueueOK, Holders, NEW f \in Fingerprints, Queue!Cancel(f)
    PROVE  /\ QueueOK' /\ Holders' /\ NoJobsBut({})
           /\ f \notin Queue!pending' /\ inFlight' = inFlight
<1>1. /\ Queue!pending' = Queue!pending \ {f}
      /\ heap' \in [Queue!pending' -> Queue!Item]
      /\ \A g \in Queue!pending' : heap'[g].payload = heap[g].payload
  <2>1. heap' = Queue!Without(heap, f)
    BY DEF Queue!Cancel
  <2>2. Queue!pending' = Queue!pending \ {f}
    BY <2>1, WithoutProps DEF Queue!pending
  <2> QED BY <2>1, <2>2, WithoutProps
<1>2. pc' \in [Workers -> PC] /\ Queue!Busy' = Queue!Busy
  BY WokenProps DEF Queue!Cancel, QueueOK, Queue!Busy
<1>3. inFlight' = inFlight /\ job' = job
  BY DEF Queue!Cancel
<1>4. QueueOK'
  BY <1>1, <1>2, <1>3 DEF QueueOK, Queue!Item, Queue!Job
<1>5. Holders' /\ NoJobsBut({})
  BY <1>1, <1>2, <1>3 DEF Holders, NoJobsBut, Queue!Job
<1> QED BY <1>1, <1>3, <1>4, <1>5

LEMMA PriorityType ==
    ASSUME NEW s PROVE Queue!priority_for_severity(s) \in 0..3
BY DEF Queue!priority_for_severity

(* enqueue() in the four ways it goes.                                     *)
LEMMA EnqueueProps ==
    ASSUME QueueOK, Holders, NEW f \in Fingerprints, NEW s,
           NEW work \in Store!Work, Queue!Enqueue(f, s, work)
    PROVE  /\ QueueOK' /\ Holders' /\ NoJobsBut({f})
           /\ f \in Queue!pending' =>
                 \/ heap'[f].payload = work
                 \/ f \in Queue!pending /\ heap'[f].payload = heap[f].payload
           /\ Queue!pending' \subseteq Queue!pending \cup {f}
           /\ inFlight' = inFlight
<1> DEFINE p == Queue!priority_for_severity(s)
<1>1. p \in 0..3
  BY PriorityType
<1> HIDE DEF p
<1>2. \/ Queue!Refuse(f, p) \/ Queue!Coalesce(f, p, work)
      \/ Queue!Push(f, p, work) \/ Queue!Evict(f, p, work)
  BY DEF Queue!Enqueue, p
<1>3. CASE Queue!Refuse(f, p)
  BY <1>3 DEF Queue!Refuse, Queue!queueVars, QueueOK, Holders, NoJobsBut,
              Queue!pending, Queue!Busy, Queue!Item, Queue!Job
<1>4. ASSUME Queue!NotifyOne, f \notin inFlight, UNCHANGED <<inFlight, job>>,
             Queue!pending' \subseteq Queue!pending \cup {f},
             heap' \in [Queue!pending' -> Queue!Item],
             \A g \in Queue!pending' \ {f} : heap'[g].payload = heap[g].payload,
             heap'[f].payload = work
      PROVE  QueueOK' /\ Holders' /\ NoJobsBut({f})
  <2>1. pc' \in [Workers -> PC] /\ Queue!Busy' = Queue!Busy
    BY <1>4, NotifyProps
  <2>2. QueueOK'
    BY <1>4, <2>1 DEF QueueOK, Queue!Item, Queue!Job
  <2>3. Holders' /\ NoJobsBut({f})
    BY <1>4, <2>1 DEF Holders, NoJobsBut, Queue!Job
  <2> QED BY <2>2, <2>3
<1>5. CASE Queue!Coalesce(f, p, work)
  <2> DEFINE urgent == IF p < heap[f].priority THEN p ELSE heap[f].priority
  <2>1. /\ heap' = [heap EXCEPT ![f].priority = urgent, ![f].payload = work]
        /\ f \in Queue!pending /\ f \notin inFlight
        /\ Queue!NotifyOne /\ UNCHANGED <<inFlight, job>>
    BY <1>5 DEF Queue!Coalesce, Queue!Acceptable
  <2>2. /\ heap[f] \in Queue!Item /\ urgent \in 0..3
        /\ heap \in [Queue!pending -> Queue!Item]
    BY <1>1, <2>1 DEF QueueOK, Queue!Item
  <2> HIDE DEF urgent
  <2>3. /\ Queue!pending' = Queue!pending
        /\ heap' \in [Queue!pending -> Queue!Item]
        /\ heap'[f].payload = work
        /\ \A g \in Queue!pending \ {f} : heap'[g] = heap[g]
    BY <2>1, <2>2 DEF Queue!pending, Queue!Item
  <2> QED BY <1>4, <2>1, <2>3
<1>6. CASE Queue!Push(f, p, work)
  <2> DEFINE item == Queue!NewItem(heap, p, work)
  <2>1. /\ heap' = Queue!With(heap, f, item)
        /\ f \notin inFlight /\ Queue!NotifyOne /\ UNCHANGED <<inFlight, job>>
    BY <1>6 DEF Queue!Push, Queue!Acceptable
  <2>2. item \in Queue!Item /\ item.payload = work
    BY <1>1 DEF QueueOK, Queue!NewItem, Queue!Item, Queue!pending
  <2> HIDE DEF item
  <2>3. /\ Queue!pending' = Queue!pending \cup {f}
        /\ heap' \in [Queue!pending' -> Queue!Item]
        /\ heap'[f] = item
        /\ \A g \in Queue!pending \ {f} : heap'[g] = heap[g]
    BY <2>1, <2>2 DEF Queue!With, QueueOK, Queue!pending
  <2> QED BY <1>4, <2>1, <2>2, <2>3
<1>7. CASE Queue!Evict(f, p, work)
  <2>1. PICK worst \in Queue!pending :
           heap' = Queue!With(Queue!Without(heap, worst), f,
                      Queue!NewItem(Queue!Without(heap, worst), p, work))
    BY <1>7 DEF Queue!Evict
  <2> DEFINE rest == Queue!Without(heap, worst)
             item == Queue!NewItem(rest, p, work)
  <2>2. /\ rest \in [Queue!pending \ {worst} -> Queue!Item]
        /\ DOMAIN rest = Queue!pending \ {worst}
        /\ \A g \in Queue!pending \ {worst} : rest[g].payload = heap[g].payload
    BY WithoutProps
  <2>3. heap' = Queue!With(rest, f, item)
    BY <2>1
  <2> HIDE DEF rest
  <2>4. item \in Queue!Item /\ item.payload = work
    BY <1>1, <2>2 DEF QueueOK, Queue!NewItem, Queue!Item
  <2> HIDE DEF item
  <2>5. /\ Queue!pending' = (Queue!pending \ {worst}) \cup {f}
        /\ heap' \in [Queue!pending' -> Queue!Item]
        /\ heap'[f] = item
        /\ \A g \in Queue!pending \ {f, worst} : heap'[g] = rest[g]
    BY <2>2, <2>3, <2>4 DEF Queue!With, Queue!pending
  <2>6. f \notin Queue!pending /\ f \notin inFlight /\ Queue!NotifyOne
        /\ UNCHANGED <<inFlight, job>>
    BY <1>7 DEF Queue!Evict, Queue!Acceptable
  <2>7. \A g \in Queue!pending' \ {f} : heap'[g].payload = heap[g].payload
    BY <2>2, <2>5
  <2> QED BY <1>4, <2>2, <2>4, <2>5, <2>6, <2>7
<1> QED BY <1>2, <1>3, <1>5, <1>6, <1>7

LEMMA TakeProps ==
    ASSUME QueueOK, Holders, NEW w \in Workers, Queue!Take(w)
    PROVE  /\ QueueOK' /\ Holders' /\ NoJobsBut({})
           /\ Queue!pending' \cup inFlight' \subseteq Queue!pending \cup inFlight
<1>1. PICK f \in Queue!pending :
         /\ heap' = Queue!Without(heap, f)
         /\ inFlight' = inFlight \cup {f}
         /\ job' = [job EXCEPT ![w] =
                       [fingerprint |-> f, payload |-> heap[f].payload]]
  BY DEF Queue!Take
<1>2. /\ f \in Fingerprints /\ f \notin inFlight /\ w \notin Queue!Busy
      /\ heap[f].payload \in Store!Work
  BY DEF QueueOK, Holders, Queue!Item, Queue!Busy, Queue!Take
<1>3. /\ Queue!pending' = Queue!pending \ {f}
      /\ heap' \in [Queue!pending' -> Queue!Item]
      /\ \A g \in Queue!pending' : heap'[g].payload = heap[g].payload
  <2>1. Queue!pending' = Queue!pending \ {f}
    BY <1>1, WithoutProps DEF Queue!pending
  <2> QED BY <1>1, <2>1, WithoutProps
<1>4. /\ Queue!Busy' = Queue!Busy \cup {w} /\ Queue!Busy \subseteq Workers
      /\ job'[w] \in Queue!Job /\ job'[w].fingerprint = f
      /\ job'[w].payload = heap[f].payload
      /\ \A v \in Workers \ {w} : job'[v] = job[v]
  BY <1>1, <1>2 DEF QueueOK, Queue!Busy, Queue!Take, Queue!Job
<1>5. pc' \in [Workers -> PC] /\ job' \in [Workers -> Queue!Job \cup {None}]
  BY <1>1, <1>2 DEF QueueOK, PC, Queue!Take, Queue!Job
<1>6. QueueOK'
  BY <1>1, <1>2, <1>3, <1>5 DEF QueueOK, Queue!Item, Queue!Job
<1>7. Holders'
  BY <1>1, <1>2, <1>3, <1>4 DEF Holders, Queue!Job
<1>8. NoJobsBut({})
  BY <1>2, <1>3, <1>4 DEF NoJobsBut
<1> QED BY <1>1, <1>3, <1>6, <1>7, <1>8

LEMMA FinishProps ==
    ASSUME QueueOK, Holders, NEW w \in Workers, Queue!Finish(w)
    PROVE  /\ QueueOK' /\ Holders' /\ NoJobsBut({})
           /\ Queue!pending' \cup inFlight' \subseteq Queue!pending \cup inFlight
<1>1. /\ heap' = heap /\ inFlight' = inFlight \ {job[w].fingerprint}
      /\ job' = [job EXCEPT ![w] = None]
  BY DEF Queue!Finish
<1>2. /\ w \in Queue!Busy /\ Queue!Busy \subseteq Workers
      /\ Queue!Busy' = Queue!Busy \ {w} /\ pc' \in [Workers -> PC]
  BY WokenProps DEF QueueOK, PC, Queue!Finish, Queue!Busy
<1>3. Queue!pending' = Queue!pending /\ \A v \in Workers \ {w} : job'[v] = job[v]
  BY <1>1 DEF Queue!pending, QueueOK
<1>4. QueueOK'
  BY <1>1, <1>2, <1>3 DEF QueueOK, Queue!Item, Queue!Job
<1>5. Holders'
  BY <1>1, <1>2, <1>3 DEF Holders, Queue!Job
<1>6. NoJobsBut({})
  BY <1>1, <1>2, <1>3 DEF NoJobsBut
<1> QED BY <1>1, <1>3, <1>4, <1>5, <1>6

(* Starting and falling asleep.                                            *)
LEMMA IdleProps ==
    ASSUME QueueOK, Holders, Queue!Start \/ \E w \in Workers : Queue!Sleep(w)
    PROVE  /\ QueueOK' /\ Holders' /\ NoJobsBut({})
           /\ Queue!pending' \cup inFlight' = Queue!pending \cup inFlight
<1>1. UNCHANGED <<heap, inFlight, job>> /\ Queue!pending' = Queue!pending
  BY DEF Queue!Start, Queue!Sleep, Queue!pending
<1>2. pc' \in [Workers -> PC] /\ Queue!Busy' = Queue!Busy
  <2>1. CASE Queue!Start
    BY <2>1 DEF Queue!Start, Queue!started, QueueOK, PC, Queue!Busy
  <2>2. CASE \E w \in Workers : Queue!Sleep(w)
    BY <2>2 DEF Queue!Sleep, QueueOK, PC, Queue!Busy
  <2> QED BY <2>1, <2>2
<1> QED BY <1>1, <1>2 DEF QueueOK, Holders, NoJobsBut, Queue!Item, Queue!Job

-----------------------------------------------------------------------------
(* The inductive invariant.                                                *)

(* What is still to be queued is open, and is not to be resolved as well.  *)
WorkIsOpen ==
    \A m \in Minions :
        /\ DOMAIN changes[m].firing \cap DOMAIN changes[m].resolved = {}
        /\ \A f \in DOMAIN changes[m].firing :
              Open(f, changes[m].firing[f].starts_at)

(* While a poll task sends a resolution nobody investigates the incident.  *)
ResolvedUndisturbed ==
    \A m \in Minions :
        resolving[m] # None =>
            /\ resolving[m] \in DOMAIN changes[m].resolved
            /\ resolving[m] \notin Queue!pending \cup inFlight

Inv ==
    /\ anomaly \in [Fingerprints -> Severities \cup {None}]
    /\ resolving \in [Minions -> Fingerprints \cup {None}]
    /\ StoreOK /\ QueueOK /\ Holders
    /\ JobsAreOfOpenIncidents
    /\ WorkIsOpen /\ ResolvedUndisturbed

(* What StoreOK and Inv say about the incidents a poll still deals with.   *)
LEMMA ChangesAreOfMinion ==
    ASSUME StoreOK, NEW m \in Minions
    PROVE  /\ DOMAIN changes[m].firing \subseteq Store!IncidentsOf(m)
           /\ DOMAIN changes[m].resolved \subseteq Store!IncidentsOf(m)
           /\ \A f \in DOMAIN changes[m].firing :
                 changes[m].firing[f] \in Store!Work
           /\ \A f \in DOMAIN changes[m].resolved :
                 changes[m].resolved[f] \in Severities \cup {None}
           /\ changes[m] = [firing |-> changes[m].firing,
                            resolved |-> changes[m].resolved]
<1>1. changes[m] \in Store!Changes(m)
  BY DEF StoreOK, Store!StoreTypeOK
<1> QED BY <1>1 DEF Store!Changes

LEMMA HandledProps ==
    ASSUME StoreOK, NEW m \in Minions, NEW f, changes' = Handled(m, f)
    PROVE  /\ DOMAIN changes' = Minions
           /\ \A n \in Minions \ {m} : changes'[n] = changes[n]
           /\ changes'[m].firing = changes[m].firing
           /\ DOMAIN changes'[m].resolved = DOMAIN changes[m].resolved \ {f}
           /\ \A n \in Minions : changes'[n] \in Store!Changes(n)
<1> DEFINE rest == [g \in DOMAIN changes[m].resolved \ {f} |-> changes[m].resolved[g]]
<1>1. changes[m] = [firing |-> changes[m].firing, resolved |-> changes[m].resolved]
  BY ChangesAreOfMinion
<1>2. changes' = [changes EXCEPT ![m].resolved = rest]
  BY DEF Handled
<1>3. rest \in [DOMAIN changes[m].resolved \ {f} -> Severities \cup {None}]
  BY ChangesAreOfMinion
<1> HIDE DEF rest
<1>4. /\ DOMAIN changes' = Minions
      /\ \A n \in Minions \ {m} : changes'[n] = changes[n]
      /\ changes'[m] = [firing |-> changes[m].firing, resolved |-> rest]
  BY <1>1, <1>2 DEF StoreOK
<1>5. changes[m] \in Store!Changes(m)
  BY DEF StoreOK, Store!StoreTypeOK
<1>6. DOMAIN changes[m].resolved \ {f} \in SUBSET Store!IncidentsOf(m)
  BY ChangesAreOfMinion
<1>7. changes'[m] \in Store!Changes(m)
  BY <1>3, <1>4, <1>5, <1>6 DEF Store!Changes
<1> QED BY <1>3, <1>4, <1>7 DEF StoreOK, Store!StoreTypeOK

LEMMA TypedStore ==
    ASSUME rows' \in [Fingerprints -> Store!Row \cup {None}],
           DOMAIN changes' = Minions,
           \A n \in Minions : changes'[n] \in Store!Changes(n)
    PROVE  StoreOK'
BY DEF StoreOK, Store!StoreTypeOK, Store!Changes, Store!Row, Store!Work,
       Store!IncidentsOf

(* The jobs of a step that creates none stay those of open incidents, if   *)
(* the step closes none that has one.                                      *)
LEMMA JobsStayOpen ==
    ASSUME Inv, QueueOK', Holders', NoJobsBut({}), NEW Gone, StaysOpen(Gone),
           \A f \in Gone : f \notin Queue!pending' \cup inFlight'
    PROVE  JobsAreOfOpenIncidents'
<1>1. \A f \in Fingerprints \ Gone :
         Store!Active(f) => Store!Active(f)' /\ rows'[f].starts_at = rows[f].starts_at
  BY DEF StaysOpen
<1>2. ASSUME NEW f \in Queue!pending'
      PROVE  Store!Active(f)' /\ rows'[f].starts_at = heap'[f].payload.starts_at
  <2>1. f \in Queue!pending /\ heap'[f].payload = heap[f].payload
    BY <1>2 DEF NoJobsBut
  <2>2. f \in Fingerprints \ Gone
    BY <1>2, <2>1 DEF Inv, QueueOK
  <2>3. Store!Active(f) /\ rows[f].starts_at = heap[f].payload.starts_at
    BY <2>1 DEF Inv, JobsAreOfOpenIncidents
  <2> QED BY <1>1, <2>1, <2>2, <2>3
<1>3. ASSUME NEW w \in Queue!Busy'
      PROVE  /\ Store!Active(job[w].fingerprint)'
             /\ rows'[job'[w].fingerprint].starts_at = job'[w].payload.starts_at
  <2>1. job'[w].fingerprint \in Fingerprints \ Gone
    BY <1>3 DEF Holders, QueueOK
  <2>2. /\ Store!Active(job'[w].fingerprint)
        /\ rows[job'[w].fingerprint].starts_at = job'[w].payload.starts_at
    BY <1>3 DEF Inv, NoJobsBut, JobsAreOfOpenIncidents
  <2> QED BY <1>1, <2>1, <2>2 DEF Store!Active
<1> QED BY <1>2, <1>3 DEF JobsAreOfOpenIncidents

(* A step outside the poll tasks.                                          *)
LEMMA OutsidePolls ==
    ASSUME Inv, QueueOK', Holders', NoJobsBut({}), StoreOK', StaysOpen({}),
           Queue!pending' \cup inFlight' \subseteq Queue!pending \cup inFlight,
           anomaly' \in [Fingerprints -> Severities \cup {None}],
           UNCHANGED <<changes, resolving>>
    PROVE  Inv'
<1>1. JobsAreOfOpenIncidents'
  BY JobsStayOpen
<1>2. WorkIsOpen'
  <2> SUFFICES ASSUME NEW m \in Minions, NEW f \in DOMAIN changes[m].firing
               PROVE  Open(f, changes[m].firing[f].starts_at)'
    BY DEF Inv, WorkIsOpen
  <2>1. f \in Fingerprints
    BY ChangesAreOfMinion DEF Inv, Store!IncidentsOf
  <2>2. Store!Active(f) /\ rows[f].starts_at = changes[m].firing[f].starts_at
    BY DEF Inv, WorkIsOpen, Open
  <2>3. Store!Active(f)' /\ rows'[f].starts_at = rows[f].starts_at
    BY <2>1, <2>2 DEF StaysOpen
  <2> QED BY <2>2, <2>3 DEF Open
<1>3. ResolvedUndisturbed'
  BY DEF Inv, ResolvedUndisturbed
<1> QED BY <1>1, <1>2, <1>3 DEF Inv

(* A step that writes neither rows nor queue nor poll tasks.               *)
LEMMA NothingMoves ==
    ASSUME Inv, UNCHANGED <<storeVars, heap, inFlight, pc, job, resolving>>,
           anomaly' \in [Fingerprints -> Severities \cup {None}]
    PROVE  Inv'
<1>1. QueueOK' /\ Holders' /\ NoJobsBut({})
  BY DEF Inv, QueueOK, Holders, NoJobsBut, Queue!pending, Queue!Busy,
         Queue!Item, Queue!Job
<1>2. StoreOK' /\ StaysOpen({})
  BY DEF Inv, StoreOK, Store!StoreTypeOK, Store!Changes, Store!Row, Store!Work,
         Store!IncidentsOf, StaysOpen, Store!Active, storeVars
<1>3. UNCHANGED <<changes, resolving>>
      /\ Queue!pending' \cup inFlight' = Queue!pending \cup inFlight
  BY DEF storeVars, Queue!pending
<1> QED BY <1>1, <1>2, <1>3, OutsidePolls

(* A worker moves on in the queue and the rows stay.                       *)
LEMMA QueueMoves ==
    ASSUME Inv, UNCHANGED <<storeVars, resolving, anomaly>>,
           \/ Queue!Start
           \/ \E w \in Workers : Queue!Take(w) \/ Queue!Sleep(w) \/ Queue!Finish(w)
    PROVE  Inv'
<1>1. /\ QueueOK' /\ Holders' /\ NoJobsBut({})
      /\ Queue!pending' \cup inFlight' \subseteq Queue!pending \cup inFlight
  BY TakeProps, FinishProps, IdleProps DEF Inv
<1>2. StoreOK' /\ StaysOpen({})
  BY DEF Inv, StoreOK, Store!StoreTypeOK, Store!Changes, Store!Row, Store!Work,
         Store!IncidentsOf, StaysOpen, Store!Active, storeVars
<1> QED BY <1>1, <1>2, OutsidePolls DEF Inv, storeVars

LEMMA PollKeepsInv ==
    ASSUME Inv, NEW m \in Minions, Poll(m)
    PROVE  Inv'
<1>1. PICK seen : /\ DOMAIN seen \subseteq Store!IncidentsOf(m)
                  /\ \A f \in DOMAIN seen : seen[f] \in Severities
                  /\ Store!Reconcile(m, seen)
  <2>1. \A f \in Observed(m) : /\ f \in Store!IncidentsOf(m)
                               /\ anomaly[f] \in Severities
    BY DEF Observed, Store!IncidentsOf, Inv
  <2>2. CASE Store!Reconcile(m, [f \in Observed(m) |-> anomaly[f]])
    BY <2>1, <2>2
  <2>3. CASE Store!Reconcile(m, [f \in Observed(m) \ SaltChecks |-> anomaly[f]])
    BY <2>1, <2>3
  <2> QED BY <2>2, <2>3 DEF Poll
<1>2. /\ StoreOK' /\ StaysOpen({})
      /\ \A n \in Minions \ {m} : changes'[n] = changes[n]
      /\ DOMAIN changes'[m].firing \cap DOMAIN changes'[m].resolved = {}
      /\ \A f \in DOMAIN changes'[m].firing :
            Open(f, changes[m].firing[f].starts_at)'
  BY <1>1, ReconcileProps DEF Inv
<1>3. /\ UNCHANGED <<heap, inFlight, pc, job, resolving, anomaly>>
      /\ resolving[m] = None
  BY DEF Poll, Idle, queueVars, pollVars
<1>4. /\ QueueOK' /\ Holders' /\ NoJobsBut({})
      /\ Queue!pending' = Queue!pending
  BY <1>3 DEF Inv, QueueOK, Holders, NoJobsBut, Queue!pending, Queue!Busy,
              Queue!Item, Queue!Job
<1>5. JobsAreOfOpenIncidents'
  BY <1>2, <1>4, JobsStayOpen
<1>6. WorkIsOpen'
  <2> SUFFICES ASSUME NEW n \in Minions \ {m}, NEW f \in DOMAIN changes[n].firing
               PROVE  Open(f, changes[n].firing[f].starts_at)'
    BY <1>2 DEF Inv, WorkIsOpen
  <2>1. f \in Fingerprints
    BY ChangesAreOfMinion DEF Inv, Store!IncidentsOf
  <2>2. Store!Active(f) /\ rows[f].starts_at = changes[n].firing[f].starts_at
    BY DEF Inv, WorkIsOpen, Open
  <2>3. Store!Active(f)' /\ rows'[f].starts_at = rows[f].starts_at
    BY <1>2, <2>1, <2>2 DEF StaysOpen
  <2> QED BY <1>2, <2>2, <2>3 DEF Open
<1>7. ResolvedUndisturbed'
  BY <1>2, <1>3, <1>4 DEF Inv, ResolvedUndisturbed
<1> QED BY <1>2, <1>3, <1>4, <1>5, <1>6, <1>7 DEF Inv

(* A poll task closes one incident, or gives it up, and goes on.           *)
LEMMA HandledKeepsInv ==
    ASSUME Inv, NEW m \in Minions, NEW f \in DOMAIN changes[m].resolved,
           changes' = Handled(m, f),
           QueueOK', Holders', NoJobsBut({}),
           Queue!pending' \cup inFlight' \subseteq Queue!pending \cup inFlight,
           resolving' = [resolving EXCEPT ![m] = None], anomaly' = anomaly,
           \/ rows' = rows
           \/ /\ Store!MarkResolved(f)
              /\ f \notin Queue!pending' \cup inFlight'
    PROVE  Inv'
<1>1. /\ f \in Fingerprints /\ MinionOf[f] = m
      /\ StoreOK
  BY ChangesAreOfMinion DEF Inv, Store!IncidentsOf
<1>2. /\ DOMAIN changes' = Minions
      /\ \A n \in Minions \ {m} : changes'[n] = changes[n]
      /\ changes'[m].firing = changes[m].firing
      /\ DOMAIN changes'[m].resolved = DOMAIN changes[m].resolved \ {f}
      /\ \A n \in Minions : changes'[n] \in Store!Changes(n)
  BY <1>1, HandledProps
<1>3. PICK Gone \in {{}, {f}} :
         /\ rows' \in [Fingerprints -> Store!Row \cup {None}]
         /\ StaysOpen(Gone)
         /\ \A g \in Gone : g \notin Queue!pending' \cup inFlight'
  <2>1. CASE rows' = rows
    <3>1. StaysOpen({}) /\ rows' \in [Fingerprints -> Store!Row \cup {None}]
      BY <1>1, <2>1 DEF StaysOpen, Store!Active, StoreOK, Store!StoreTypeOK
    <3> QED BY <3>1
  <2>2. CASE Store!MarkResolved(f) /\ f \notin Queue!pending' \cup inFlight'
    <3>1. StaysOpen({f}) /\ rows' \in [Fingerprints -> Store!Row \cup {None}]
      BY <1>1, <2>2, ResolvedProps DEF StoreOK
    <3> QED BY <2>2, <3>1
  <2> QED BY <2>1, <2>2
<1>4. StoreOK'
  BY <1>2, <1>3, TypedStore
<1>5. JobsAreOfOpenIncidents'
  BY <1>3, JobsStayOpen
<1>6. WorkIsOpen'
  <2>1. \A n \in Minions : /\ changes'[n].firing = changes[n].firing
                           /\ DOMAIN changes'[n].resolved \subseteq DOMAIN changes[n].resolved
    BY <1>2
  <2> SUFFICES ASSUME NEW n \in Minions, NEW g \in DOMAIN changes[n].firing
               PROVE  Open(g, changes[n].firing[g].starts_at)'
    BY <2>1 DEF Inv, WorkIsOpen
  <2>2. g \in Fingerprints /\ MinionOf[g] = n
    BY <1>1, ChangesAreOfMinion DEF Store!IncidentsOf
  <2>3. g # f
    BY <1>1, <2>2 DEF Inv, WorkIsOpen
  <2>4. Store!Active(g) /\ rows[g].starts_at = changes[n].firing[g].starts_at
    BY DEF Inv, WorkIsOpen, Open
  <2>5. Store!Active(g)' /\ rows'[g].starts_at = rows[g].starts_at
    BY <1>3, <2>2, <2>3, <2>4 DEF StaysOpen
  <2> QED BY <2>1, <2>4, <2>5 DEF Open
<1>7. ResolvedUndisturbed'
  <2> SUFFICES ASSUME NEW n \in Minions, resolving'[n] # None
               PROVE  /\ resolving'[n] \in DOMAIN changes'[n].resolved
                      /\ resolving'[n] \notin Queue!pending' \cup inFlight'
    BY DEF ResolvedUndisturbed
  <2>1. n # m /\ resolving'[n] = resolving[n]
    BY DEF Inv
  <2> QED BY <1>2, <2>1 DEF Inv, ResolvedUndisturbed
<1>8. resolving' \in [Minions -> Fingerprints \cup {None}]
  BY DEF Inv
<1> QED BY <1>4, <1>5, <1>6, <1>7, <1>8 DEF Inv

(* Cancelling comes first, so what is then closed or left to the poll task *)
(* is neither pending nor in flight.                                       *)
LEMMA ResolveNextKeepsInv ==
    ASSUME Inv, NEW m \in Minions, ResolveNext(m)
    PROVE  Inv'
<1>1. PICK f \in DOMAIN changes[m].resolved :
         /\ Queue!Cancel(f)
         /\ \/ changes' = Handled(m, f) /\ UNCHANGED <<rows, resolving>>
            \/ /\ ~OnlyInFlight(f) /\ changes' = Handled(m, f)
               /\ Store!MarkResolved(f) /\ UNCHANGED resolving
            \/ /\ ~OnlyInFlight(f)
               /\ resolving' = [resolving EXCEPT ![m] = f] /\ UNCHANGED storeVars
  BY DEF ResolveNext, CloseSilently
<1>2. /\ resolving[m] = None /\ anomaly' = anomaly
      /\ f \in Fingerprints /\ MinionOf[f] = m
  BY ChangesAreOfMinion DEF ResolveNext, Inv, Store!IncidentsOf
<1>3. /\ QueueOK' /\ Holders' /\ NoJobsBut({})
      /\ f \notin Queue!pending' /\ inFlight' = inFlight
  BY <1>1, <1>2, CancelProps DEF Inv
<1>4. Queue!pending' \subseteq Queue!pending
  BY <1>3 DEF NoJobsBut
<1>5. ~OnlyInFlight(f) => f \notin Queue!pending' \cup inFlight'
  BY <1>3 DEF OnlyInFlight, Inv, Holders
<1>6. resolving = [resolving EXCEPT ![m] = None]
  BY <1>2 DEF Inv
<1>7. CASE changes' = Handled(m, f) /\ UNCHANGED <<rows, resolving>>
  BY <1>2, <1>3, <1>4, <1>6, <1>7, HandledKeepsInv
<1>8. CASE /\ ~OnlyInFlight(f) /\ changes' = Handled(m, f)
           /\ Store!MarkResolved(f) /\ UNCHANGED resolving
  BY <1>2, <1>3, <1>4, <1>5, <1>6, <1>8, HandledKeepsInv
<1>9. CASE /\ ~OnlyInFlight(f)
           /\ resolving' = [resolving EXCEPT ![m] = f] /\ UNCHANGED storeVars
  <2>1. StoreOK' /\ StaysOpen({})
    BY <1>9 DEF Inv, StoreOK, Store!StoreTypeOK, Store!Changes, Store!Row,
                Store!Work, Store!IncidentsOf, StaysOpen, Store!Active, storeVars
  <2>2. JobsAreOfOpenIncidents'
    BY <1>3, <2>1, JobsStayOpen
  <2>3. WorkIsOpen'
    BY <1>9 DEF Inv, WorkIsOpen, Open, Store!Active, storeVars
  <2>4. ResolvedUndisturbed'
    BY <1>3, <1>4, <1>5, <1>9 DEF Inv, ResolvedUndisturbed, storeVars
  <2>5. resolving' \in [Minions -> Fingerprints \cup {None}]
    BY <1>2, <1>9 DEF Inv
  <2> QED BY <1>2, <1>3, <2>1, <2>2, <2>3, <2>4, <2>5 DEF Inv
<1> QED BY <1>1, <1>7, <1>8, <1>9

(* The ways a request to Alertmanager ends without its acknowledgement.    *)
Unanswered(m) == ResolutionFails(m) \/ ResolutionRefused(m) \/ ResolutionAstray(m)
GivenUp(w) == Abort(w) \/ Refused(w) \/ DeliveryAstray(w)

PollTaskStep(m) == Poll(m) \/ PollStep(m) \/ Unanswered(m)
WorkerTaskStep(w) == Take(w) \/ Sleep(w) \/ HandlerStep(w) \/ GivenUp(w)

LEMMA UnansweredProps ==
    ASSUME NEW m \in Minions, Unanswered(m)
    PROVE  /\ UNCHANGED <<rows, queueVars, anomaly, alerts, stage>>
           /\ resolving[m] # None /\ turn = None
           /\ \/ ResolutionEnds(m)
              \/ UNCHANGED <<storeVars, pollVars, turn>>
           /\ \/ stray' = stray \/ stray' = stray \cup {ResolutionOf(m)}
           /\ budget' = budget \/ \E kind : Fault(kind)
BY DEF Unanswered, ResolutionFails, ResolutionRefused, ResolutionAstray, ResolutionEnds,
       storeVars

LEMMA GivenUpProps ==
    ASSUME NEW w \in Workers, GivenUp(w)
    PROVE  /\ UNCHANGED <<storeVars, anomaly, alerts, pollVars>> /\ turn = None
           /\ End(w) \/ UNCHANGED <<queueVars, stage, turn>>
           /\ \/ stray' = stray
              \/ Delivering(w) /\ stray' = stray \cup {DeliveryOf(w)}
           /\ budget' = budget \/ \E kind : Fault(kind)
BY DEF GivenUp, Abort, Refused, DeliveryAstray

LEMMA ResolutionEndsKeepsInv ==
    ASSUME Inv, NEW m \in Minions, ResolutionEnds(m),
           Store!MarkResolved(resolving[m]) \/ rows' = rows
    PROVE  Inv'
<1> DEFINE f == resolving[m]
<1>1. /\ f \in DOMAIN changes[m].resolved
      /\ f \notin Queue!pending \cup inFlight
      /\ changes' = Handled(m, f)
      /\ resolving' = [resolving EXCEPT ![m] = None]
      /\ anomaly' = anomaly /\ UNCHANGED <<heap, inFlight, pc, job>>
      /\ Store!MarkResolved(f) \/ rows' = rows
  BY DEF ResolutionEnds, Inv, ResolvedUndisturbed, queueVars
<1> HIDE DEF f
<1>2. /\ QueueOK' /\ Holders' /\ NoJobsBut({})
      /\ Queue!pending' = Queue!pending /\ inFlight' = inFlight
  BY <1>1 DEF Inv, QueueOK, Holders, NoJobsBut, Queue!pending, Queue!Busy,
              Queue!Item, Queue!Job
<1> QED BY <1>1, <1>2, HandledKeepsInv

LEMMA UnansweredKeepsInv ==
    ASSUME Inv, NEW m \in Minions, Unanswered(m)
    PROVE  Inv'
<1>1. CASE ResolutionEnds(m)
  BY <1>1, UnansweredProps, ResolutionEndsKeepsInv
<1>2. CASE ~ResolutionEnds(m)
  BY <1>2, UnansweredProps, NothingMoves DEF queueVars, pollVars, Inv
<1> QED BY <1>1, <1>2

(* The incident that is queued is open, and no poll task resolves it.      *)
LEMMA EnqueueNextKeepsInv ==
    ASSUME Inv, NEW m \in Minions, EnqueueNext(m)
    PROVE  Inv'
<1>1. PICK f \in DOMAIN changes[m].firing :
         /\ Queue!Enqueue(f, changes[m].firing[f].severity, changes[m].firing[f])
         /\ changes' = [changes EXCEPT ![m].firing =
               [g \in DOMAIN changes[m].firing \ {f} |-> changes[m].firing[g]]]
  BY DEF EnqueueNext
<1> DEFINE work == changes[m].firing[f]
           rest == [g \in DOMAIN changes[m].firing \ {f} |-> changes[m].firing[g]]
<1>2. /\ UNCHANGED <<rows, anomaly, resolving>> /\ resolving[m] = None
  BY DEF EnqueueNext, pollVars
<1>3. /\ f \in Fingerprints /\ MinionOf[f] = m /\ work \in Store!Work
      /\ Open(f, work.starts_at) /\ StoreOK
  BY ChangesAreOfMinion DEF Inv, WorkIsOpen, Store!IncidentsOf
<1>4. /\ QueueOK' /\ Holders' /\ NoJobsBut({f})
      /\ f \in Queue!pending' =>
            \/ heap'[f].payload = work
            \/ f \in Queue!pending /\ heap'[f].payload = heap[f].payload
      /\ Queue!pending' \subseteq Queue!pending \cup {f}
      /\ inFlight' = inFlight
  <2>1. Queue!Enqueue(f, work.severity, work)
    BY <1>1
  <2> HIDE DEF work
  <2> QED BY <1>3, <2>1, EnqueueProps DEF Inv
<1>5. /\ DOMAIN changes' = Minions
      /\ \A n \in Minions \ {m} : changes'[n] = changes[n]
      /\ changes'[m] = [firing |-> rest, resolved |-> changes[m].resolved]
  <2>1. changes[m] = [firing |-> changes[m].firing, resolved |-> changes[m].resolved]
    BY <1>3, ChangesAreOfMinion
  <2>2. changes' = [changes EXCEPT ![m].firing = rest]
    BY <1>1
  <2> HIDE DEF rest
  <2> QED BY <1>3, <2>1, <2>2 DEF StoreOK
<1>6. StoreOK'
  <2>1. rest \in [DOMAIN changes[m].firing \ {f} -> Store!Work]
    BY <1>3, ChangesAreOfMinion
  <2> HIDE DEF rest
  <2>2. /\ DOMAIN changes[m].firing \ {f} \in SUBSET Store!IncidentsOf(m)
        /\ changes[m] \in Store!Changes(m)
    BY <1>3, ChangesAreOfMinion DEF StoreOK, Store!StoreTypeOK
  <2>3. changes'[m] \in Store!Changes(m)
    BY <1>5, <2>1, <2>2 DEF Store!Changes
  <2>4. \A n \in Minions : changes'[n] \in Store!Changes(n)
    BY <1>3, <1>5, <2>3 DEF StoreOK, Store!StoreTypeOK
  <2>5. rows' \in [Fingerprints -> Store!Row \cup {None}]
    BY <1>2, <1>3 DEF StoreOK, Store!StoreTypeOK
  <2> QED BY <1>5, <2>4, <2>5, TypedStore
<1>7. JobsAreOfOpenIncidents'
  <2>1. ASSUME NEW g \in Queue!pending'
        PROVE  Store!Active(g)' /\ rows'[g].starts_at = heap'[g].payload.starts_at
    <3>1. CASE g \in Queue!pending /\ heap'[g].payload = heap[g].payload
      BY <1>2, <3>1 DEF Inv, JobsAreOfOpenIncidents, Store!Active
    <3>2. CASE g = f /\ heap'[f].payload = work
      BY <1>2, <1>3, <3>2 DEF Open, Store!Active
    <3> QED BY <1>4, <2>1, <3>1, <3>2 DEF NoJobsBut
  <2>2. ASSUME NEW w \in Queue!Busy'
        PROVE  /\ Store!Active(job[w].fingerprint)'
               /\ rows'[job'[w].fingerprint].starts_at = job'[w].payload.starts_at
    BY <1>2, <1>4, <2>2 DEF NoJobsBut, Inv, JobsAreOfOpenIncidents, Store!Active
  <2> QED BY <2>1, <2>2 DEF JobsAreOfOpenIncidents
<1>8. WorkIsOpen'
  BY <1>2, <1>5 DEF Inv, WorkIsOpen, Open, Store!Active
<1>9. ResolvedUndisturbed'
  <2> SUFFICES ASSUME NEW n \in Minions, resolving'[n] # None
               PROVE  /\ resolving'[n] \in DOMAIN changes'[n].resolved
                      /\ resolving'[n] \notin Queue!pending' \cup inFlight'
    BY DEF ResolvedUndisturbed
  <2>1. n # m /\ resolving'[n] = resolving[n]
    BY <1>2
  <2>2. /\ resolving[n] \in DOMAIN changes[n].resolved
        /\ resolving[n] \notin Queue!pending \cup inFlight
    BY <2>1 DEF Inv, ResolvedUndisturbed
  <2>3. DOMAIN changes[n].resolved \subseteq Store!IncidentsOf(n)
    BY <1>3, ChangesAreOfMinion
  <2>4. MinionOf[resolving[n]] = n
    BY <2>2, <2>3 DEF Store!IncidentsOf
  <2>5. resolving[n] # f
    BY <1>3, <2>1, <2>4
  <2> QED BY <1>4, <1>5, <2>1, <2>2, <2>5
<1> HIDE DEF work, rest
<1> QED BY <1>2, <1>4, <1>6, <1>7, <1>8, <1>9 DEF Inv

(* Whoever waits is cancelled, or the process dies.                        *)
LEMMA DropKeepsInv ==
    ASSUME Inv, PollTimeout \/ Crash
    PROVE  Inv'
<1>1. /\ UNCHANGED <<rows, anomaly>>
      /\ changes' = [m \in Minions |-> Store!NoChanges]
      /\ resolving' = [m \in Minions |-> None]
  BY DEF PollTimeout, Crash
<1>2. StoreOK'
  <2>1. /\ DOMAIN Store!Nothing = {}
        /\ Store!Nothing \in [{} -> Store!Work]
        /\ Store!Nothing \in [{} -> Severities \cup {None}]
    BY DEF Store!Nothing
  <2>2. \A n \in Minions : Store!NoChanges \in Store!Changes(n)
    BY <2>1 DEF Store!NoChanges, Store!Changes
  <2>3. rows' \in [Fingerprints -> Store!Row \cup {None}]
    BY <1>1 DEF Inv, StoreOK, Store!StoreTypeOK
  <2> QED BY <1>1, <2>2, <2>3, TypedStore
<1>3. WorkIsOpen'
  <2>1. DOMAIN Store!NoChanges.firing = {}
    BY DEF Store!NoChanges, Store!Nothing
  <2> QED BY <1>1, <2>1 DEF WorkIsOpen
<1>4. ResolvedUndisturbed' /\ resolving' \in [Minions -> Fingerprints \cup {None}]
  BY <1>1 DEF ResolvedUndisturbed
<1>5. QueueOK' /\ Holders' /\ JobsAreOfOpenIncidents'
  <2>1. CASE PollTimeout
    BY <1>1, <2>1
       DEF PollTimeout, queueVars, Inv, QueueOK, Holders, JobsAreOfOpenIncidents,
           Queue!pending, Queue!Busy, Queue!Item, Queue!Job, Store!Active
  <2>2. CASE Crash
    <3>1. Queue!pending' = {} /\ Queue!Busy' = {} /\ inFlight' = {}
      BY <2>2 DEF Crash, Queue!pending, Queue!Busy, Store!Nothing
    <3>2. /\ heap' \in [{} -> Queue!Item] /\ pc' \in [Workers -> PC]
          /\ job' \in [Workers -> Queue!Job \cup {None}]
      BY <2>2 DEF Crash, Store!Nothing, PC
    <3> QED BY <3>1, <3>2
            DEF QueueOK, Holders, JobsAreOfOpenIncidents, Queue!Item, Queue!Job
  <2> QED BY <2>1, <2>2
<1> QED BY <1>1, <1>2, <1>3, <1>4, <1>5 DEF Inv

LEMMA AlertReturnsKeepsInv ==
    ASSUME Inv, NEW w \in Workers, AlertReturns(w)
    PROVE  Inv'
<1>1. /\ w \in Queue!Busy /\ Queue!Finish(w)
      /\ UNCHANGED <<changes, anomaly, resolving>>
      /\ Store!MarkEmitted(job[w].fingerprint, job[w].payload.severity,
                           job[w].payload.starts_at)
  BY DEF AlertReturns, Serving, End, Queue!Busy, pollVars
<1>2. job[w].fingerprint \in Fingerprints /\ job[w].payload.severity \in Severities
  BY <1>1 DEF Inv, Holders, Queue!Job, Store!Work
<1>3. StoreOK' /\ StaysOpen({})
  BY <1>1, <1>2, EmittedProps DEF Inv
<1>4. /\ QueueOK' /\ Holders' /\ NoJobsBut({})
      /\ Queue!pending' \cup inFlight' \subseteq Queue!pending \cup inFlight
  BY <1>1, FinishProps DEF Inv
<1> QED BY <1>1, <1>3, <1>4, OutsidePolls DEF Inv

LEMMA CooldownKeepsInv ==
    ASSUME Inv, NEW f \in Fingerprints, CooldownElapses(f)
    PROVE  Inv'
<1>1. /\ Store!CooldownElapses(f)
      /\ UNCHANGED <<changes, heap, inFlight, pc, job, anomaly, resolving>>
  BY DEF CooldownElapses, queueVars, pollVars
<1>2. StoreOK' /\ StaysOpen({})
  BY <1>1, CoolingProps DEF Inv
<1>3. /\ QueueOK' /\ Holders' /\ NoJobsBut({})
      /\ Queue!pending' \cup inFlight' = Queue!pending \cup inFlight
  BY <1>1 DEF Inv, QueueOK, Holders, NoJobsBut, Queue!pending, Queue!Busy,
              Queue!Item, Queue!Job
<1> QED BY <1>1, <1>2, <1>3, OutsidePolls DEF Inv

LEMMA InitInv == Init => Inv
<1> SUFFICES ASSUME Init PROVE Inv
  OBVIOUS
<1>1. StoreOK
  <2>1. /\ Store!Nothing \in [{} -> Store!Work]
        /\ Store!Nothing \in [{} -> Severities \cup {None}]
    BY DEF Store!Nothing
  <2>2. \A n \in Minions : Store!NoChanges \in Store!Changes(n)
    BY <2>1 DEF Store!NoChanges, Store!Changes
  <2> QED BY <2>2 DEF Init, Store!StoreInit, StoreOK, Store!StoreTypeOK
<1>2. QueueOK /\ Queue!Busy = {} /\ Queue!pending = {} /\ inFlight = {}
  BY DEF Init, Queue!QueueInit, QueueOK, Queue!pending, Queue!Busy, PC
<1>3. Holders /\ JobsAreOfOpenIncidents
  BY <1>2 DEF Holders, JobsAreOfOpenIncidents
<1>4. WorkIsOpen
  <2>1. DOMAIN Store!NoChanges.firing = {}
    BY DEF Store!NoChanges, Store!Nothing
  <2> QED BY <2>1 DEF Init, Store!StoreInit, WorkIsOpen
<1>5. ResolvedUndisturbed
  BY DEF Init, ResolvedUndisturbed
<1> QED BY <1>1, <1>2, <1>3, <1>4, <1>5 DEF Init, Inv

LEMMA NextKeepsInv == Inv /\ [Next]_vars => Inv'
<1> SUFFICES ASSUME Inv, [Next]_vars PROVE Inv'
  OBVIOUS
<1>1. CASE UNCHANGED vars
  BY <1>1, NothingMoves DEF vars, queueVars, pollVars, Inv
<1>2. CASE Start
  BY <1>2, QueueMoves DEF Start, pollVars
<1>3. CASE PollTimeout \/ Crash
  BY <1>3, DropKeepsInv
<1>4. CASE AlertmanagerStep
  BY <1>4, NothingMoves
     DEF AlertmanagerStep, ApplyStray, ApplyResolution, ApplyWithdrawal, ApplyAlert,
         queueVars, pollVars, Inv
<1>5. ASSUME NEW f \in Fingerprints, Alter(f) PROVE Inv'
  <2>1. anomaly' \in [Fingerprints -> Severities \cup {None}]
    BY <1>5 DEF Alter, Inv
  <2> QED BY <1>5, <2>1, NothingMoves DEF Alter, queueVars, pollVars
<1>6. ASSUME NEW f \in Fingerprints, CooldownElapses(f) PROVE Inv'
  BY <1>6, CooldownKeepsInv
<1>7. ASSUME NEW m \in Minions, PollTaskStep(m) PROVE Inv'
  <2>1. CASE PollEnds(m)
    BY <2>1, NothingMoves DEF PollEnds, queueVars, pollVars, Inv
  <2>2. CASE ResolutionReturns(m)
    BY <2>2, ResolutionEndsKeepsInv DEF ResolutionReturns
  <2> QED BY <1>7, <2>1, <2>2, PollKeepsInv, ResolveNextKeepsInv,
             UnansweredKeepsInv, EnqueueNextKeepsInv DEF PollStep, PollTaskStep
<1>8. ASSUME NEW w \in Workers, WorkerTaskStep(w) PROVE Inv'
  <2>1. CASE Take(w) \/ Sleep(w)
    BY <2>1, QueueMoves DEF Take, Sleep, pollVars
  <2>2. CASE AlertReturns(w)
    BY <2>2, AlertReturnsKeepsInv
  <2>3. CASE Begin(w) \/ Investigated(w) \/ WithdrawalReturns(w) \/ GivenUp(w)
    <3>1. /\ UNCHANGED <<storeVars, resolving, anomaly>>
          /\ Queue!Finish(w) \/ UNCHANGED queueVars
      BY <2>3, GivenUpProps DEF Begin, Investigated, WithdrawalReturns, AwaitAt, End,
                  pollVars
    <3>2. CASE Queue!Finish(w)
      BY <3>1, <3>2, QueueMoves
    <3>3. CASE UNCHANGED queueVars
      BY <3>1, <3>3, NothingMoves DEF queueVars, Inv
    <3> QED BY <3>1, <3>2, <3>3
  <2> QED BY <1>8, <2>1, <2>2, <2>3 DEF HandlerStep, WorkerTaskStep
<1> QED BY <1>1, <1>2, <1>3, <1>4, <1>5, <1>6, <1>7, <1>8
        DEF Next, PollTaskStep, WorkerTaskStep, Unanswered, GivenUp

(* Whatever faults occur, a job that is queued or in the hands of a worker *)
(* is of the incident that is open now: resolving one leaves no            *)
(* investigation of it behind, although the resolution is awaited between  *)
(* the cancellation and the write (process_minion_anomalies()).            *)
THEOREM JobsStayWithTheirIncident == Spec => []JobsAreOfOpenIncidents
<1>1. Inv => JobsAreOfOpenIncidents
  BY DEF Inv
<1> QED BY <1>1, InitInv, NextKeepsInv, PTL DEF Spec

-----------------------------------------------------------------------------
(* The requests that were given up: none is ever forgotten.                *)

StrayOK == stray \subseteq Requests

LEMMA RequestType ==
    ASSUME NEW r \in Requests
    PROVE  r = Request(r.incident, r.severity, r.firing)
BY DEF Requests, Request

LEMMA ResolutionType ==
    ASSUME Inv, NEW m \in Minions, resolving[m] # None
    PROVE  ResolutionOf(m) \in Requests
<1>1. /\ resolving[m] \in Fingerprints
      /\ changes[m].resolved[resolving[m]] \in Severities \cup {None}
  BY ChangesAreOfMinion DEF Inv, ResolvedUndisturbed
<1> QED BY <1>1 DEF ResolutionOf, Request, Requests

LEMMA DeliveryType ==
    ASSUME Inv, NEW w \in Workers, Delivering(w)
    PROVE  DeliveryOf(w) \in Requests
<1>1. w \in Queue!Busy
  BY DEF Delivering, Withdrawing, Serving, Queue!Busy
<1>2. job[w].fingerprint \in Fingerprints /\ job[w].payload \in Store!Work
  BY <1>1 DEF Inv, Holders, Queue!Job
<1> QED BY <1>2 DEF DeliveryOf, Request, Requests, Store!Work

LEMMA NextKeepsStray ==
    ASSUME Inv, StrayOK, [Next]_vars
    PROVE  StrayOK' /\ stray \subseteq stray'
<1>1. CASE UNCHANGED stray
  BY <1>1 DEF StrayOK, Requests
<1>2. ASSUME NEW more, more \subseteq Requests, stray' = stray \cup more
      PROVE  StrayOK' /\ stray \subseteq stray'
  BY <1>2 DEF StrayOK, Requests
<1>3. CASE PollTimeout \/ Crash
  <2>1. Resolutions \subseteq Requests /\ Deliveries \subseteq Requests
    BY ResolutionType, DeliveryType DEF Resolutions, Deliveries
  <2>2. \E late \in SUBSET (Resolutions \cup Deliveries) : stray' = stray \cup late
    BY <1>3 DEF PollTimeout, Crash, Strand
  <2>3. PICK late \in SUBSET (Resolutions \cup Deliveries) : stray' = stray \cup late
    BY <2>2
  <2>4. late \subseteq Requests
    BY <2>1, <2>3
  <2> QED BY <1>2, <2>3, <2>4
<1>4. ASSUME NEW m \in Minions, Unanswered(m)
      PROVE  StrayOK' /\ stray \subseteq stray'
  BY <1>1, <1>2, <1>4, UnansweredProps, ResolutionType
<1>5. ASSUME NEW w \in Workers, GivenUp(w)
      PROVE  StrayOK' /\ stray \subseteq stray'
  BY <1>1, <1>2, <1>5, GivenUpProps, DeliveryType
<1>6. CASE \/ UNCHANGED vars \/ Start \/ AlertmanagerStep
           \/ \E f \in Fingerprints : Alter(f) \/ CooldownElapses(f)
  BY <1>1, <1>6 DEF vars, Start, AlertmanagerStep, ApplyStray, ApplyResolution,
     ApplyWithdrawal, ApplyAlert, Alter, CooldownElapses
<1>7. CASE \E m \in Minions : Poll(m) \/ PollStep(m)
  BY <1>1, <1>7 DEF Poll, PollStep, ResolveNext, ResolutionReturns, EnqueueNext, PollEnds
<1>8. CASE \E w \in Workers : Take(w) \/ Sleep(w) \/ HandlerStep(w)
  BY <1>1, <1>8 DEF Take, Sleep, HandlerStep, Begin, Investigated, WithdrawalReturns,
     AlertReturns
<1> QED BY <1>3, <1>4, <1>5, <1>6, <1>7, <1>8 DEF Next, Unanswered, GivenUp

-----------------------------------------------------------------------------
(* A row is marked for what Alertmanager has.                              *)

(* The stages of a handler, and what "sent" stands for: only a withdrawal  *)
(* that went astray earlier can have undone it.                            *)
SentIsFiring ==
    /\ DOMAIN alerts = Fingerprints /\ DOMAIN stage = Workers
    /\ \A w \in Workers : stage[w] # "none" => w \in Queue!Busy
    /\ \A w \in Workers :
          stage[w] = "sent" =>
             \/ job[w].payload.severity \in alerts[job[w].fingerprint]
             \/ Request(job[w].fingerprint, job[w].payload.severity, FALSE) \in stray

(* The busy workers other than those of Done stay busy with what they do.  *)
KeepsJobs(Done) ==
    \A w \in Queue!Busy \ Done : w \in Queue!Busy' /\ job'[w] = job[w]

LEMMA QueueKeepsJobs ==
    ASSUME QueueOK,
           \/ UNCHANGED queueVars
           \/ Queue!Start \/ \E w \in Workers : Queue!Take(w) \/ Queue!Sleep(w)
           \/ \E f : Queue!Cancel(f)
           \/ \E f, s, work : Queue!Enqueue(f, s, work)
    PROVE  KeepsJobs({})
<1>1. CASE UNCHANGED queueVars
  BY <1>1 DEF queueVars, KeepsJobs, Queue!Busy
<1>2. CASE Queue!Start
  BY <1>2 DEF Queue!Start, Queue!started, KeepsJobs, Queue!Busy, QueueOK
<1>3. ASSUME NEW w \in Workers, Queue!Take(w) PROVE KeepsJobs({})
  BY <1>3 DEF Queue!Take, KeepsJobs, Queue!Busy, QueueOK
<1>4. ASSUME NEW w \in Workers, Queue!Sleep(w) PROVE KeepsJobs({})
  BY <1>4 DEF Queue!Sleep, KeepsJobs, Queue!Busy, QueueOK
<1>5. ASSUME NEW f, Queue!Cancel(f) PROVE KeepsJobs({})
  BY <1>5, WokenProps DEF Queue!Cancel, KeepsJobs, Queue!Busy, QueueOK
<1>6. ASSUME NEW f, NEW s, NEW work, Queue!Enqueue(f, s, work) PROVE KeepsJobs({})
  <2>1. job' = job /\ (Queue!NotifyOne \/ pc' = pc)
    BY <1>6 DEF Queue!Enqueue, Queue!Refuse, Queue!Coalesce, Queue!Push,
                Queue!Evict, Queue!queueVars
  <2> QED BY <2>1, NotifyProps DEF KeepsJobs, Queue!Busy
<1> QED BY <1>1, <1>2, <1>3, <1>4, <1>5, <1>6

LEMMA FinishKeepsJobs ==
    ASSUME QueueOK, NEW w \in Workers, Queue!Finish(w)
    PROVE  KeepsJobs({w})
BY WokenProps DEF Queue!Finish, KeepsJobs, Queue!Busy, QueueOK

(* Alerts and stages stay while the queue moves.                           *)
LEMMA StagesStay ==
    ASSUME SentIsFiring, KeepsJobs({}), UNCHANGED <<alerts, stage>>,
           stray \subseteq stray'
    PROVE  SentIsFiring'
BY DEF SentIsFiring, KeepsJobs

LEMMA EndKeepsStages ==
    ASSUME Inv, SentIsFiring, NEW w \in Workers, End(w), UNCHANGED alerts,
           stray \subseteq stray'
    PROVE  SentIsFiring'
<1>1. KeepsJobs({w}) /\ stage' = [stage EXCEPT ![w] = "none"]
  BY FinishKeepsJobs DEF End, Inv
<1> QED BY <1>1 DEF SentIsFiring, KeepsJobs

(* No other worker and no poll task withdraws what was just sent.          *)
LEMMA AlertmanagerKeepsStages ==
    ASSUME Inv, StrayOK, SentIsFiring, AlertmanagerStep
    PROVE  SentIsFiring'
<1>0. stray' = stray
  BY DEF AlertmanagerStep, ApplyStray, ApplyResolution, ApplyWithdrawal, ApplyAlert
<1>1. ASSUME NEW m \in Minions, ApplyResolution(m) PROVE SentIsFiring'
  <2> DEFINE f == resolving[m]
  <2>1. /\ f \notin inFlight
        /\ alerts' = [alerts EXCEPT ![f] = @ \ {changes[m].resolved[f]}]
        /\ UNCHANGED <<stage, pc, job>>
    BY <1>1 DEF ApplyResolution, Inv, ResolvedUndisturbed, queueVars
  <2> HIDE DEF f
  <2>2. \A w \in Queue!Busy : job[w].fingerprint \in Fingerprints
                             /\ job[w].fingerprint # f
    BY <2>1 DEF Inv, Holders, Queue!Job
  <2>3. \A g \in Fingerprints \ {f} : alerts'[g] = alerts[g]
    BY <2>1 DEF SentIsFiring
  <2>4. Queue!Busy' = Queue!Busy
    BY <2>1 DEF Queue!Busy
  <2> QED BY <1>0, <2>1, <2>2, <2>3, <2>4 DEF SentIsFiring
<1>2. ASSUME NEW w \in Workers, ApplyWithdrawal(w) \/ ApplyAlert(w)
      PROVE  SentIsFiring'
  <2> DEFINE f == job[w].fingerprint
  <2>1. /\ UNCHANGED <<pc, job>> /\ Queue!Busy' = Queue!Busy
        /\ w \in Queue!Busy
        /\ \A v \in Workers \ {w} : stage'[v] = stage[v]
        /\ DOMAIN stage' = Workers /\ DOMAIN alerts' = Fingerprints
        /\ \A g \in Fingerprints \ {f} : alerts'[g] = alerts[g]
    BY <1>2 DEF ApplyWithdrawal, ApplyAlert, Serving, queueVars, Queue!Busy,
                SentIsFiring
  <2>2. \A v \in Queue!Busy : /\ job[v].fingerprint \in Fingerprints
                              /\ v # w => job[v].fingerprint # f
    BY <2>1 DEF Inv, Holders, Queue!Job
  <2>3. f \in Fingerprints
    BY <2>1, <2>2
  <2> HIDE DEF f
  <2>4. stage'[w] = "sent" => job[w].payload.severity \in alerts'[f]
    <3>1. CASE ApplyWithdrawal(w)
      BY <3>1 DEF ApplyWithdrawal, SentIsFiring
    <3>2. CASE ApplyAlert(w)
      BY <2>3, <3>2 DEF ApplyAlert, SentIsFiring, f
    <3> QED BY <1>2, <3>1, <3>2
  <2>5. \A v \in Queue!Busy \ {w} :
           alerts'[job[v].fingerprint] = alerts[job[v].fingerprint]
    <3> TAKE v \in Queue!Busy \ {w}
    <3>1. job[v].fingerprint \in Fingerprints \ {f}
      BY <2>2
    <3> QED BY <2>1, <3>1
  <2>6. ASSUME NEW v \in Workers, stage'[v] = "sent"
        PROVE  \/ job[v].payload.severity \in alerts'[job[v].fingerprint]
               \/ Request(job[v].fingerprint, job[v].payload.severity, FALSE) \in stray
    <3>1. CASE v = w
      BY <2>4, <2>6, <3>1 DEF f
    <3>2. CASE v # w
      <4>1. stage[v] = "sent"
        BY <2>1, <2>6, <3>2
      <4>2. v \in Queue!Busy \ {w}
        BY <3>2, <4>1 DEF SentIsFiring
      <4> QED BY <2>5, <4>1, <4>2 DEF SentIsFiring
    <3> QED BY <3>1, <3>2
  <2>7. \A v \in Workers : stage'[v] # "none" => v \in Queue!Busy
    BY <2>1 DEF SentIsFiring
  <2> QED BY <1>0, <2>1, <2>6, <2>7 DEF SentIsFiring
<1>3. CASE ApplyStray
  <2>1. PICK r \in stray :
           alerts' = [alerts EXCEPT ![r.incident] =
                         IF r.firing THEN @ \cup {r.severity} ELSE @ \ {r.severity}]
    BY <1>3 DEF ApplyStray
  <2>2. UNCHANGED <<stage, job, pc>> /\ Queue!Busy' = Queue!Busy
    BY <1>3 DEF ApplyStray, queueVars, Queue!Busy
  <2>3. r = Request(r.incident, r.severity, r.firing) /\ r.firing \in BOOLEAN
    BY RequestType DEF StrayOK, Requests
  <2>4. \A g \in DOMAIN alerts : \A s \in alerts[g] :
           s \in alerts'[g] \/ Request(g, s, FALSE) = r
    BY <2>1, <2>3 DEF SentIsFiring
  <2>5. \A w \in Queue!Busy : job[w].fingerprint \in Fingerprints
    BY DEF Inv, Holders, Queue!Job
  <2> QED BY <1>0, <2>1, <2>2, <2>4, <2>5 DEF SentIsFiring
<1> QED BY <1>1, <1>2, <1>3 DEF AlertmanagerStep

LEMMA NextKeepsSent ==
    Inv /\ StrayOK /\ SentIsFiring /\ [Next]_vars => SentIsFiring'
<1> SUFFICES ASSUME Inv, StrayOK, SentIsFiring, [Next]_vars PROVE SentIsFiring'
  OBVIOUS
<1>0. QueueOK /\ stray \subseteq stray'
  BY NextKeepsStray DEF Inv
<1>1. CASE UNCHANGED vars
  BY <1>0, <1>1, QueueKeepsJobs, StagesStay DEF vars
<1>2. CASE Start \/ PollTimeout
  BY <1>0, <1>2, QueueKeepsJobs, StagesStay DEF Start, PollTimeout
<1>3. CASE Crash
  BY <1>3 DEF Crash, SentIsFiring
<1>4. CASE AlertmanagerStep
  BY <1>4, AlertmanagerKeepsStages
<1>5. ASSUME NEW f \in Fingerprints, Alter(f) \/ CooldownElapses(f)
      PROVE  SentIsFiring'
  BY <1>0, <1>5, QueueKeepsJobs, StagesStay DEF Alter, CooldownElapses
<1>6. ASSUME NEW m \in Minions, PollTaskStep(m) PROVE SentIsFiring'
  <2>1. UNCHANGED <<alerts, stage>>
    BY <1>6, UnansweredProps DEF PollTaskStep, Poll, PollStep, ResolveNext,
       ResolutionReturns, ResolutionEnds, EnqueueNext, PollEnds
  <2>2. \/ UNCHANGED queueVars \/ \E f : Queue!Cancel(f)
        \/ \E f, s, work : Queue!Enqueue(f, s, work)
    BY <1>6, UnansweredProps DEF PollTaskStep, Poll, PollStep, ResolveNext,
       ResolutionReturns, ResolutionEnds, EnqueueNext, PollEnds
  <2> QED BY <1>0, <2>1, <2>2, QueueKeepsJobs, StagesStay
<1>7. ASSUME NEW w \in Workers, WorkerTaskStep(w) PROVE SentIsFiring'
  <2>1. CASE Take(w) \/ Sleep(w)
    BY <1>0, <2>1, QueueKeepsJobs, StagesStay DEF Take, Sleep
  <2>2. CASE HandlerStep(w)
    <3>1. /\ alerts' = alerts
          /\ \/ End(w)
             \/ /\ UNCHANGED queueVars /\ pc[w] = "running"
                /\ \E s \in {"investigating", "withdrawing", "sending"} :
                      stage' = [stage EXCEPT ![w] = s]
      BY <2>2 DEF HandlerStep, Begin, Investigated, WithdrawalReturns,
                  AlertReturns, AwaitAt, Serving
    <3>2. CASE End(w)
      BY <1>0, <3>1, <3>2, EndKeepsStages
    <3>3. CASE ~End(w)
      <4>1. /\ UNCHANGED <<alerts, pc, job>> /\ w \in Queue!Busy
            /\ Queue!Busy' = Queue!Busy
        BY <3>1, <3>3 DEF queueVars, Queue!Busy
      <4>2. \E s \in {"investigating", "withdrawing", "sending"} :
               stage' = [stage EXCEPT ![w] = s]
        BY <3>1, <3>3
      <4> QED BY <1>0, <4>1, <4>2 DEF SentIsFiring
    <3> QED BY <3>2, <3>3
  <2>3. CASE GivenUp(w)
    <3>1. CASE End(w)
      BY <1>0, <2>3, <3>1, GivenUpProps, EndKeepsStages
    <3>2. CASE ~End(w)
      BY <1>0, <2>3, <3>2, GivenUpProps, QueueKeepsJobs, StagesStay
    <3> QED BY <3>1, <3>2
  <2> QED BY <1>7, <2>1, <2>2, <2>3 DEF WorkerTaskStep
<1> QED BY <1>1, <1>2, <1>3, <1>4, <1>5, <1>6, <1>7
        DEF Next, PollTaskStep, WorkerTaskStep, Unanswered, GivenUp

(* Only mark_emitted() puts something new into that column.                *)
EmittedStays ==
    \A f \in Fingerprints :
        rows[f] # None => rows'[f].emitted \in {None, rows[f].emitted}

LEMMA PollsKeepEmitted ==
    ASSUME StoreOK, NEW m \in Minions, NEW seen, Store!Reconcile(m, seen)
    PROVE  EmittedStays
<1> SUFFICES ASSUME NEW f \in Fingerprints, rows[f] # None
             PROVE  rows'[f].emitted \in {None, rows[f].emitted}
  BY DEF EmittedStays
<1>1. rows[f] \in Store!Row
  BY DEF StoreOK, Store!StoreTypeOK
<1>2. rows'[f] \in {Store!Present(f), Store!Missed(f), rows[f]}
  BY DEF Store!Reconcile
<1>3. Store!Present(f).emitted \in {None, rows[f].emitted}
  BY <1>1 DEF Store!Present, Store!Opened, Store!Row
<1>4. Store!Missed(f).emitted = rows[f].emitted
  BY <1>1 DEF Store!Missed, Store!Row
<1> QED BY <1>2, <1>3, <1>4

LEMMA WritesKeepEmitted ==
    ASSUME StoreOK,
           \/ rows' = rows
           \/ \E f : Store!MarkResolved(f) \/ Store!CooldownElapses(f)
    PROVE  EmittedStays
<1> SUFFICES ASSUME NEW g \in Fingerprints, rows[g] # None
             PROVE  rows'[g].emitted = rows[g].emitted
  BY DEF EmittedStays
<1>1. rows[g] \in Store!Row /\ rows \in [Fingerprints -> Store!Row \cup {None}]
  BY DEF StoreOK, Store!StoreTypeOK
<1>2. ASSUME NEW f, Store!MarkResolved(f) PROVE rows'[g].emitted = rows[g].emitted
  BY <1>1, <1>2 DEF Store!MarkResolved, Store!Row
<1>3. ASSUME NEW f, Store!CooldownElapses(f)
      PROVE  rows'[g].emitted = rows[g].emitted
  BY <1>1, <1>3 DEF Store!CooldownElapses, Store!Row
<1> QED BY <1>2, <1>3

LEMMA OnlyAnswersMark ==
    ASSUME Inv, [Next]_vars
    PROVE  EmittedStays \/ \E w \in Workers : AlertReturns(w)
<1>0. StoreOK
  BY DEF Inv
<1>1. CASE UNCHANGED vars
  BY <1>0, <1>1, WritesKeepEmitted DEF vars, storeVars
<1>2. CASE Start \/ PollTimeout \/ Crash \/ AlertmanagerStep
  BY <1>0, <1>2, WritesKeepEmitted
     DEF Start, PollTimeout, Crash, AlertmanagerStep, ApplyStray, ApplyResolution,
         ApplyWithdrawal, ApplyAlert, storeVars
<1>3. ASSUME NEW f \in Fingerprints, Alter(f) \/ CooldownElapses(f)
      PROVE  EmittedStays
  BY <1>0, <1>3, WritesKeepEmitted DEF Alter, CooldownElapses, storeVars
<1>4. ASSUME NEW m \in Minions, Poll(m) PROVE EmittedStays
  BY <1>0, <1>4, PollsKeepEmitted DEF Poll
<1>5. ASSUME NEW m \in Minions, PollStep(m) \/ Unanswered(m) PROVE EmittedStays
  <2>1. rows' = rows \/ \E f : Store!MarkResolved(f)
    BY <1>5, UnansweredProps DEF PollStep, ResolveNext, CloseSilently, ResolutionReturns,
       EnqueueNext, PollEnds, storeVars
  <2> QED BY <1>0, <2>1, WritesKeepEmitted
<1>6. ASSUME NEW w \in Workers, WorkerTaskStep(w)
      PROVE  EmittedStays \/ AlertReturns(w)
  <2>1. rows' = rows \/ AlertReturns(w)
    BY <1>6, GivenUpProps DEF WorkerTaskStep, Take, Sleep, HandlerStep, Begin,
       Investigated, WithdrawalReturns, storeVars
  <2> QED BY <1>0, <2>1, WritesKeepEmitted
<1> QED BY <1>1, <1>2, <1>3, <1>4, <1>5, <1>6
        DEF Next, WorkerTaskStep, Unanswered, GivenUp

LEMMA NextMarksDelivered ==
    ASSUME Inv, SentIsFiring, [Next]_vars, NEW f \in Fingerprints,
           rows[f] # None, rows'[f].emitted \notin {None, rows[f].emitted}
    PROVE  \/ rows'[f].emitted \in alerts[f]
           \/ Request(f, rows'[f].emitted, FALSE) \in stray
<1>1. PICK w \in Workers : AlertReturns(w)
  BY OnlyAnswersMark DEF EmittedStays
<1> DEFINE g == job[w].fingerprint
           severity == job[w].payload.severity
<1>2. /\ stage[w] = "sent"
      /\ Store!MarkEmitted(g, severity, job[w].payload.starts_at)
  BY <1>1 DEF AlertReturns, Serving
<1>3. severity \in alerts[g] \/ Request(g, severity, FALSE) \in stray
  BY <1>2 DEF SentIsFiring
<1>4. rows[f] \in Store!Row /\ rows \in [Fingerprints -> Store!Row \cup {None}]
  BY DEF Inv, StoreOK, Store!StoreTypeOK
<1> HIDE DEF g, severity
<1>5. f = g /\ rows'[f].emitted = severity
  BY <1>2, <1>4 DEF Store!MarkEmitted, Store!Row
<1> QED BY <1>3, <1>5

(* A row is marked emitted only for an alert that Alertmanager has at that *)
(* moment: while the answer is under way neither a poll task nor another   *)
(* worker withdraws it (_process_firing_investigation()).  Only a request  *)
(* given up earlier, which nobody can recall, may.                         *)
THEOREM MarksAreDelivered == Spec => EmittedMeansDelivered
<1>1. Init => StrayOK /\ SentIsFiring
  BY DEF Init, StrayOK, SentIsFiring
<1>2. Inv /\ SentIsFiring /\ [Next]_vars
         => [\A f \in Fingerprints :
                rows[f] # None /\ rows'[f].emitted \notin {None, rows[f].emitted}
                => \/ rows'[f].emitted \in alerts[f]
                   \/ Request(f, rows'[f].emitted, FALSE) \in stray]_vars
  BY NextMarksDelivered
<1>3. Inv /\ StrayOK /\ [Next]_vars => StrayOK'
  BY NextKeepsStray
<1> QED BY <1>1, <1>2, <1>3, InitInv, NextKeepsInv, NextKeepsSent, PTL
        DEF Spec, EmittedMeansDelivered

-----------------------------------------------------------------------------
(* The types of what Inv does not speak of.                                *)

StageNames == {"none", "investigating", "withdrawing", "withdrawn", "sending", "sent"}

(* The agent of this module is never shut down: it crashes, or runs on.    *)
NeverClosed ==
    /\ accepting = TRUE /\ closing = FALSE /\ closer = "open" /\ shutdown = None

DeliveryOK ==
    /\ alerts \in [Fingerprints -> SUBSET Severities]
    /\ stage \in [Workers -> StageNames]
    /\ answered \subseteq Minions
    /\ turn \in Minions \cup Workers \cup {None}
    /\ budget \in 0..MaxFaults

LEMMA FaultProps ==
    ASSUME NEW kind, Fault(kind), budget \in 0..MaxFaults
    PROVE  budget' \in 0..MaxFaults
BY LifecycleAssumption DEF Fault

LEMMA NextKeepsOpen ==
    ASSUME NeverClosed, [Next]_vars
    PROVE  NeverClosed'
<1>1. UNCHANGED <<accepting, closing, closer, shutdown>>
  <2>1. CASE Start \/ PollTimeout \/ Crash \/ AlertmanagerStep \/ UNCHANGED vars
    BY <2>1 DEF Start, Queue!Start, PollTimeout, Crash, AlertmanagerStep, ApplyStray,
       ApplyResolution, ApplyWithdrawal, ApplyAlert, vars, queueVars
  <2>2. CASE \E f \in Fingerprints : Alter(f) \/ CooldownElapses(f)
    BY <2>2 DEF Alter, CooldownElapses, queueVars
  <2>3. CASE \E m \in Minions : PollTaskStep(m)
    BY <2>3, UnansweredProps DEF PollTaskStep, Poll, PollStep, ResolveNext, Queue!Cancel,
       ResolutionReturns, ResolutionEnds, EnqueueNext, Queue!Enqueue, Queue!Refuse,
       Queue!Coalesce, Queue!Push, Queue!Evict, Queue!queueVars, PollEnds, queueVars
  <2>4. CASE \E w \in Workers : WorkerTaskStep(w)
    BY <2>4, GivenUpProps DEF WorkerTaskStep, Take, Queue!Take, Sleep, Queue!Sleep,
       HandlerStep, Begin, Investigated, WithdrawalReturns, AlertReturns, AwaitAt, End,
       Queue!Finish, queueVars
  <2> QED BY <2>1, <2>2, <2>3, <2>4
          DEF Next, PollTaskStep, WorkerTaskStep, Unanswered, GivenUp
<1> QED BY <1>1 DEF NeverClosed

LEMMA NextKeepsDelivery ==
    ASSUME Inv, StrayOK, DeliveryOK, [Next]_vars
    PROVE  DeliveryOK'
<1> USE DEF DeliveryOK
<1>1. CASE Start \/ UNCHANGED vars \/ \E f \in Fingerprints : Alter(f) \/ CooldownElapses(f)
  BY <1>1 DEF Start, vars, Alter, CooldownElapses, pollVars
<1>2. CASE PollTimeout \/ Crash
  <2>1. budget' \in 0..MaxFaults /\ answered' = {} /\ alerts' = alerts
    BY <1>2, FaultProps DEF PollTimeout, Crash
  <2>2. stage' \in [Workers -> StageNames] /\ turn' \in {turn, None}
    BY <1>2 DEF PollTimeout, Crash, StageNames
  <2> QED BY <2>1, <2>2
<1>3. ASSUME NEW m \in Minions, ApplyResolution(m) PROVE DeliveryOK'
  BY <1>3 DEF ApplyResolution
<1>4. ASSUME NEW w \in Workers, ApplyWithdrawal(w) \/ ApplyAlert(w) PROVE DeliveryOK'
  <2>1. w \in Queue!Busy
    BY <1>4 DEF ApplyWithdrawal, ApplyAlert, Serving, Queue!Busy
  <2>2. job[w].payload.severity \in Severities
    BY <2>1 DEF Inv, Holders, Queue!Job, Store!Work
  <2>3. alerts' \in [Fingerprints -> SUBSET Severities]
    BY <1>4, <2>2 DEF ApplyWithdrawal, ApplyAlert
  <2>4. stage' \in [Workers -> StageNames]
    BY <1>4 DEF ApplyWithdrawal, ApplyAlert, StageNames
  <2> QED BY <1>4, <2>3, <2>4 DEF ApplyWithdrawal, ApplyAlert, pollVars
<1>5. ASSUME NEW m \in Minions, PollTaskStep(m) PROVE DeliveryOK'
  <2>1. UNCHANGED <<alerts, stage>> /\ turn' \in {turn, None, m}
    BY <1>5, UnansweredProps DEF PollTaskStep, Poll, PollStep, ResolveNext, ResolutionReturns,
       ResolutionEnds, EnqueueNext, PollEnds
  <2>2. answered' \subseteq answered
    BY <1>5, UnansweredProps DEF PollTaskStep, Poll, PollStep, ResolveNext, ResolutionReturns,
       ResolutionEnds, EnqueueNext, PollEnds, pollVars
  <2>3. budget' \in 0..MaxFaults
    BY <1>5, UnansweredProps, FaultProps DEF PollTaskStep, Poll, PollStep, ResolveNext,
       ResolutionReturns, EnqueueNext, PollEnds
  <2> QED BY <2>1, <2>2, <2>3
<1>6. ASSUME NEW w \in Workers, WorkerTaskStep(w) PROVE DeliveryOK'
  <2>1. UNCHANGED <<alerts, answered>>
    BY <1>6, GivenUpProps DEF WorkerTaskStep, Take, Sleep, HandlerStep, Begin, Investigated,
       WithdrawalReturns, AlertReturns, pollVars
  <2>2. turn' \in {turn, None, w}
    BY <1>6, GivenUpProps DEF WorkerTaskStep, Take, Sleep, HandlerStep, Begin, Investigated,
       WithdrawalReturns, AlertReturns, AwaitAt, End
  <2>3. \E s \in StageNames : stage' \in {stage, [stage EXCEPT ![w] = s]}
    BY <1>6, GivenUpProps DEF WorkerTaskStep, Take, Sleep, HandlerStep, Begin, Investigated,
       WithdrawalReturns, AlertReturns, AwaitAt, End, StageNames
  <2>4. budget' \in 0..MaxFaults
    BY <1>6, GivenUpProps, FaultProps DEF WorkerTaskStep, Take, Sleep, HandlerStep, Begin,
       Investigated, WithdrawalReturns, AlertReturns
  <2>5. stage' \in [Workers -> StageNames]
    BY <2>3
  <2> QED BY <2>1, <2>2, <2>4, <2>5
<1>7. CASE ApplyStray
  <2>1. PICK r \in stray :
           alerts' = [alerts EXCEPT ![r.incident] =
                         IF r.firing THEN @ \cup {r.severity} ELSE @ \ {r.severity}]
    BY <1>7 DEF ApplyStray
  <2>2. r.firing => r.severity \in Severities
    BY DEF StrayOK, Requests
  <2> QED BY <1>7, <2>1, <2>2 DEF ApplyStray, pollVars
<1> QED BY <1>1, <1>2, <1>3, <1>4, <1>5, <1>6, <1>7
        DEF Next, AlertmanagerStep, PollTaskStep, WorkerTaskStep, Unanswered, GivenUp

(* Every variable of the composed agent keeps its type.                    *)
THEOREM LifecycleTypeCorrect == Spec => []TypeOK
<1>1. Init => NeverClosed /\ StrayOK /\ DeliveryOK
  BY LifecycleAssumption
     DEF Init, Queue!QueueInit, NeverClosed, StrayOK, DeliveryOK, StageNames
<1>2. Inv /\ NeverClosed /\ StrayOK /\ DeliveryOK => TypeOK
  <2> SUFFICES ASSUME Inv, NeverClosed, StrayOK, DeliveryOK PROVE TypeOK
    OBVIOUS
  <2>1. Queue!QueueTypeOK
    BY DEF Inv, QueueOK, NeverClosed, Queue!QueueTypeOK, PC
  <2> QED BY <2>1 DEF Inv, StoreOK, StrayOK, DeliveryOK, StageNames, TypeOK
<1> QED BY <1>1, <1>2, InitInv, NextKeepsInv, NextKeepsStray, NextKeepsOpen,
           NextKeepsDelivery, PTL DEF Spec

-----------------------------------------------------------------------------
(* How the agent uses its components.                                      *)

LEMMA NextUsesQueue ==
    ASSUME Inv, [Next]_vars
    PROVE  Queue!QueueNext \/ Crash \/ UNCHANGED queueVars
<1>1. CASE Start
  BY <1>1 DEF Start, Queue!QueueNext, Queue!Calls
<1>2. CASE UNCHANGED vars \/ PollTimeout \/ AlertmanagerStep
           \/ \E f \in Fingerprints : Alter(f) \/ CooldownElapses(f)
  BY <1>2 DEF vars, PollTimeout, AlertmanagerStep, ApplyStray, ApplyResolution,
     ApplyWithdrawal, ApplyAlert, Alter, CooldownElapses
<1>3. ASSUME NEW m \in Minions, PollTaskStep(m)
      PROVE  Queue!QueueNext \/ UNCHANGED queueVars
  <2>1. CASE Poll(m) \/ ResolutionReturns(m) \/ PollEnds(m) \/ Unanswered(m)
    BY <2>1, UnansweredProps DEF Poll, ResolutionReturns, ResolutionEnds, PollEnds
  <2>2. CASE ResolveNext(m)
    <3>1. PICK f \in DOMAIN changes[m].resolved : Queue!Cancel(f)
      BY <2>2 DEF ResolveNext
    <3>2. f \in Fingerprints
      BY ChangesAreOfMinion DEF Inv, Store!IncidentsOf
    <3> QED BY <3>1, <3>2 DEF Queue!QueueNext, Queue!Calls
  <2>3. CASE EnqueueNext(m)
    <3>1. PICK f \in DOMAIN changes[m].firing :
             Queue!Enqueue(f, changes[m].firing[f].severity, changes[m].firing[f])
      BY <2>3 DEF EnqueueNext
    <3>2. f \in Fingerprints /\ changes[m].firing[f] \in Store!Work
      BY ChangesAreOfMinion DEF Inv, Store!IncidentsOf
    <3>3. changes[m].firing[f].severity \in Severities
      BY <3>2 DEF Store!Work
    <3> QED BY <3>1, <3>2, <3>3 DEF Queue!QueueNext, Queue!Calls
  <2> QED BY <1>3, <2>1, <2>2, <2>3 DEF PollStep, PollTaskStep
<1>4. ASSUME NEW w \in Workers, WorkerTaskStep(w)
      PROVE  Queue!QueueNext \/ UNCHANGED queueVars
  <2>1. \/ Queue!Take(w) \/ Queue!Sleep(w) \/ Queue!Finish(w) \/ UNCHANGED queueVars
    BY <1>4, GivenUpProps DEF WorkerTaskStep, Take, Sleep, HandlerStep, Begin, Investigated,
       WithdrawalReturns, AlertReturns, AwaitAt, End
  <2> QED BY <2>1 DEF Queue!QueueNext, Queue!WorkerStep
<1> QED BY <1>1, <1>2, <1>3, <1>4
        DEF Next, PollTaskStep, WorkerTaskStep, Unanswered, GivenUp

(* The loop and its handlers drive the queue by its own operations, with   *)
(* the work reconcile() returned; only a crash does anything else to it.   *)
(* So what InvestigationQueueProofs proves holds of it between crashes.    *)
THEOREM JobsGoThroughTheQueue ==
    Spec => Queue!QueueInit /\ [][Queue!QueueNext \/ Crash]_queueVars
<1>1. Init => Queue!QueueInit
  BY DEF Init
<1>2. Inv /\ [Next]_vars => [Queue!QueueNext \/ Crash]_queueVars
  BY NextUsesQueue
<1> QED BY <1>1, <1>2, InitInv, NextKeepsInv, PTL DEF Spec

(* The calls that write rows, as IncidentHistory makes them.               *)
StoreCall ==
    \/ \E m \in Minions : \E seen \in Store!Snapshots(m) : Store!Reconcile(m, seen)
    \/ \E f \in Fingerprints :
          \/ Store!MarkResolved(f) \/ Store!CooldownElapses(f)
          \/ \E work \in Store!Work : Store!MarkEmitted(f, work.severity, work.starts_at)

LEMMA NextCallsStore ==
    ASSUME Inv, [Next]_vars
    PROVE  StoreCall \/ rows' = rows
<1>1. CASE UNCHANGED vars \/ Start \/ PollTimeout \/ Crash \/ AlertmanagerStep
           \/ \E f \in Fingerprints : Alter(f)
  BY <1>1 DEF vars, Start, PollTimeout, Crash, AlertmanagerStep, ApplyStray,
     ApplyResolution, ApplyWithdrawal, ApplyAlert, Alter, storeVars
<1>2. CASE \E f \in Fingerprints : CooldownElapses(f)
  BY <1>2 DEF CooldownElapses, StoreCall
<1>3. ASSUME NEW m \in Minions, Poll(m) PROVE StoreCall
  <2> DEFINE some(S) == [f \in S |-> anomaly[f]]
  <2>1. \A f \in Observed(m) : f \in Store!IncidentsOf(m) /\ anomaly[f] \in Severities
    BY DEF Observed, Store!IncidentsOf, Inv
  <2>2. ASSUME NEW S \in SUBSET Observed(m) PROVE some(S) \in Store!Snapshots(m)
    <3>1. S \in SUBSET Store!IncidentsOf(m) /\ some(S) \in [S -> Severities]
      BY <2>1
    <3> HIDE DEF some
    <3> QED BY <3>1 DEF Store!Snapshots
  <2>3. \E S \in SUBSET Observed(m) : Store!Reconcile(m, some(S))
    <3>1. CASE Store!Reconcile(m, some(Observed(m)))
      BY <3>1
    <3>2. CASE Store!Reconcile(m, some(Observed(m) \ SaltChecks))
      <4>1. Observed(m) \ SaltChecks \in SUBSET Observed(m)
        OBVIOUS
      <4> QED BY <3>2, <4>1
    <3> QED BY <1>3, <3>1, <3>2 DEF Poll
  <2> HIDE DEF some
  <2> QED BY <2>2, <2>3 DEF StoreCall
<1>4. ASSUME NEW m \in Minions, PollStep(m) \/ Unanswered(m)
      PROVE  StoreCall \/ rows' = rows
  <2>1. CASE EnqueueNext(m) \/ PollEnds(m) \/ Unanswered(m)
    BY <2>1, UnansweredProps DEF EnqueueNext, PollEnds, storeVars
  <2>2. CASE ResolveNext(m)
    <3>1. PICK f \in DOMAIN changes[m].resolved : Store!MarkResolved(f) \/ rows' = rows
      BY <2>2 DEF ResolveNext, CloseSilently, storeVars
    <3>2. f \in Fingerprints
      BY ChangesAreOfMinion DEF Inv, Store!IncidentsOf
    <3> QED BY <3>1, <3>2 DEF StoreCall
  <2>3. CASE ResolutionReturns(m)
    <3>1. Store!MarkResolved(resolving[m]) \/ rows' = rows
      BY <2>3 DEF ResolutionReturns
    <3>2. resolving[m] \in Fingerprints
      BY <2>3 DEF ResolutionReturns, ResolutionEnds, Inv
    <3> QED BY <3>1, <3>2 DEF StoreCall
  <2> QED BY <1>4, <2>1, <2>2, <2>3 DEF PollStep
<1>5. ASSUME NEW w \in Workers, WorkerTaskStep(w) PROVE StoreCall \/ rows' = rows
  <2>1. CASE AlertReturns(w)
    <3>1. w \in Queue!Busy
      BY <2>1 DEF AlertReturns, Serving, Queue!Busy
    <3>2. job[w].fingerprint \in Fingerprints /\ job[w].payload \in Store!Work
      BY <3>1 DEF Inv, Holders, Queue!Job
    <3>3. Store!MarkEmitted(job[w].fingerprint, job[w].payload.severity,
                            job[w].payload.starts_at)
      BY <2>1 DEF AlertReturns
    <3> QED BY <3>2, <3>3 DEF StoreCall
  <2>2. CASE ~AlertReturns(w)
    BY <1>5, <2>2, GivenUpProps DEF WorkerTaskStep, Take, Sleep, HandlerStep, Begin,
       Investigated, WithdrawalReturns, storeVars
  <2> QED BY <2>1, <2>2
<1> QED BY <1>1, <1>2, <1>3, <1>4, <1>5 DEF Next, WorkerTaskStep, Unanswered, GivenUp

(* The rows change by the calls IncidentHistory makes and with arguments   *)
(* it allows: snapshots of the minion, work of the types it returns.       *)
THEOREM RowsGoThroughTheStore == Spec => Store!StoreInit /\ [][StoreCall]_rows
<1>1. Init => Store!StoreInit
  BY DEF Init
<1>2. Inv /\ [Next]_vars => [StoreCall]_rows
  BY NextCallsStore
<1> QED BY <1>1, <1>2, InitInv, NextKeepsInv, PTL DEF Spec
=============================================================================
