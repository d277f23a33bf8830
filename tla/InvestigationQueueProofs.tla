---------------------- MODULE InvestigationQueueProofs ----------------------
(***************************************************************************)
(* Theorems about the investigation queue, for any number of incidents and *)
(* workers and any bound on the backlog.                                   *)
(***************************************************************************)
EXTENDS InvestigationQueue, FiniteSetTheorems, TLAPS

(* Sequence numbers name pending items only, and of two pending items      *)
(* exactly one came first.                                                 *)
ArrivalOrder ==
    /\ \A f \in pending : heap[f].ahead \subseteq pending
    /\ \A f, g \in pending :
          f # g => (f \in heap[g].ahead <=> g \notin heap[f].ahead)

(* The busy workers are those with a job, each with one of its own, and    *)
(* together they hold what is in flight.                                   *)
Holders ==
    /\ \A w \in Busy : job[w] \in Job /\ job[w].fingerprint \in inFlight
    /\ \A w, v \in Busy : job[w].fingerprint = job[v].fingerprint => w = v
    /\ \A f \in inFlight : \E w \in Busy : job[w].fingerprint = f
    /\ pending \cap inFlight = {}

(* The backlog and the work in flight are finite, the backlog bounded.      *)
Bounded ==
    /\ IsFiniteSet(pending) /\ IsFiniteSet(inFlight)
    /\ Cardinality(pending) <= MaxPending

(* How far close() has come bounds what the workers still do.              *)
Phases ==
    /\ closing = (closer # "open")
    /\ accepting = (closer = "open")
    /\ \A w \in Workers : pc[w] = "cancelled" => closer = "cancelling"
    /\ \A w \in Workers : pc[w] = "done" => closer # "open"
    /\ closer = "draining" => \A w \in Workers : pc[w] = "done" => pending = {}
    /\ closer = "cancelling" =>
          /\ ~shutdown.drained
          /\ \A w \in Workers : pc[w] \in {"cancelled", "done"}
    /\ closer = "closed" =>
          /\ shutdown.drained => pending = {}
          /\ \A w \in Workers : pc[w] \in {"off", "done"}

Inv == QueueTypeOK /\ ArrivalOrder /\ Holders /\ Bounded /\ Phases

-----------------------------------------------------------------------------
(* The heap operations keep items, and remove or add one fingerprint.      *)

LEMMA PriorityType ==
    ASSUME NEW s PROVE priority_for_severity(s) \in 0..3
BY DEF priority_for_severity

LEMMA WithoutProps ==
    ASSUME NEW h, h \in [DOMAIN h -> Item], NEW f
    PROVE  /\ Without(h, f) \in [DOMAIN h \ {f} -> Item]
           /\ DOMAIN Without(h, f) = DOMAIN h \ {f}
           /\ \A g \in DOMAIN h \ {f} :
                 Without(h, f)[g].ahead = h[g].ahead \ {f}
BY DEF Without, Item

(* cancel() and _next() remove one fingerprint.                            *)
LEMMA Removal ==
    ASSUME QueueTypeOK, NEW f, heap' = Without(heap, f)
    PROVE  /\ pending' = pending \ {f}
           /\ heap' \in [pending' -> Item]
           /\ \A g \in pending' : heap'[g].ahead = heap[g].ahead \ {f}
<1>1. heap \in [DOMAIN heap -> Item]
  BY DEF QueueTypeOK, pending
<1>2. /\ Without(heap, f) \in [DOMAIN heap \ {f} -> Item]
      /\ DOMAIN Without(heap, f) = DOMAIN heap \ {f}
      /\ \A g \in DOMAIN heap \ {f} :
            Without(heap, f)[g].ahead = heap[g].ahead \ {f}
  BY <1>1, WithoutProps, Zenon
<1> QED BY <1>2 DEF pending

(* A new item comes after all the others.                                  *)
LEMMA NewItemProps ==
    ASSUME NEW h, DOMAIN h \subseteq Fingerprints,
           NEW p \in 0..3, NEW v \in Payloads
    PROVE  NewItem(h, p, v) \in Item /\ NewItem(h, p, v).ahead = DOMAIN h
BY DEF NewItem, Item

-----------------------------------------------------------------------------
(* Waking sleepers leaves every busy worker where it is.                   *)
LEMMA WokenProps ==
    ASSUME QueueTypeOK
    PROVE  /\ Woken \in [Workers -> {"off", "ready", "waiting", "running",
                                     "cancelled", "done"}]
           /\ \A w \in Workers : /\ Woken[w] = "waiting" => FALSE
                                 /\ pc[w] # "waiting" => Woken[w] = pc[w]
                                 /\ pc[w] = "waiting" => Woken[w] = "ready"
BY DEF QueueTypeOK, Woken

LEMMA NotifyProps ==
    ASSUME QueueTypeOK, NotifyOne
    PROVE  /\ pc' \in [Workers -> {"off", "ready", "waiting", "running",
                                   "cancelled", "done"}]
           /\ \A w \in Workers :
                 pc'[w] = pc[w] \/ (pc[w] = "waiting" /\ pc'[w] = "ready")
           /\ Busy' = Busy
BY DEF QueueTypeOK, NotifyOne, Waiting, Busy

(* An open queue accepts: close() has not begun, no task was cancelled.    *)
LEMMA AcceptingKeepsPhases ==
    ASSUME QueueTypeOK, Phases, accepting, NotifyOne,
           UNCHANGED <<accepting, closing, closer, shutdown>>
    PROVE  Phases'
<1>1. closer = "open" /\ closer' = "open" /\ accepting' = accepting
      /\ closing' = closing
  BY DEF Phases
<1>2. \A w \in Workers : pc'[w] # "cancelled" /\ pc'[w] # "done"
  BY <1>1, NotifyProps DEF Phases
<1> QED BY <1>1, <1>2 DEF Phases

(* Removing or adding one fingerprint keeps the backlog finite.            *)
LEMMA OneFewer ==
    ASSUME NEW S, IsFiniteSet(S), NEW f
    PROVE  /\ IsFiniteSet(S \ {f})
           /\ Cardinality(S \ {f}) \in Nat /\ Cardinality(S) \in Nat
           /\ Cardinality(S \ {f}) <= Cardinality(S)
           /\ f \in S => Cardinality(S \ {f}) = Cardinality(S) - 1
BY FS_RemoveElement, FS_CardinalityType

LEMMA OneMore ==
    ASSUME NEW S, IsFiniteSet(S), NEW f, f \notin S
    PROVE  /\ IsFiniteSet(S \cup {f})
           /\ Cardinality(S) \in Nat
           /\ Cardinality(S \cup {f}) = Cardinality(S) + 1
BY FS_AddElement, FS_CardinalityType

(* What enqueue() does to the heap, in the three cases in which it accepts. *)
LEMMA CoalesceKeepsInv ==
    ASSUME Inv, NEW f \in Fingerprints, NEW p \in 0..3, NEW v \in Payloads,
           Coalesce(f, p, v)
    PROVE  Inv'
<1> DEFINE urgent == IF p < heap[f].priority THEN p ELSE heap[f].priority
<1>1. /\ heap' = [heap EXCEPT ![f].priority = urgent, ![f].payload = v]
      /\ heap \in [pending -> Item] /\ f \in pending
      /\ urgent \in 0..3
  BY DEF Inv, QueueTypeOK, Coalesce, Item
<1>2. /\ pending' = pending
      /\ heap' \in [pending -> Item]
      /\ \A g \in pending : heap'[g].ahead = heap[g].ahead
  BY <1>1 DEF Item, pending
<1>3. QueueTypeOK'
  BY <1>2, NotifyProps DEF Inv, QueueTypeOK, Coalesce
<1>4. ArrivalOrder'
  BY <1>2 DEF Inv, ArrivalOrder
<1>5. Holders'
  BY <1>2, NotifyProps DEF Inv, Holders, Coalesce
<1>6. Phases'
  BY AcceptingKeepsPhases DEF Inv, Coalesce, Acceptable
<1>7. Bounded'
  BY <1>2 DEF Inv, Bounded, Coalesce
<1> QED BY <1>3, <1>4, <1>5, <1>6, <1>7 DEF Inv

LEMMA PushKeepsInv ==
    ASSUME Inv, NEW f \in Fingerprints, NEW p \in 0..3, NEW v \in Payloads,
           Push(f, p, v)
    PROVE  Inv'
<1>1. /\ heap' = With(heap, f, NewItem(heap, p, v))
      /\ heap \in [pending -> Item] /\ pending \in SUBSET Fingerprints
      /\ f \notin pending /\ f \notin inFlight
  BY DEF Inv, QueueTypeOK, Push, Acceptable
<1>2. /\ pending' = pending \cup {f}
      /\ heap' \in [pending' -> Item]
      /\ heap'[f].ahead = pending
      /\ \A g \in pending : heap'[g].ahead = heap[g].ahead
  <2> DEFINE item == NewItem(heap, p, v)
  <2>1. /\ heap \in [DOMAIN heap -> Item] /\ DOMAIN heap \subseteq Fingerprints
    BY <1>1 DEF pending
  <2>2. item \in Item /\ item.ahead = DOMAIN heap
    BY <2>1, NewItemProps, Zenon
  <2>3. heap' = With(heap, f, item)
    BY <1>1
  <2> HIDE DEF item
  <2> QED BY <1>1, <2>1, <2>2, <2>3 DEF With, pending
<1>3. QueueTypeOK'
  BY <1>1, <1>2, NotifyProps DEF Inv, QueueTypeOK, Push
<1>4. ArrivalOrder'
  BY <1>1, <1>2 DEF Inv, ArrivalOrder
<1>5. Holders'
  BY <1>1, <1>2, NotifyProps DEF Inv, Holders, Push
<1>6. Phases'
  BY AcceptingKeepsPhases DEF Inv, Push, Acceptable
<1>7. Bounded'
  <2>1. /\ IsFiniteSet(pending) /\ IsFiniteSet(inFlight) /\ inFlight' = inFlight
        /\ ~(Cardinality(pending) >= MaxPending)
    BY DEF Inv, Bounded, Push, Full
  <2>2. /\ IsFiniteSet(pending') /\ Cardinality(pending) \in Nat
        /\ Cardinality(pending') = Cardinality(pending) + 1
    BY <1>1, <1>2, <2>1, OneMore
  <2> QED BY <2>1, <2>2, QueueAssumption DEF Bounded
<1> QED BY <1>3, <1>4, <1>5, <1>6, <1>7 DEF Inv

LEMMA EvictKeepsInv ==
    ASSUME Inv, NEW f \in Fingerprints, NEW p \in 0..3, NEW v \in Payloads,
           Evict(f, p, v)
    PROVE  Inv'
<1>1. PICK worst \in pending :
         heap' = With(Without(heap, worst), f, NewItem(Without(heap, worst), p, v))
  BY DEF Evict
<1> DEFINE rest == Without(heap, worst)
<1>0. heap' = With(rest, f, NewItem(rest, p, v))
  BY <1>1
<1> HIDE DEF rest
<1>2. /\ heap \in [pending -> Item] /\ pending \in SUBSET Fingerprints
      /\ f \notin pending /\ f \notin inFlight
  BY DEF Inv, QueueTypeOK, Evict, Acceptable
<1>3. /\ rest \in [DOMAIN rest -> Item] /\ DOMAIN rest = pending \ {worst}
      /\ \A g \in pending \ {worst} : rest[g].ahead = heap[g].ahead \ {worst}
  <2>1. heap \in [DOMAIN heap -> Item]
    BY <1>2 DEF pending
  <2>2. /\ rest \in [DOMAIN heap \ {worst} -> Item]
        /\ DOMAIN rest = DOMAIN heap \ {worst}
        /\ \A g \in DOMAIN heap \ {worst} :
              rest[g].ahead = heap[g].ahead \ {worst}
    BY <2>1, WithoutProps, Zenon DEF rest
  <2> QED BY <2>2 DEF pending
<1>4. /\ pending' = (pending \ {worst}) \cup {f}
      /\ heap' \in [pending' -> Item]
      /\ heap'[f].ahead = pending \ {worst}
      /\ \A g \in pending \ {worst} : heap'[g].ahead = heap[g].ahead \ {worst}
  <2> DEFINE item == NewItem(rest, p, v)
  <2>1. DOMAIN rest \subseteq Fingerprints /\ f \notin DOMAIN rest
    BY <1>2, <1>3
  <2>2. item \in Item /\ item.ahead = DOMAIN rest
    BY <2>1, NewItemProps, Zenon
  <2>3. heap' = With(rest, f, item)
    BY <1>0
  <2> HIDE DEF item
  <2> QED BY <1>3, <2>1, <2>2, <2>3 DEF With, pending
<1>5. QueueTypeOK'
  BY <1>2, <1>4, NotifyProps DEF Inv, QueueTypeOK, Evict
<1>6. ArrivalOrder'
  BY <1>2, <1>4 DEF Inv, ArrivalOrder
<1>7. Holders'
  BY <1>2, <1>4, NotifyProps DEF Inv, Holders, Evict
<1>8. Phases'
  BY AcceptingKeepsPhases DEF Inv, Evict, Acceptable
<1>9. Bounded'
  <2>1. /\ IsFiniteSet(pending \ {worst})
        /\ Cardinality(pending \ {worst}) = Cardinality(pending) - 1
        /\ Cardinality(pending) \in Nat
    BY OneFewer DEF Inv, Bounded
  <2>2. /\ IsFiniteSet(pending')
        /\ Cardinality(pending') = Cardinality(pending)
    BY <1>2, <1>4, <2>1, OneMore
  <2> QED BY <2>2 DEF Inv, Bounded, Evict
<1> QED BY <1>5, <1>6, <1>7, <1>8, <1>9 DEF Inv

LEMMA CancelKeepsInv ==
    ASSUME Inv, NEW f \in Fingerprints, Cancel(f)
    PROVE  Inv'
<1>1. /\ heap' = Without(heap, f)
      /\ heap \in [pending -> Item] /\ pending \in SUBSET Fingerprints
  BY DEF Inv, QueueTypeOK, Cancel
<1>2. /\ pending' = pending \ {f}
      /\ heap' \in [pending' -> Item]
      /\ \A g \in pending' : heap'[g].ahead = heap[g].ahead \ {f}
  BY <1>1, Removal DEF Inv
<1>3. /\ pc' \in [Workers -> {"off", "ready", "waiting", "running",
                              "cancelled", "done"}]
      /\ Busy' = Busy
  BY WokenProps DEF Cancel, Inv, QueueTypeOK, Busy
<1>4. QueueTypeOK'
  BY <1>1, <1>2, <1>3 DEF Inv, QueueTypeOK, Cancel
<1>5. ArrivalOrder'
  BY <1>2 DEF Inv, ArrivalOrder
<1>6. Holders'
  BY <1>2, <1>3 DEF Inv, Holders, Cancel
<1>7. Bounded'
  <2>1. /\ IsFiniteSet(pending) /\ IsFiniteSet(inFlight) /\ inFlight' = inFlight
        /\ Cardinality(pending) <= MaxPending
    BY DEF Inv, Bounded, Cancel
  <2>2. /\ IsFiniteSet(pending')
        /\ Cardinality(pending) \in Nat /\ Cardinality(pending') \in Nat
        /\ Cardinality(pending') <= Cardinality(pending)
    BY <1>2, <2>1, OneFewer
  <2> QED BY <2>1, <2>2, QueueAssumption DEF Bounded
<1>8. Phases'
  <2>1. \A w \in Workers : pc'[w] = pc[w] \/ (pc[w] = "waiting" /\ pc'[w] = "ready")
    BY WokenProps DEF Inv, Cancel
  <2>2. /\ UNCHANGED <<accepting, closing, closer, shutdown>>
        /\ pending = {} => pending' = {}
    BY <1>2 DEF Cancel
  <2> QED BY <2>1, <2>2 DEF Inv, Phases
<1> QED BY <1>4, <1>5, <1>6, <1>7, <1>8 DEF Inv

LEMMA TakeKeepsInv ==
    ASSUME Inv, NEW w \in Workers, Take(w)
    PROVE  Inv'
<1>1. PICK f \in pending :
         /\ heap' = Without(heap, f)
         /\ inFlight' = inFlight \cup {f}
         /\ job' = [job EXCEPT ![w] =
                       [fingerprint |-> f, payload |-> heap[f].payload]]
  BY DEF Take
<1>2. /\ heap \in [pending -> Item] /\ pending \in SUBSET Fingerprints
      /\ f \in Fingerprints /\ f \notin inFlight /\ heap[f].payload \in Payloads
      /\ w \notin Busy
  BY DEF Inv, QueueTypeOK, Holders, Item, Busy, Take
<1>3. /\ pending' = pending \ {f}
      /\ heap' \in [pending' -> Item]
      /\ \A g \in pending' : heap'[g].ahead = heap[g].ahead \ {f}
  BY <1>1, Removal DEF Inv
<1>4. /\ Busy' = Busy \cup {w}
      /\ job'[w] \in Job /\ job'[w].fingerprint = f
      /\ \A v \in Workers \ {w} : job'[v] = job[v]
  BY <1>1, <1>2 DEF Inv, QueueTypeOK, Busy, Take, Job
<1>5. QueueTypeOK'
  BY <1>1, <1>2, <1>3 DEF Inv, QueueTypeOK, Take, Job
<1>6. ArrivalOrder'
  BY <1>3 DEF Inv, ArrivalOrder
<1>7. Holders'
  <2>1. Busy \subseteq Workers
    BY DEF Busy
  <2> QED BY <1>1, <1>2, <1>3, <1>4, <2>1 DEF Inv, Holders
<1>8. Bounded'
  <2>1. /\ IsFiniteSet(pending) /\ IsFiniteSet(inFlight)
        /\ Cardinality(pending) <= MaxPending
    BY DEF Inv, Bounded
  <2>2. /\ IsFiniteSet(pending')
        /\ Cardinality(pending) \in Nat /\ Cardinality(pending') \in Nat
        /\ Cardinality(pending') <= Cardinality(pending)
    BY <1>3, <2>1, OneFewer
  <2>3. IsFiniteSet(inFlight')
    BY <1>1, <1>2, <2>1, OneMore
  <2> QED BY <2>1, <2>2, <2>3, QueueAssumption DEF Bounded
<1>9. Phases'
  <2>1. \A v \in Workers : pc'[v] = IF v = w THEN "running" ELSE pc[v]
    BY DEF Inv, QueueTypeOK, Take
  <2>2. /\ UNCHANGED <<accepting, closing, closer, shutdown>>
        /\ pending # {} /\ pc[w] = "ready"
    BY DEF Take
  <2>3. closer # "cancelling" /\ closer # "closed"
    BY <2>2 DEF Inv, Phases
  <2> QED BY <1>3, <2>1, <2>2, <2>3 DEF Inv, Phases
<1> QED BY <1>5, <1>6, <1>7, <1>8, <1>9 DEF Inv

LEMMA FinishKeepsInv ==
    ASSUME Inv, NEW w \in Workers, Finish(w)
    PROVE  Inv'
<1>1. /\ w \in Busy /\ Busy \subseteq Workers
      /\ Busy' = Busy \ {w}
      /\ pc' \in [Workers -> {"off", "ready", "waiting", "running",
                              "cancelled", "done"}]
  BY WokenProps DEF Inv, QueueTypeOK, Finish, Busy
<1>2. \A v \in Workers \ {w} : job'[v] = job[v]
  BY DEF Inv, QueueTypeOK, Finish
<1>3. QueueTypeOK'
  BY <1>1 DEF Inv, QueueTypeOK, Finish, pending
<1>4. ArrivalOrder'
  BY DEF Inv, ArrivalOrder, Finish, pending
<1>5. Holders'
  BY <1>1, <1>2 DEF Inv, Holders, Finish, pending
<1>6. Bounded'
  <2>1. /\ IsFiniteSet(pending) /\ IsFiniteSet(inFlight) /\ pending' = pending
        /\ inFlight' = inFlight \ {job[w].fingerprint}
        /\ Cardinality(pending) <= MaxPending
    BY DEF Inv, Bounded, Finish, pending
  <2>2. IsFiniteSet(inFlight')
    BY <2>1, OneFewer
  <2> QED BY <2>1, <2>2 DEF Bounded
<1>7. Phases'
  <2>1. \A v \in Workers : pc'[v] = IF v # w THEN Woken[v]
                              ELSE IF pc[w] = "running" THEN "ready" ELSE "done"
    BY WokenProps DEF Inv, QueueTypeOK, Finish
  <2>2. /\ UNCHANGED <<heap, accepting, closing, closer, shutdown>>
        /\ pc[w] \in {"running", "cancelled"}
    BY DEF Finish
  <2>3. closer # "closed" /\ pending' = pending
    BY <2>2 DEF Inv, Phases, pending
  <2> QED BY <2>1, <2>2, <2>3, WokenProps DEF Inv, Phases
<1> QED BY <1>3, <1>4, <1>5, <1>6, <1>7 DEF Inv

(* The steps that leave the heap, inFlight and the jobs as they are.       *)
LEMMA OtherStepsKeepInv ==
    ASSUME Inv,
           \/ Start \/ CloserStep
           \/ \E w \in Workers : Sleep(w) \/ Stop(w)
    PROVE  Inv'
<1>1. UNCHANGED <<heap, inFlight, job>> /\ pending' = pending
  BY DEF Start, CloserStep, Sleep, Stop, CloseUnstarted, Close, Drained,
         GraceExpires, CloseReturns, pending
<1>2. QueueTypeOK /\ Phases
  BY DEF Inv
<1>3. Cardinality(pending) \in Nat /\ Cardinality(inFlight) \in Nat
  BY FS_CardinalityType DEF Inv, Bounded
<1>4. QueueTypeOK' /\ Busy' = Busy /\ Phases'
  <2>1. CASE Start
    BY <1>1, <1>2, <2>1 DEF Start, started, Busy, QueueTypeOK, Phases
  <2>2. ASSUME NEW w \in Workers, Sleep(w) \/ Stop(w)
        PROVE  QueueTypeOK' /\ Busy' = Busy /\ Phases'
    BY <1>1, <1>2, <2>2 DEF Sleep, Stop, Busy, QueueTypeOK, Phases
  <2>3. CASE CloseUnstarted
    BY <1>1, <1>2, <1>3, <2>3
       DEF CloseUnstarted, started, Busy, QueueTypeOK, Phases
  <2>4. CASE Close
    BY <1>1, <1>2, <2>4, WokenProps DEF Close, Busy, QueueTypeOK, Phases
  <2>5. CASE Drained
    BY <1>1, <1>2, <2>5, QueueAssumption
       DEF Drained, Busy, QueueTypeOK, Phases, QueueAssumption
  <2>6. CASE GraceExpires
    BY <1>1, <1>2, <1>3, <2>6
       DEF GraceExpires, GraceIsOver, Busy, QueueTypeOK, Phases
  <2>7. CASE CloseReturns
    BY <1>1, <1>2, <2>7 DEF CloseReturns, Busy, QueueTypeOK, Phases
  <2> QED BY <2>1, <2>2, <2>3, <2>4, <2>5, <2>6, <2>7 DEF CloserStep
<1>5. ArrivalOrder' /\ Holders' /\ Bounded'
  BY <1>1, <1>4 DEF Inv, ArrivalOrder, Holders, Bounded
<1> QED BY <1>4, <1>5 DEF Inv

-----------------------------------------------------------------------------
(* The inductive invariant.                                                *)
LEMMA InitInv == QueueInit => Inv
<1> SUFFICES ASSUME QueueInit PROVE Inv
  OBVIOUS
<1>1. pending = {} /\ heap \in [pending -> Item]
  BY DEF QueueInit, pending
<1>2. Busy = {} /\ QueueTypeOK
  BY <1>1 DEF QueueInit, QueueTypeOK, Busy
<1>3. ArrivalOrder /\ Holders
  BY <1>1, <1>2 DEF QueueInit, ArrivalOrder, Holders
<1>4. Bounded
  BY <1>1, FS_EmptySet, QueueAssumption DEF QueueInit, Bounded
<1>5. Phases
  BY DEF QueueInit, Phases
<1> QED BY <1>2, <1>3, <1>4, <1>5 DEF Inv

LEMMA EnqueueKeepsInv ==
    ASSUME Inv, NEW f \in Fingerprints, NEW s \in Severities, NEW v \in Payloads,
           Enqueue(f, s, v)
    PROVE  Inv' \/ UNCHANGED queueVars
<1> DEFINE p == priority_for_severity(s)
<1>1. p \in 0..3
  BY PriorityType
<1> HIDE DEF p
<1>2. Refuse(f, p) \/ Coalesce(f, p, v) \/ Push(f, p, v) \/ Evict(f, p, v)
  BY DEF Enqueue, p
<1>3. CASE Refuse(f, p)
  BY <1>3 DEF Refuse
<1>4. CASE Coalesce(f, p, v)
  BY <1>1, <1>4, CoalesceKeepsInv
<1>5. CASE Push(f, p, v)
  BY <1>1, <1>5, PushKeepsInv
<1>6. CASE Evict(f, p, v)
  BY <1>1, <1>6, EvictKeepsInv
<1> QED BY <1>2, <1>3, <1>4, <1>5, <1>6

LEMMA StutterKeepsInv ==
    ASSUME Inv, UNCHANGED queueVars PROVE Inv'
BY DEF Inv, QueueTypeOK, ArrivalOrder, Holders, Bounded, Phases, Busy, pending,
       queueVars

LEMMA NextKeepsInv == Inv /\ [QueueNext]_queueVars => Inv'
<1> SUFFICES ASSUME Inv, [QueueNext]_queueVars PROVE Inv'
  OBVIOUS
<1>1. ASSUME NEW f \in Fingerprints, NEW s \in Severities, NEW v \in Payloads,
             Enqueue(f, s, v)
      PROVE  Inv'
  BY <1>1, EnqueueKeepsInv, StutterKeepsInv
<1>2. ASSUME NEW f \in Fingerprints, Cancel(f) PROVE Inv'
  BY <1>2, CancelKeepsInv
<1>3. ASSUME NEW w \in Workers, Take(w) PROVE Inv'
  BY <1>3, TakeKeepsInv
<1>4. ASSUME NEW w \in Workers, Finish(w) PROVE Inv'
  BY <1>4, FinishKeepsInv
<1>5. CASE \/ Start \/ CloserStep
           \/ \E w \in Workers : Sleep(w) \/ Stop(w)
  BY <1>5, OtherStepsKeepInv
<1>6. CASE UNCHANGED queueVars
  BY <1>6, StutterKeepsInv
<1> QED BY <1>1, <1>2, <1>3, <1>4, <1>5, <1>6 DEF QueueNext, Calls, WorkerStep

LEMMA InvIsInvariant == QueueSpec => []Inv
BY InitInv, NextKeepsInv, PTL DEF QueueSpec

(* Each incident in flight has a busy worker of its own.                   *)
LEMMA FlightsHaveWorkers ==
    ASSUME Inv
    PROVE  /\ Cardinality(inFlight) <= Cardinality(Busy)
           /\ Cardinality(Busy) <= Cardinality(Workers)
           /\ Cardinality(inFlight) \in Nat /\ Cardinality(Busy) \in Nat
           /\ Cardinality(Workers) \in Nat
<1> DEFINE held == [w \in Busy |-> job[w].fingerprint]
<1>1. IsFiniteSet(Busy) /\ Cardinality(Busy) <= Cardinality(Workers)
  BY FS_Subset, QueueAssumption DEF Busy, QueueAssumption
<1>2. held \in Surjection(Busy, inFlight)
  BY DEF Inv, Holders, Surjection
<1>3. Cardinality(inFlight) <= Cardinality(Busy)
  BY <1>1, <1>2, FS_Surjection
<1> QED BY <1>1, <1>3, FS_CardinalityType, QueueAssumption
        DEF Inv, Bounded, QueueAssumption

-----------------------------------------------------------------------------
(* Every variable keeps its type.                                          *)
THEOREM QueueTypeCorrect == QueueSpec => []QueueTypeOK
<1>1. Inv => QueueTypeOK
  BY DEF Inv
<1> QED BY <1>1, InvIsInvariant, PTL

(* Whatever the poll loop enqueues, coalesces or cancels while workers run *)
(* and close() cancels them, no incident has two workers, and none waits   *)
(* in the heap while a worker holds it.                                    *)
THEOREM OneInvestigation == QueueSpec => []OneInvestigationPerIncident
<1>1. Inv => OneInvestigationPerIncident
  BY DEF Inv, Holders, OneInvestigationPerIncident
<1> QED BY <1>1, InvIsInvariant, PTL

(* The heap is totally ordered by priority and arrival, through coalescing *)
(* and evictions.                                                          *)
THEOREM HeapOrder == QueueSpec => []HeapIsOrdered
<1>1. ASSUME Inv PROVE HeapIsOrdered
  <2>1. \A f \in pending : heap[f].priority \in 0..3
    BY <1>1 DEF Inv, QueueTypeOK, Item
  <2> QED BY <1>1, <2>1 DEF Inv, ArrivalOrder, HeapIsOrdered, Before
<1> QED BY <1>1, InvIsInvariant, PTL

(* The backlog stays within max_pending, and what is in flight within the  *)
(* number of workers.                                                      *)
THEOREM WorkStaysBounded == QueueSpec => []WorkIsBounded
<1>1. ASSUME Inv PROVE WorkIsBounded
  <2>1. /\ Cardinality(inFlight) <= Cardinality(Busy)
        /\ Cardinality(Busy) <= Cardinality(Workers)
        /\ Cardinality(inFlight) \in Nat /\ Cardinality(Busy) \in Nat
        /\ Cardinality(Workers) \in Nat
    BY <1>1, FlightsHaveWorkers
  <2> QED BY <1>1, <2>1 DEF Inv, Bounded, WorkIsBounded
<1> QED BY <1>1, InvIsInvariant, PTL

(* When close() has returned no handler runs any more, and it said drained *)
(* only if nothing was left in the heap.                                   *)
THEOREM CloseIsFinal == QueueSpec => []ClosedMeansStopped
<1>1. ASSUME Inv, closer = "closed" PROVE Busy = {} /\ inFlight = {}
  BY <1>1 DEF Inv, Phases, Holders, Busy
<1>2. Inv => ClosedMeansStopped
  BY <1>1 DEF Inv, Phases, ClosedMeansStopped
<1> QED BY <1>2, InvIsInvariant, PTL

-----------------------------------------------------------------------------
(* The queue implements the ledger its callers rely on.                    *)

(* What the ledger says of an incident, before and after a step.           *)
LEMMA LedgerReads ==
    ASSUME Inv
    PROVE  /\ Contract!Entries("pending") = pending
           /\ Contract!Entries("in flight") = inFlight
           /\ ledger \in [Fingerprints -> {"absent", "pending", "in flight"}]
           /\ \A f \in Fingerprints :
                 /\ ledger[f] = "pending" <=> f \in pending
                 /\ ledger[f] = "in flight" <=> f \in inFlight
                 /\ ledger[f] = "absent" <=> f \notin pending \cup inFlight
BY DEF Inv, QueueTypeOK, Holders, ledger, Contract!Entries

(* A step that moves nothing in or out of the heap and inFlight.           *)
LEMMA LedgerKept ==
    ASSUME pending' = pending, inFlight' = inFlight
    PROVE  ledger' = ledger
BY DEF ledger

(* The entry of one incident changes.                                      *)
LEMMA LedgerMoves ==
    ASSUME Inv, Inv', NEW f \in Fingerprints,
           pending' \ {f} = pending \ {f}, inFlight' \ {f} = inFlight \ {f}
    PROVE  ledger' = [ledger EXCEPT ![f] = ledger'[f]]
BY DEF ledger

(* The instance of the contract counts as this module does.                *)
LEMMA SameCardinality ==
    ASSUME NEW S PROVE Contract!Cardinality(S) = Cardinality(S)
BY DEF Contract!Cardinality, Cardinality

LEMMA EnqueueRefines ==
    ASSUME Inv, Inv', NEW f \in Fingerprints, NEW p \in 0..3, NEW v \in Payloads,
           Coalesce(f, p, v) \/ Push(f, p, v) \/ Evict(f, p, v)
    PROVE  [Contract!Next]_<<ledger, accepting>>
<1>1. CASE Coalesce(f, p, v)
  <2>1. pending' = pending /\ inFlight' = inFlight /\ accepting' = accepting
    BY <1>1 DEF Coalesce, Inv, QueueTypeOK, pending
  <2> QED BY <2>1, LedgerKept
<1>2. CASE Push(f, p, v)
  <2>1. /\ pending' = pending \cup {f} /\ inFlight' = inFlight
        /\ accepting' = accepting /\ accepting
        /\ f \notin pending \cup inFlight
        /\ ~(Cardinality(pending) >= MaxPending)
    BY <1>2 DEF Push, With, Acceptable, Full, pending
  <2>2. Cardinality(pending) < MaxPending
    BY <2>1, FS_CardinalityType, QueueAssumption DEF Inv, Bounded, QueueAssumption
  <2>3. ledger'[f] = "pending"
    BY <2>1 DEF ledger
  <2>4. ledger' = [ledger EXCEPT ![f] = "pending"]
    BY <2>1, <2>3, LedgerMoves
  <2>5. Contract!Submit(f)
    BY <2>1, <2>2, <2>4, LedgerReads, SameCardinality DEF Contract!Submit
  <2> QED BY <2>5 DEF Contract!Next
<1>3. CASE Evict(f, p, v)
  <2>1. PICK worst \in pending :
           heap' = With(Without(heap, worst), f, NewItem(Without(heap, worst), p, v))
    BY <1>3 DEF Evict
  <2>2. /\ pending' = (pending \ {worst}) \cup {f} /\ inFlight' = inFlight
        /\ accepting' = accepting /\ accepting
        /\ f \notin pending \cup inFlight
        /\ Cardinality(pending) >= MaxPending
    BY <1>3, <2>1 DEF Evict, With, Without, Acceptable, Full, pending
  <2>3. worst \in Fingerprints /\ worst \notin inFlight /\ worst # f
    BY <2>2 DEF Inv, QueueTypeOK, Holders
  <2>4. ledger' = [ledger EXCEPT ![f] = "pending", ![worst] = "absent"]
    BY <2>2, <2>3 DEF ledger
  <2>5. Contract!Displace(f, worst)
    BY <2>2, <2>3, <2>4, LedgerReads, SameCardinality DEF Contract!Displace
  <2> QED BY <2>3, <2>5 DEF Contract!Next
<1> QED BY <1>1, <1>2, <1>3

LEMMA CancelRefines ==
    ASSUME Inv, Inv', NEW f \in Fingerprints, Cancel(f)
    PROVE  [Contract!Next]_<<ledger, accepting>>
<1>1. /\ pending' = pending \ {f} /\ inFlight' = inFlight
      /\ accepting' = accepting
  BY DEF Cancel, Without, pending
<1>2. CASE f \notin pending
  BY <1>1, <1>2, LedgerKept
<1>3. CASE f \in pending
  <2>1. ledger'[f] = "absent"
    BY <1>1, <1>3 DEF Inv, Holders, ledger
  <2>2. ledger' = [ledger EXCEPT ![f] = "absent"]
    BY <1>1, <2>1, LedgerMoves
  <2>3. Contract!Withdraw(f)
    BY <1>1, <1>3, <2>2, LedgerReads DEF Contract!Withdraw
  <2> QED BY <2>3 DEF Contract!Next
<1> QED BY <1>2, <1>3

(* A worker that takes an incident was not busy, so there was room for it. *)
LEMMA TakeRefines ==
    ASSUME Inv, Inv', NEW w \in Workers, Take(w)
    PROVE  [Contract!Next]_<<ledger, accepting>>
<1>1. PICK f \in pending :
         heap' = Without(heap, f) /\ inFlight' = inFlight \cup {f}
  BY DEF Take
<1>2. /\ pending' = pending \ {f} /\ accepting' = accepting
      /\ f \in Fingerprints /\ f \notin inFlight
  BY <1>1 DEF Take, Without, pending, Inv, QueueTypeOK, Holders
<1>3. Cardinality(inFlight) < Cardinality(Workers)
  <2>1. Busy \subseteq Workers \ {w} /\ w \in Workers
    BY DEF Take, Busy
  <2>2. /\ IsFiniteSet(Workers \ {w}) /\ Cardinality(Workers \ {w}) \in Nat
        /\ Cardinality(Workers \ {w}) = Cardinality(Workers) - 1
    BY OneFewer, QueueAssumption DEF QueueAssumption
  <2>3. Cardinality(Busy) <= Cardinality(Workers \ {w})
    BY <2>1, <2>2, FS_Subset
  <2> QED BY <2>2, <2>3, FlightsHaveWorkers
<1>4. ledger'[f] = "in flight"
  BY <1>1, <1>2 DEF ledger
<1>5. ledger' = [ledger EXCEPT ![f] = "in flight"]
  BY <1>1, <1>2, <1>4, LedgerMoves
<1>6. Contract!Assign(f)
  BY <1>2, <1>3, <1>5, LedgerReads, SameCardinality DEF Contract!Assign
<1> QED BY <1>2, <1>6 DEF Contract!Next

LEMMA FinishRefines ==
    ASSUME Inv, Inv', NEW w \in Workers, Finish(w)
    PROVE  [Contract!Next]_<<ledger, accepting>>
<1> DEFINE f == job[w].fingerprint
<1>1. f \in inFlight /\ f \in Fingerprints /\ f \notin pending
  BY DEF Inv, QueueTypeOK, Holders, Busy, Finish
<1>2. /\ pending' = pending /\ inFlight' = inFlight \ {f}
      /\ accepting' = accepting
  BY DEF Finish, pending
<1> HIDE DEF f
<1>3. ledger'[f] = "absent"
  BY <1>1, <1>2 DEF ledger
<1>4. ledger' = [ledger EXCEPT ![f] = "absent"]
  BY <1>1, <1>2, <1>3, LedgerMoves
<1>5. Contract!Complete(f)
  BY <1>1, <1>2, <1>4, LedgerReads DEF Contract!Complete
<1> QED BY <1>1, <1>5 DEF Contract!Next

(* Starting, sleeping, stopping and the later stages of close() show       *)
(* nothing; the call of close() itself shuts the ledger.                   *)
LEMMA OtherStepsRefine ==
    ASSUME \/ Start \/ CloserStep
           \/ \E w \in Workers : Sleep(w) \/ Stop(w)
    PROVE  [Contract!Next]_<<ledger, accepting>>
<1>1. pending' = pending /\ inFlight' = inFlight
  BY DEF Start, CloserStep, Sleep, Stop, CloseUnstarted, Close, Drained,
         GraceExpires, CloseReturns, pending
<1>2. accepting' = accepting \/ accepting' = FALSE
  BY DEF Start, CloserStep, Sleep, Stop, CloseUnstarted, Close, Drained,
         GraceExpires, CloseReturns
<1> QED BY <1>1, <1>2, LedgerKept DEF Contract!Next, Contract!Shut

LEMMA InitRefines == QueueInit => Contract!Init
BY DEF QueueInit, ledger, pending, Contract!Init

LEMMA NextRefines ==
    Inv /\ Inv' /\ [QueueNext]_queueVars => [Contract!Next]_<<ledger, accepting>>
<1> SUFFICES ASSUME Inv, Inv', [QueueNext]_queueVars
             PROVE  [Contract!Next]_<<ledger, accepting>>
  OBVIOUS
<1>1. CASE UNCHANGED queueVars
  BY <1>1, LedgerKept DEF queueVars, pending
<1>2. ASSUME NEW f \in Fingerprints, NEW s \in Severities, NEW v \in Payloads,
             Enqueue(f, s, v)
      PROVE  [Contract!Next]_<<ledger, accepting>>
  <2> DEFINE p == priority_for_severity(s)
  <2>1. p \in 0..3
    BY PriorityType
  <2> HIDE DEF p
  <2>2. Refuse(f, p) \/ Coalesce(f, p, v) \/ Push(f, p, v) \/ Evict(f, p, v)
    BY <1>2 DEF Enqueue, p
  <2>3. CASE Refuse(f, p)
    BY <2>3, LedgerKept DEF Refuse, queueVars, pending
  <2> QED BY <2>1, <2>2, <2>3, EnqueueRefines
<1>3. ASSUME NEW f \in Fingerprints, Cancel(f)
      PROVE  [Contract!Next]_<<ledger, accepting>>
  BY <1>3, CancelRefines
<1>4. ASSUME NEW w \in Workers, Take(w)
      PROVE  [Contract!Next]_<<ledger, accepting>>
  BY <1>4, TakeRefines
<1>5. ASSUME NEW w \in Workers, Finish(w)
      PROVE  [Contract!Next]_<<ledger, accepting>>
  BY <1>5, FinishRefines
<1>6. CASE \/ Start \/ CloserStep
           \/ \E w \in Workers : Sleep(w) \/ Stop(w)
  BY <1>6, OtherStepsRefine
<1> QED BY <1>1, <1>2, <1>3, <1>4, <1>5, <1>6 DEF QueueNext, Calls, WorkerStep

(* Heap, condition variable, workers and close() together behave as the    *)
(* ledger: an incident enters as pending if there is room or in the place  *)
(* of another, is in flight at most once and in at most one of             *)
(* worker_count, and nothing enters after close() (InvestigationQueue).    *)
THEOREM QueueKeepsContract == QueueSpec => KeepsContract
<1>1. QueueInit => Contract!Init
  BY InitRefines
<1>2. Inv /\ Inv' /\ [QueueNext]_queueVars
         => [Contract!Next]_<<ledger, accepting>>
  BY NextRefines
<1> QED BY <1>1, <1>2, InvIsInvariant, PTL
        DEF QueueSpec, KeepsContract, Contract!Spec

-----------------------------------------------------------------------------
(* No wakeup is lost.                                                      *)

ReadySet == {w \in Workers : pc[w] = "ready"}

LEMMA ReadyIsFinite ==
    ASSUME Inv
    PROVE  /\ IsFiniteSet(ReadySet) /\ Cardinality(ReadySet) \in Nat
           /\ IsFiniteSet(pending) /\ Cardinality(pending) \in Nat
BY FS_Subset, FS_CardinalityType, QueueAssumption
   DEF ReadySet, QueueAssumption, Inv, Bounded

(* A push adds at most one item and wakes one sleeper, if there is any.    *)
LEMMA NotifyKeepsUp ==
    ASSUME Inv, Inv', NoLostWakeup, NotifyOne,
           Cardinality(pending') <= Cardinality(pending) + 1
    PROVE  NoLostWakeup'
<1> SUFFICES ASSUME Waiting' # {}
             PROVE  Cardinality(pending') <= Cardinality(ReadySet')
  BY DEF NoLostWakeup, ReadySet
<1>1. /\ Waiting # {}
      /\ \E w \in Waiting : pc' = [pc EXCEPT ![w] = "ready"]
  BY DEF NotifyOne, Waiting
<1>2. PICK w \in Waiting : pc' = [pc EXCEPT ![w] = "ready"]
  BY <1>1
<1>3. /\ w \in Workers /\ w \notin ReadySet
      /\ ReadySet' = ReadySet \cup {w}
  BY <1>2 DEF Waiting, ReadySet, Inv, QueueTypeOK
<1>4. Cardinality(ReadySet') = Cardinality(ReadySet) + 1
  BY <1>3, ReadyIsFinite, OneMore
<1>5. Cardinality(pending) <= Cardinality(ReadySet)
  BY <1>1 DEF NoLostWakeup, ReadySet
<1>6. Cardinality(pending') \in Nat
  BY FS_CardinalityType DEF Inv, Bounded
<1> QED BY <1>4, <1>5, <1>6, ReadyIsFinite

LEMMA NextKeepsWakeups ==
    Inv /\ Inv' /\ NoLostWakeup /\ [QueueNext]_queueVars => NoLostWakeup'
<1> SUFFICES ASSUME Inv, Inv', NoLostWakeup, [QueueNext]_queueVars
             PROVE  NoLostWakeup'
  OBVIOUS
<1>0. /\ Cardinality(pending) \in Nat /\ IsFiniteSet(pending)
      /\ Cardinality(pending') \in Nat /\ IsFiniteSet(pending')
  BY FS_CardinalityType DEF Inv, Bounded
<1>1. CASE UNCHANGED queueVars
  BY <1>1 DEF queueVars, NoLostWakeup, Waiting, pending
<1>2. ASSUME NEW f \in Fingerprints, NEW s \in Severities, NEW v \in Payloads,
             Enqueue(f, s, v)
      PROVE  NoLostWakeup'
  <2> DEFINE p == priority_for_severity(s)
  <2>1. Refuse(f, p) \/ Coalesce(f, p, v) \/ Push(f, p, v) \/ Evict(f, p, v)
    BY <1>2 DEF Enqueue
  <2> HIDE DEF p
  <2>2. CASE Refuse(f, p)
    BY <2>2 DEF Refuse, queueVars, NoLostWakeup, Waiting, pending
  <2>3. CASE Coalesce(f, p, v)
    <3>1. pending' = pending /\ NotifyOne
      BY <2>3 DEF Coalesce, Inv, QueueTypeOK, pending
    <3> QED BY <1>0, <3>1, NotifyKeepsUp
  <2>4. CASE Push(f, p, v)
    <3>1. pending' = pending \cup {f} /\ f \notin pending /\ NotifyOne
      BY <2>4 DEF Push, With, pending
    <3>2. Cardinality(pending') = Cardinality(pending) + 1
      BY <1>0, <3>1, OneMore
    <3> QED BY <1>0, <3>1, <3>2, NotifyKeepsUp
  <2>5. CASE Evict(f, p, v)
    <3>1. PICK worst \in pending :
             heap' = With(Without(heap, worst), f,
                          NewItem(Without(heap, worst), p, v))
      BY <2>5 DEF Evict
    <3>2. pending' = (pending \ {worst}) \cup {f} /\ f \notin pending /\ NotifyOne
      BY <2>5, <3>1 DEF Evict, With, Without, pending
    <3>3. Cardinality(pending') <= Cardinality(pending) + 1
      <4>1. /\ IsFiniteSet(pending \ {worst}) /\ f \notin pending \ {worst}
            /\ Cardinality(pending \ {worst}) = Cardinality(pending) - 1
        BY <1>0, <3>2, OneFewer
      <4>2. Cardinality(pending') = Cardinality(pending \ {worst}) + 1
        BY <3>2, <4>1, OneMore
      <4> QED BY <1>0, <4>1, <4>2
    <3> QED BY <3>2, <3>3, NotifyKeepsUp
  <2> QED BY <2>1, <2>2, <2>3, <2>4, <2>5
<1>3. ASSUME NEW f \in Fingerprints, Cancel(f) PROVE NoLostWakeup'
  <2>1. CASE f \in pending
    BY <1>3, <2>1, WokenProps DEF Cancel, NoLostWakeup, Waiting, Inv
  <2>2. CASE f \notin pending
    <3>1. pending' = pending /\ pc' = pc
      BY <1>3, <2>2 DEF Cancel, Without, pending
    <3> QED BY <3>1 DEF NoLostWakeup, Waiting
  <2> QED BY <2>1, <2>2
<1>4. ASSUME NEW w \in Workers, Take(w) PROVE NoLostWakeup'
  <2>1. PICK f \in pending : heap' = Without(heap, f)
    BY <1>4 DEF Take
  <2>2. pending' = pending \ {f}
    BY <2>1 DEF Without, pending
  <2>3. /\ ReadySet' = ReadySet \ {w} /\ w \in ReadySet
        /\ Waiting' = Waiting
    BY <1>4 DEF Take, ReadySet, Waiting, Inv, QueueTypeOK
  <2>4. /\ Cardinality(pending') = Cardinality(pending) - 1
        /\ Cardinality(ReadySet') = Cardinality(ReadySet) - 1
    BY <1>0, <2>1, <2>2, <2>3, OneFewer, ReadyIsFinite
  <2>5. Waiting # {} => Cardinality(pending) <= Cardinality(ReadySet)
    BY DEF NoLostWakeup, ReadySet
  <2>6. Waiting' # {} => Cardinality(pending') <= Cardinality(ReadySet')
    BY <1>0, <2>3, <2>4, <2>5, ReadyIsFinite
  <2> QED BY <2>6 DEF NoLostWakeup, ReadySet
<1>5. ASSUME NEW w \in Workers, Sleep(w) \/ Stop(w) PROVE NoLostWakeup'
  <2>1. pending' = {}
    BY <1>5 DEF Sleep, Stop, pending
  <2>2. Cardinality(pending') = 0
    BY <2>1, FS_EmptySet
  <2>3. Cardinality(ReadySet') \in Nat
    BY FS_Subset, FS_CardinalityType, QueueAssumption
       DEF ReadySet, QueueAssumption
  <2> QED BY <2>2, <2>3 DEF NoLostWakeup, ReadySet
<1>6. ASSUME NEW w \in Workers, Finish(w) PROVE NoLostWakeup'
  <2>1. Waiting' = {}
    BY <1>6, WokenProps DEF Finish, Waiting, Inv, QueueTypeOK
  <2> QED BY <2>1 DEF NoLostWakeup
<1>7. CASE Start \/ Close \/ GraceExpires
  <2>1. Waiting' = {}
    BY <1>7, WokenProps DEF Start, Close, GraceExpires, Waiting, Inv
  <2> QED BY <2>1 DEF NoLostWakeup
<1>8. CASE CloseUnstarted \/ Drained \/ CloseReturns
  BY <1>8 DEF CloseUnstarted, Drained, CloseReturns, NoLostWakeup, Waiting, pending
<1> QED BY <1>1, <1>2, <1>3, <1>4, <1>5, <1>6, <1>7, <1>8
        DEF QueueNext, Calls, WorkerStep, CloserStep

(* A worker sleeps on the condition only while the workers already awake   *)
(* suffice for the backlog, although a push notifies one sleeper only      *)
(* (enqueue(), _next()).                                                   *)
THEOREM WakeupsAreNotLost == QueueSpec => []NoLostWakeup
<1>1. QueueInit => NoLostWakeup
  BY DEF QueueInit, NoLostWakeup, Waiting
<1> QED BY <1>1, NextKeepsWakeups, InvIsInvariant, PTL DEF QueueSpec

-----------------------------------------------------------------------------
(* Nobody is overtaken without a reason.                                   *)

Overtaking ==
    \E f, g \in pending \cap pending' :
        /\ Before(f, g) /\ heap'[g].priority = heap[g].priority
        /\ ~Before(f, g)'

(* Items that stay keep their predecessors, and priorities only rise.      *)
Settled ==
    \A g \in pending \cap pending' :
        /\ heap[g].priority \in Nat /\ heap'[g].priority \in Nat
        /\ heap'[g].priority <= heap[g].priority
        /\ heap[g].ahead \cap pending' \subseteq heap'[g].ahead

LEMMA SettledOrder == ASSUME Settled PROVE ~Overtaking
BY DEF Settled, Overtaking, Before

LEMMA Priorities ==
    ASSUME Inv PROVE \A g \in pending : heap[g].priority \in 0..3
BY DEF Inv, QueueTypeOK, Item

(* Removing one item and adding another leaves the rest in order.          *)
LEMMA RemovalSettles ==
    ASSUME Inv, NEW f, heap' = Without(heap, f) PROVE Settled
<1>1. \A g \in pending' : /\ g \in pending
                          /\ heap'[g] = [heap[g] EXCEPT !.ahead = @ \ {f}]
                           /\ heap[g] \in Item
  BY DEF Without, pending, Inv, QueueTypeOK
<1>2. \A g \in pending' : heap'[g].priority = heap[g].priority
                           /\ heap'[g].ahead = heap[g].ahead \ {f}
  BY <1>1 DEF Item
<1>3. f \notin pending'
  BY DEF Without, pending
<1> QED BY <1>1, <1>2, <1>3, Priorities DEF Settled

LEMMA NextSettles == Inv /\ [QueueNext]_queueVars => ~Overtaking
<1> SUFFICES ASSUME Inv, [QueueNext]_queueVars PROVE Settled
  BY SettledOrder
<1>0. \A g \in pending : heap[g].priority \in 0..3 /\ heap[g] \in Item
  BY Priorities DEF Inv, QueueTypeOK
<1>1. CASE heap' = heap
  BY <1>0, <1>1 DEF Settled, pending
<1>2. ASSUME NEW f, heap' = Without(heap, f) PROVE Settled
  BY <1>2, RemovalSettles
<1>3. ASSUME NEW f \in Fingerprints, NEW p \in 0..3, NEW v \in Payloads,
             Coalesce(f, p, v)
      PROVE  Settled
  <2> DEFINE urgent == IF p < heap[f].priority THEN p ELSE heap[f].priority
  <2>1. /\ heap' = [heap EXCEPT ![f].priority = urgent, ![f].payload = v]
        /\ f \in pending /\ urgent \in Nat /\ urgent <= heap[f].priority
        /\ heap \in [pending -> Item]
    BY <1>0, <1>3 DEF Coalesce, Inv, QueueTypeOK
  <2> HIDE DEF urgent
  <2>2. pending' = pending /\ heap'[f].priority = urgent
    BY <2>1 DEF pending, Item
  <2>3. \A g \in pending : /\ heap'[g].ahead = heap[g].ahead
                           /\ g # f => heap'[g] = heap[g]
    BY <2>1 DEF pending, Item
  <2> QED BY <1>0, <2>1, <2>2, <2>3 DEF Settled
<1>4. ASSUME NEW f \in Fingerprints, NEW p \in 0..3, NEW v \in Payloads,
             Push(f, p, v)
      PROVE  Settled
  <2>1. /\ f \notin pending
        /\ \A g \in pending : heap'[g] = heap[g]
    BY <1>4 DEF Push, With, pending
  <2> QED BY <1>0, <2>1 DEF Settled
<1>5. ASSUME NEW f \in Fingerprints, NEW p \in 0..3, NEW v \in Payloads,
             Evict(f, p, v)
      PROVE  Settled
  <2>1. PICK worst \in pending :
           heap' = With(Without(heap, worst), f,
                        NewItem(Without(heap, worst), p, v))
    BY <1>5 DEF Evict
  <2>2. /\ f \notin pending
        /\ pending' = (pending \ {worst}) \cup {f}
        /\ \A g \in pending \ {worst} :
              heap'[g] = [heap[g] EXCEPT !.ahead = @ \ {worst}]
    BY <1>5, <2>1 DEF Evict, With, Without, pending
  <2>3. \A g \in pending \ {worst} :
           /\ heap'[g].priority = heap[g].priority
           /\ heap'[g].ahead = heap[g].ahead \ {worst}
    BY <1>0, <2>2 DEF Item
  <2> QED BY <1>0, <2>2, <2>3 DEF Settled
<1>6. ASSUME NEW f \in Fingerprints, NEW s \in Severities, NEW v \in Payloads,
             Enqueue(f, s, v)
      PROVE  Settled
  <2> DEFINE p == priority_for_severity(s)
  <2>1. /\ p \in 0..3
        /\ Refuse(f, p) \/ Coalesce(f, p, v) \/ Push(f, p, v) \/ Evict(f, p, v)
    BY <1>6, PriorityType DEF Enqueue
  <2> HIDE DEF p
  <2>2. Refuse(f, p) => heap' = heap
    BY DEF Refuse, queueVars
  <2> QED BY <1>1, <1>3, <1>4, <1>5, <2>1, <2>2
<1>7. \/ heap' = heap
      \/ \E f : heap' = Without(heap, f)
      \/ \E f \in Fingerprints, s \in Severities, v \in Payloads : Enqueue(f, s, v)
  BY DEF QueueNext, Calls, CloserStep, WorkerStep, Start, Cancel, Take, Sleep,
         Stop, Finish, CloseUnstarted, Close, Drained, GraceExpires,
         CloseReturns, queueVars
<1> QED BY <1>1, <1>2, <1>6, <1>7

(* Later arrivals, coalescing, evictions and cancellations keep the order  *)
(* of the items that stay; only a rise in priority lets one pass another   *)
(* (enqueue(), cancel(), _next()).                                         *)
THEOREM OrderIsKept == QueueSpec => NoOvertaking
<1>1. Inv /\ [QueueNext]_queueVars
         => [\A f, g \in pending \cap pending' :
                Before(f, g) /\ heap'[g].priority = heap[g].priority
                => Before(f, g)']_queueVars
  BY NextSettles DEF Overtaking
<1> QED BY <1>1, InvIsInvariant, PTL DEF QueueSpec, NoOvertaking
=============================================================================
