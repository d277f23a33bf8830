------------------------- MODULE InvestigationQueue -------------------------
(***************************************************************************)
(* The bounded queue between the poll loop and the investigation workers   *)
(* (uyuni_ai_agent/investigation_queue.py).                                *)
(*                                                                         *)
(* The heap and the _pending dictionary always change together, so one     *)
(* variable, heap, stands for both: its domain is the set of pending       *)
(* fingerprints.  The sequence numbers of the items are only ever          *)
(* compared; an item keeps instead the set of pending items that hold a    *)
(* smaller number (ahead), which is finite however long the queue runs.    *)
(*                                                                         *)
(* No critical section of the code awaits anything but the condition, so   *)
(* the lock is free whenever a task asks for it and each section is one    *)
(* action.  What interleaves are the sections of the poll loop, of the     *)
(* workers and of close().                                                 *)
(***************************************************************************)
EXTENDS Naturals, FiniteSets

CONSTANTS
    Fingerprints,   \* identities of incidents
    Severities,     \* severities the detectors hand over
    Payloads,       \* the work handed over with an incident
    Workers,        \* worker_count tasks
    MaxPending,     \* max_pending
    None            \* Python's None

ASSUME QueueAssumption ==
    /\ MaxPending \in Nat \ {0}
    /\ IsFiniteSet(Workers) /\ Workers # {}
    /\ None \notin Fingerprints

VARIABLES
    heap,       \* pending fingerprint -> its queue item
    inFlight,   \* _in_flight
    accepting,  \* _accepting
    closing,    \* _closing
    pc,         \* where each worker task is
    job,        \* the item each worker took, or None
    closer,     \* where the call of close() is
    shutdown    \* what close() returned, or None

queueVars == <<heap, inFlight, accepting, closing, pc, job, closer, shutdown>>

priority_for_severity(severity) ==
    CASE severity = "critical" -> 0
      [] severity = "warning"  -> 1
      [] severity = "info"     -> 2
      [] OTHER                 -> 3

Item == [priority : 0..3, payload : Payloads, ahead : SUBSET Fingerprints]
Job  == [fingerprint : Fingerprints, payload : Payloads]

pending == DOMAIN heap

(* Variant with a bug: among equals the newest item comes first.           *)
NewestFirst(f, g) ==
    \/ heap[f].priority < heap[g].priority
    \/ heap[f].priority = heap[g].priority /\ g \in heap[f].ahead

(* The order of the heap: _QueueItem compares priority, then sequence.     *)
Before(f, g) ==
    \/ heap[f].priority < heap[g].priority
    \/ heap[f].priority = heap[g].priority /\ f \in heap[g].ahead

First(f) == \A g \in pending \ {f} : Before(f, g)
Worst(f) == \A g \in pending \ {f} : Before(g, f)

Without(h, f) ==
    [g \in DOMAIN h \ {f} |-> [h[g] EXCEPT !.ahead = @ \ {f}]]

With(h, f, item) ==
    [g \in DOMAIN h \cup {f} |-> IF g = f THEN item ELSE h[g]]

Waiting == {w \in Workers : pc[w] = "waiting"}

(* Variant with a bug: nobody is notified.                                 *)
NoNotify == UNCHANGED pc

(* Condition.notify() wakes one sleeping worker, notify_all() all of them. *)
(* A woken worker is "ready": it evaluates the predicate of _next() again. *)
NotifyOne ==
    IF Waiting = {} THEN UNCHANGED pc
    ELSE \E w \in Waiting : pc' = [pc EXCEPT ![w] = "ready"]

Woken == [w \in Workers |-> IF pc[w] = "waiting" THEN "ready" ELSE pc[w]]

QueueInit ==
    /\ heap = [f \in {} |-> None]
    /\ inFlight = {}
    /\ accepting = TRUE
    /\ closing = FALSE
    /\ pc = [w \in Workers |-> "off"]
    /\ job = [w \in Workers |-> None]
    /\ closer = "open"
    /\ shutdown = None

-----------------------------------------------------------------------------
(* Calls of the poll loop.                                                 *)

started == \E w \in Workers : pc[w] # "off"

Start ==
    /\ ~started /\ ~closing
    /\ pc' = [w \in Workers |-> "ready"]
    /\ UNCHANGED <<heap, inFlight, accepting, closing, job, closer, shutdown>>

(* Variants with a bug: the check for an investigation in flight, or the   *)
(* check for a closed queue, is forgotten.                                 *)
EvenInFlight(f) == accepting
EvenClosed(f) == f \notin inFlight

Acceptable(f) == accepting /\ f \notin inFlight

(* Variant with a bug: one item too many.                                  *)
OneTooMany == Cardinality(pending) > MaxPending

Full == Cardinality(pending) >= MaxPending

NewItem(h, priority, payload) ==
    [priority |-> priority, payload |-> payload, ahead |-> DOMAIN h]

(* REJECTED_CLOSED, IN_FLIGHT and REJECTED_FULL leave the queue as it is.  *)
Refuse(f, priority) ==
    /\ \/ ~Acceptable(f)
       \/ /\ f \notin pending /\ Full
          /\ \A g \in pending : Worst(g) => priority >= heap[g].priority
    /\ UNCHANGED queueVars

(* Variant with a bug: a coalesced item gets a new sequence number.        *)
MoveToTail(f, priority, payload) ==
    /\ Acceptable(f) /\ f \in pending
    /\ LET rest == Without(heap, f)
       IN  heap' = With(rest, f, NewItem(rest, priority, payload))
    /\ NotifyOne
    /\ UNCHANGED <<inFlight, accepting, closing, job, closer, shutdown>>

(* A duplicate of a pending incident keeps its place, takes the more       *)
(* urgent of both priorities and carries the newest payload.               *)
Coalesce(f, priority, payload) ==
    /\ Acceptable(f) /\ f \in pending
    /\ LET urgent == IF priority < heap[f].priority
                     THEN priority ELSE heap[f].priority
       IN  heap' = [heap EXCEPT ![f].priority = urgent, ![f].payload = payload]
    /\ NotifyOne
    /\ UNCHANGED <<inFlight, accepting, closing, job, closer, shutdown>>

Push(f, priority, payload) ==
    /\ Acceptable(f) /\ f \notin pending /\ ~Full
    /\ heap' = With(heap, f, NewItem(heap, priority, payload))
    /\ NotifyOne
    /\ UNCHANGED <<inFlight, accepting, closing, job, closer, shutdown>>

(* A full queue gives up its least important item for a more urgent one.   *)
Evict(f, priority, payload) ==
    /\ Acceptable(f) /\ f \notin pending /\ Full
    /\ \E worst \in pending :
          /\ Worst(worst) /\ priority < heap[worst].priority
          /\ LET rest == Without(heap, worst)
             IN  heap' = With(rest, f, NewItem(rest, priority, payload))
    /\ NotifyOne
    /\ UNCHANGED <<inFlight, accepting, closing, job, closer, shutdown>>

Enqueue(f, severity, payload) ==
    LET priority == priority_for_severity(severity)
    IN  \/ Refuse(f, priority)
        \/ Coalesce(f, priority, payload)
        \/ Push(f, priority, payload)
        \/ Evict(f, priority, payload)

(* cancel(): CANCELLED when pending, else IN_FLIGHT or NOT_FOUND.          *)
Cancel(f) ==
    /\ heap' = Without(heap, f)
    /\ pc' = IF f \in pending THEN Woken ELSE pc
    /\ UNCHANGED <<inFlight, accepting, closing, job, closer, shutdown>>

-----------------------------------------------------------------------------
(* The worker tasks.                                                       *)

(* _next(): take the most urgent item, ...                                 *)
Take(w) ==
    /\ pc[w] = "ready"
    /\ \E f \in pending :
          /\ First(f)
          /\ heap' = Without(heap, f)
          /\ inFlight' = inFlight \cup {f}
          /\ job' = [job EXCEPT ![w] =
                        [fingerprint |-> f, payload |-> heap[f].payload]]
    /\ pc' = [pc EXCEPT ![w] = "running"]
    /\ UNCHANGED <<accepting, closing, closer, shutdown>>

(* ... sleep on the condition while there is none, ...                     *)
Sleep(w) ==
    /\ pc[w] = "ready" /\ pending = {} /\ ~closing
    /\ pc' = [pc EXCEPT ![w] = "waiting"]
    /\ UNCHANGED <<heap, inFlight, accepting, closing, job, closer, shutdown>>

(* Variant with a bug: a worker leaves a backlog behind when closing.      *)
StopAtOnce(w) ==
    /\ pc[w] = "ready" /\ closing
    /\ pc' = [pc EXCEPT ![w] = "done"]
    /\ UNCHANGED <<heap, inFlight, accepting, closing, job, closer, shutdown>>

(* ... or return None once the queue is closing and empty.                 *)
Stop(w) ==
    /\ pc[w] = "ready" /\ pending = {} /\ closing
    /\ pc' = [pc EXCEPT ![w] = "done"]
    /\ UNCHANGED <<heap, inFlight, accepting, closing, job, closer, shutdown>>

(* The handler returned, raised an Exception that _worker() logs, or was   *)
(* cancelled.  The finally block forgets the fingerprint and wakes all     *)
(* sleepers; a cancelled worker then ends, any other asks for more work.   *)
Finish(w) ==
    /\ pc[w] \in {"running", "cancelled"}
    /\ inFlight' = inFlight \ {job[w].fingerprint}
    /\ job' = [job EXCEPT ![w] = None]
    /\ pc' = [Woken EXCEPT ![w] = IF pc[w] = "running" THEN "ready" ELSE "done"]
    /\ UNCHANGED <<heap, accepting, closing, closer, shutdown>>

-----------------------------------------------------------------------------
(* close().                                                                *)

CloseUnstarted ==
    /\ closer = "open" /\ ~started
    /\ accepting' = FALSE /\ closing' = TRUE
    /\ closer' = "closed"
    /\ shutdown' = [drained |-> pending = {}, abandoned |-> Cardinality(pending)]
    /\ UNCHANGED <<heap, inFlight, pc, job>>

Close ==
    /\ closer = "open" /\ started
    /\ accepting' = FALSE /\ closing' = TRUE
    /\ pc' = Woken
    /\ closer' = "draining"
    /\ UNCHANGED <<heap, inFlight, job, shutdown>>

(* All worker tasks ended within the grace period.                         *)
Drained ==
    /\ closer = "draining" /\ \A w \in Workers : pc[w] = "done"
    /\ closer' = "closed"
    /\ shutdown' = [drained |-> TRUE, abandoned |-> 0]
    /\ UNCHANGED <<heap, inFlight, accepting, closing, pc, job>>

(* Variant with a bug: the timer is ignored unless there is a backlog.     *)
GraceForBacklog == closer = "draining" /\ pending # {}

GraceIsOver == closer = "draining" /\ \E w \in Workers : pc[w] # "done"

(* The grace period is over: every worker task is cancelled.  One that     *)
(* runs its handler still executes the finally block, the others just end. *)
GraceExpires ==
    /\ GraceIsOver
    /\ closer' = "cancelling"
    /\ shutdown' = [drained |-> FALSE,
                    abandoned |-> Cardinality(pending) + Cardinality(inFlight)]
    /\ pc' = [w \in Workers |->
                 IF pc[w] = "running" THEN "cancelled" ELSE "done"]
    /\ UNCHANGED <<heap, inFlight, accepting, closing, job>>

CloseReturns ==
    /\ closer = "cancelling" /\ \A w \in Workers : pc[w] = "done"
    /\ closer' = "closed"
    /\ UNCHANGED <<heap, inFlight, accepting, closing, pc, job, shutdown>>

-----------------------------------------------------------------------------
Calls ==
    \/ Start
    \/ \E f \in Fingerprints, s \in Severities, v \in Payloads : Enqueue(f, s, v)
    \/ \E f \in Fingerprints : Cancel(f)

WorkerStep(w) == Take(w) \/ Sleep(w) \/ Stop(w) \/ Finish(w)

CloserStep ==
    CloseUnstarted \/ Close \/ Drained \/ GraceExpires \/ CloseReturns

QueueNext == Calls \/ (\E w \in Workers : WorkerStep(w)) \/ CloserStep

(* The event loop runs every task that is ready and every timer that is    *)
(* due; that a handler ends is a promise of the handler, not of the queue. *)
QueueFairness ==
    /\ \A w \in Workers : WF_queueVars(Take(w) \/ Sleep(w) \/ Stop(w))
    /\ \A w \in Workers : WF_queueVars(pc[w] = "cancelled" /\ Finish(w))
    /\ WF_queueVars(Drained \/ GraceExpires \/ CloseReturns)

QueueSpec == QueueInit /\ [][QueueNext]_queueVars /\ QueueFairness

-----------------------------------------------------------------------------
(* What the callers may rely on: each investigation is absent, pending or  *)
(* in flight.                                                              *)
ledger == [f \in Fingerprints |-> IF f \in inFlight THEN "in flight"
                                  ELSE IF f \in pending THEN "pending"
                                  ELSE "absent"]

Contract == INSTANCE InvestigationContract
                WITH open <- accepting, MaxInFlight <- Cardinality(Workers)

-----------------------------------------------------------------------------
(* Properties.                                                             *)

QueueTypeOK ==
    /\ pending \subseteq Fingerprints /\ heap \in [pending -> Item]
    /\ inFlight \subseteq Fingerprints
    /\ accepting \in BOOLEAN /\ closing \in BOOLEAN
    /\ pc \in [Workers -> {"off", "ready", "waiting", "running", "cancelled",
                           "done"}]
    /\ job \in [Workers -> Job \cup {None}]
    /\ closer \in {"open", "draining", "cancelling", "closed"}
    /\ shutdown \in [drained : BOOLEAN, abandoned : Nat] \cup {None}

Busy == {w \in Workers : pc[w] \in {"running", "cancelled"}}

(* An incident is investigated by at most one worker at a time, and is     *)
(* never pending while a worker still holds it (enqueue(), _next()).       *)
OneInvestigationPerIncident ==
    /\ \A w \in Busy : job[w].fingerprint \in inFlight
    /\ \A w, v \in Busy : w # v => job[w].fingerprint # job[v].fingerprint
    /\ pending \cap inFlight = {}

(* The backlog respects max_pending and in-flight work respects the number *)
(* of workers, through evictions and coalescing (enqueue()).               *)
WorkIsBounded ==
    /\ Cardinality(pending) <= MaxPending
    /\ Cardinality(inFlight) <= Cardinality(Workers)

(* The items of the heap are totally ordered: a full queue always has one  *)
(* item to give up and a worker always finds a first item.                 *)
HeapIsOrdered ==
    \A f, g \in pending : f # g => (Before(f, g) <=> ~Before(g, f))

(* No lost wakeup: a worker sleeps only while the workers already awake    *)
(* suffice for the backlog (notify() per push, notify_all() elsewhere).    *)
NoLostWakeup ==
    Waiting # {} =>
        Cardinality(pending) <= Cardinality({w \in Workers : pc[w] = "ready"})

(* Once close() has returned no worker holds an incident, and it reports   *)
(* drained only when nothing was left behind either.                       *)
ClosedMeansStopped ==
    closer = "closed" =>
        inFlight = {} /\ (shutdown.drained => pending = {})

(* Seen from outside, every step of the queue, its workers and close() is  *)
(* one step of the ledger or none.                                         *)
KeepsContract == Contract!Spec

(* A pending incident is overtaken only by one whose priority rose: later  *)
(* arrivals, coalescing, evictions and cancellations keep the order.       *)
NoOvertaking ==
    [][\A f, g \in pending \cap pending' :
          Before(f, g) /\ heap'[g].priority = heap[g].priority
          => Before(f, g)']_queueVars

(* Every handler ends: process_firing_investigation() runs it under        *)
(* asyncio.wait_for with the overall deadline investigation_seconds.       *)
HandlersEnd == \A w \in Workers : WF_queueVars(Finish(w))

(* A pending critical incident is never evicted: as long as handlers end,  *)
(* it reaches a worker, is cancelled by its recovery, or the queue shuts   *)
(* down, whatever else is enqueued meanwhile.                              *)
CriticalWorkIsServed ==
    HandlersEnd =>
        \A f \in Fingerprints :
            started /\ f \in pending /\ heap[f].priority = 0
            ~> f \notin pending \/ closing

(* close() returns even when a handler hangs: the grace period ends it.    *)
CloseCompletes == closer = "draining" ~> closer = "closed"
=============================================================================
