--------------------------- MODULE PollCycleProofs ---------------------------
(***************************************************************************)
(* Theorems about the polling loop, for any minions, symptoms, edges and   *)
(* faults: an incident row changes only for a minion of this cycle whose   *)
(* snapshot arrived, a chain needs an edge, and it replaces the saturated  *)
(* workers it stands for.                                                  *)
(***************************************************************************)
EXTENDS PollCycle, TLAPS

Resolving(m) == DOMAIN changes[m].resolved

(* The strengthening: what waits to be closed belongs to the minion whose  *)
(* snapshot it came from, and waits only while its cycle is reconciled.    *)
Bookkeeping ==
    /\ DOMAIN rows = Fingerprints
    /\ DOMAIN changes = Minions
    /\ DOMAIN pc = Minions
    /\ \A m \in Minions : \A f \in Resolving(m) : f \in Fingerprints /\ MinionOf[f] = m
    /\ \A m \in Minions : Resolving(m) # {} =>
           phase = "reconciling" /\ m \in cycle /\ pc[m] = "reconciled"

Polled(f) ==
    /\ phase = "reconciling" /\ MinionOf[f] \in cycle
    /\ pc[MinionOf[f]] \in {"done", "reconciled"}

-----------------------------------------------------------------------------
LEMMA NothingResolves ==
    ASSUME changes' = [m \in Minions |-> Store!NoChanges]
    PROVE  DOMAIN changes' = Minions /\ \A m \in Minions : Resolving(m)' = {}
BY DEF Resolving, Store!NoChanges, Store!Nothing

(* Steps that leave rows, changes and snapshots alone, or that are taken   *)
(* when nothing waits to be closed.                                        *)
LEMMA ElsewhereKeeps ==
    ASSUME Bookkeeping, UNCHANGED storeVars, DOMAIN pc' = Minions,
           phase # "reconciling" \/ UNCHANGED <<phase, cycle, pc>>
    PROVE  Bookkeeping'
<1>1. rows' = rows /\ changes' = changes
  BY DEF storeVars
<1>2. \A m \in Minions : Resolving(m)' = Resolving(m)
  BY <1>1 DEF Resolving
<1>3. CASE phase # "reconciling"
  BY <1>1, <1>2, <1>3 DEF Bookkeeping
<1>4. CASE UNCHANGED <<phase, cycle, pc>>
  BY <1>1, <1>2, <1>4 DEF Bookkeeping
<1> QED BY <1>3, <1>4

LEMMA ForgettingKeeps ==
    ASSUME Bookkeeping, UNCHANGED rows, Forget \/ Restart
    PROVE  Bookkeeping'
<1>1. changes' = [m \in Minions |-> Store!NoChanges] /\ DOMAIN pc' = Minions
  BY DEF Forget, Restart, NoSnapshots
<1> QED BY <1>1, NothingResolves DEF Bookkeeping

LEMMA SeenAreOfTheMinion ==
    ASSUME NEW m, NEW f \in Fingerprints, f \in DOMAIN Seen(m)
    PROVE  MinionOf[f] = m
<1>1. PICK a \in released : a.minion = m /\ f = Window!identity_key(a)
  BY DEF Seen
<1> QED BY <1>1 DEF MinionOf, Window!identity_key

(* reconcile() changes rows of its minion only, and what it returns as     *)
(* resolved is of that minion.                                             *)
LEMMA ReconcileProps ==
    ASSUME Bookkeeping, NEW m \in Minions, Reconcile(m)
    PROVE  /\ Bookkeeping'
           /\ \A f \in Fingerprints : rows'[f] # rows[f] => Polled(f)
<1> DEFINE seen == Seen(m)
           gone == Store!ActiveOf(m) \ DOMAIN seen
<1>1. /\ phase = "reconciling" /\ m \in cycle /\ pc[m] = "done"
      /\ pc' = [pc EXCEPT ![m] = "reconciled"] /\ UNCHANGED <<phase, cycle>>
  BY DEF Reconcile, Snapshots, Reach
<1>2. Store!Reconcile(m, seen)
  BY DEF Reconcile
<1>3. \A f \in gone : f \in Fingerprints /\ MinionOf[f] = m
  BY DEF Store!ActiveOf, Store!IncidentsOf
<1>4. /\ DOMAIN rows' = Fingerprints
      /\ \A f \in Fingerprints : rows'[f] # rows[f] => f \in DOMAIN seen \/ f \in gone
  BY <1>2 DEF Store!Reconcile
<1>5. \A f \in Fingerprints : rows'[f] # rows[f] => MinionOf[f] = m
  BY <1>3, <1>4, SeenAreOfTheMinion
<1>6. /\ DOMAIN changes' = Minions
      /\ Resolving(m)' \subseteq gone
      /\ \A n \in Minions \ {m} : Resolving(n)' = Resolving(n)
  BY <1>2 DEF Store!Reconcile, Resolving, Bookkeeping
<1> HIDE DEF seen, gone
<1>7. Bookkeeping'
  BY <1>1, <1>3, <1>4, <1>6 DEF Bookkeeping
<1> QED BY <1>1, <1>5, <1>7 DEF Polled

LEMMA CloseProps ==
    ASSUME Bookkeeping, NEW m \in Minions, NEW f \in Fingerprints, Close(m, f)
    PROVE  /\ Bookkeeping'
           /\ \A g \in Fingerprints : rows'[g] # rows[g] => Polled(g)
<1>1. f \in Resolving(m) /\ phase = "reconciling" /\ UNCHANGED <<phase, cycle, pc>>
  BY DEF Close, Resolving, snapshotVars
<1>2. m \in cycle /\ pc[m] = "reconciled" /\ MinionOf[f] = m
  BY <1>1 DEF Bookkeeping
<1>3. /\ DOMAIN rows' = Fingerprints
      /\ \A g \in Fingerprints : rows'[g] # rows[g] => g = f
  BY DEF Close, Store!MarkResolved, Bookkeeping
<1>4. /\ DOMAIN changes' = Minions
      /\ \A n \in Minions : Resolving(n)' \subseteq Resolving(n)
  BY DEF Close, Resolving, Bookkeeping
<1>5. Bookkeeping'
  BY <1>1, <1>3, <1>4 DEF Bookkeeping
<1> QED BY <1>1, <1>2, <1>3, <1>5 DEF Polled

-----------------------------------------------------------------------------
LEMMA StepProps ==
    ASSUME Bookkeeping, [Next]_vars
    PROVE  /\ Bookkeeping'
           /\ rows' # rows => \A f \in Fingerprints : rows'[f] # rows[f] => Polled(f)
<1> USE DEF snapshotVars, storeVars
<1>1. CASE UNCHANGED vars
  BY <1>1, ElsewhereKeeps DEF vars, Bookkeeping
<1>2. CASE \E s \in Symptoms : Alter(s)
  BY <1>2, ElsewhereKeeps DEF Alter, Bookkeeping
<1>3. CASE \E m \in Minions : Register(m)
  BY <1>3, ElsewhereKeeps DEF Register, Bookkeeping
<1>4. CASE ExpireSession \/ Tick \/ Start \/ MaintainSalt \/ LoginEnds \/ CircuitsAge \/ Terminate
  BY <1>4, ElsewhereKeeps DEF ExpireSession, Tick, Start, MaintainSalt, LoginEnds, CircuitsAge, Terminate, Bookkeeping
<1>5. CASE Restart
  BY <1>5, ForgettingKeeps DEF Restart
<1>6. CASE Wake \/ RefreshEnds \/ \E r \in Inv!Requests : RefreshStep(r)
  <2>1. DOMAIN pc' = Minions
    BY <1>6 DEF Wake, RefreshEnds, RefreshStep, Begin, Bookkeeping
  <2> QED BY <1>6, <2>1, ElsewhereKeeps DEF Wake, RefreshEnds, RefreshStep
<1>7. CASE \E m \in Minions : SnapshotStep(m) \/ MinionTimeout(m)
  <2>1. DOMAIN pc' = Minions
    BY <1>7 DEF SnapshotStep, AskMetrics, Ingest, AskSalt, WithoutSalt, Inspect, MinionTimeout, Reach, Bookkeeping
  <2>2. phase # "reconciling" /\ UNCHANGED storeVars
    BY <1>7 DEF SnapshotStep, AskMetrics, Ingest, AskSalt, WithoutSalt, Inspect, MinionTimeout, AtStage
  <2> QED BY <2>1, <2>2, ElsewhereKeeps
<1>8. CASE Correlate
  BY <1>8, ElsewhereKeeps DEF Correlate, Bookkeeping
<1>9. CASE EndOfCycle \/ PollTimeout
  BY <1>9, ForgettingKeeps DEF EndOfCycle, PollTimeout
<1>10. CASE \E m \in Minions : Reconcile(m)
  BY <1>10, ReconcileProps
<1>11. CASE \E m \in Minions, f \in Fingerprints : Close(m, f)
  BY <1>11, CloseProps
<1> QED BY <1>1, <1>2, <1>3, <1>4, <1>5, <1>6, <1>7, <1>8, <1>9, <1>10, <1>11 DEF Next

(* No row changes because its minion was removed, timed out or was lost:   *)
(* reconcile() is called for the snapshots of the cycle and no others.     *)
THEOREM OnlyPolledChange == Spec => OnlyPolledMinionsChange
<1>1. Init => Bookkeeping
  BY DEF Init, Bookkeeping, Resolving, Store!StoreInit, Store!NoChanges, Store!Nothing
<1>2. Bookkeeping /\ [Next]_vars => Bookkeeping'
  BY StepProps
<1>3. Bookkeeping /\ [Next]_vars =>
         [\A f \in Fingerprints : rows'[f] # rows[f] =>
             /\ phase = "reconciling" /\ MinionOf[f] \in cycle
             /\ pc[MinionOf[f]] \in {"done", "reconciled"}]_rows
  BY StepProps DEF Polled
<1> QED BY <1>1, <1>2, <1>3, PTL DEF Spec, OnlyPolledMinionsChange

-----------------------------------------------------------------------------
(* What the anomalies and their fingerprints are.                          *)
IsChain(a) == a.metric = "postgres_apache_chain"
Along(c) == c.minion = c.resource[1] \/ <<c.resource[1], c.minion>> \in scenario.edges

LEMMA SymptomProps ==
    ASSUME NEW s \in Symptoms
    PROVE  /\ s.minion \in Minions /\ s.severity \in Severities
           /\ ~IsChain(s)
           /\ Window!is_apache(s) => s.resource = "apache:workers"
BY PollAssumption DEF IsChain, Window!is_apache

LEMMA SymptomsDiffer ==
    ASSUME NEW s \in Symptoms, NEW t \in Symptoms,
           Window!identity_key(s) = Window!identity_key(t)
    PROVE  s = t
BY PollAssumption

(* A minion has one Apache, hence one symptom of saturated workers.        *)
LEMMA OneApache ==
    ASSUME NEW s \in Symptoms, NEW t \in Symptoms, Window!is_apache(s),
           Window!is_apache(t), s.minion = t.minion
    PROVE  s = t
<1>1. s.resource = t.resource /\ s.metric = t.metric
  BY SymptomProps DEF Window!is_apache
<1>2. Window!identity_key(s) = Window!identity_key(t)
  BY <1>1 DEF Window!identity_key
<1> QED BY <1>2, SymptomsDiffer

LEMMA ChainProps ==
    ASSUME NEW a \in Symptoms, NEW p \in Symptoms
    PROVE  LET c == Window!Chain(a, p)
           IN  /\ IsChain(c)
               /\ c.minion = a.minion /\ c.minion \in Minions
               /\ c.resource[1] = p.minion /\ c.severity \in Severities
BY SymptomProps, PollAssumption DEF Window!Chain, IsChain

LEMMA AnomalyProps ==
    ASSUME NEW a \in Symptoms \cup Chains
    PROVE  /\ a.minion \in Minions /\ a.severity \in Severities
           /\ Window!identity_key(a) \in Fingerprints
           /\ IsChain(a) <=> a \in Chains
<1>1. CASE a \in Symptoms
  <2>1. a \notin Chains
    BY <1>1, SymptomProps, ChainProps DEF Chains
  <2> QED BY <1>1, <2>1, SymptomProps DEF Fingerprints
<1>2. CASE a \in Chains
  <2>1. PICK s \in Symptoms, t \in Symptoms : a = Window!Chain(s, t)
    BY <1>2 DEF Chains
  <2> QED BY <1>2, <2>1, ChainProps DEF Fingerprints
<1> QED BY <1>1, <1>2

LEMMA FingerprintProps ==
    /\ MinionOf \in [Fingerprints -> Minions]
    /\ \A a : Window!identity_key(a)[1] = a.minion
    /\ \A a, b : Window!identity_key(a) = Window!identity_key(b) =>
           a.minion = b.minion /\ a.metric = b.metric /\ a.resource = b.resource
<1>1. \A a : Window!identity_key(a)[1] = a.minion
  BY DEF Window!identity_key
<1>2. \A a, b : Window!identity_key(a) = Window!identity_key(b) =>
           a.minion = b.minion /\ a.metric = b.metric /\ a.resource = b.resource
  BY DEF Window!identity_key
<1>3. ASSUME NEW f \in Fingerprints PROVE f[1] \in Minions
  <2>1. PICK a \in Symptoms \cup Chains : f = Window!identity_key(a)
    BY DEF Fingerprints
  <2> QED BY <1>1, <2>1, AnomalyProps
<1> QED BY <1>1, <1>2, <1>3 DEF MinionOf

-----------------------------------------------------------------------------
(* The correlator lets through anomalies of the cycle, and in place of two *)
(* of them a chain that an edge, or a common minion, links.                *)
LEMMA CorrelatedProps ==
    ASSUME NEW anomalies \in SUBSET Symptoms, NEW edges
    PROVE  LET out == Window!correlate_pair(anomalies, edges)
           IN  \A x \in out :
                  \/ x \in anomalies
                  \/ \E a, p \in anomalies :
                        /\ Window!is_apache(a) /\ Window!is_postgres(p)
                        /\ Window!Linked(a, p, edges)
                        /\ x = Window!Chain(a, p) /\ a \notin out
<1> DEFINE pairs == Window!Selected(Window!Pairs(anomalies, edges))
           chains == {Window!Chain(p[1], p[2]) : p \in pairs}
           merged == UNION {Window!Merged(p) : p \in pairs}
           out == Window!correlate_pair(anomalies, edges)
<1>1. out = (anomalies \ merged) \cup chains
  BY DEF Window!correlate_pair
<1>2. \A p \in pairs :
          /\ p[1] \in anomalies /\ p[2] \in anomalies
          /\ Window!is_apache(p[1]) /\ Window!is_postgres(p[2])
          /\ Window!Linked(p[1], p[2], edges)
  BY DEF Window!Selected, Window!Pairs
<1>3. ASSUME NEW p \in pairs PROVE p[1] \in merged
  <2>1. p[1] \in Window!Merged(p)
    BY DEF Window!Merged
  <2> QED BY <2>1
<1> HIDE DEF out, merged, pairs
<1>4. ASSUME NEW a \in anomalies PROVE a \notin chains
  BY <1>2, SymptomProps, ChainProps
<1> SUFFICES ASSUME NEW x \in out
             PROVE  \/ x \in anomalies
                    \/ \E a, p \in anomalies :
                        /\ Window!is_apache(a) /\ Window!is_postgres(p)
                        /\ Window!Linked(a, p, edges)
                        /\ x = Window!Chain(a, p) /\ a \notin out
  BY DEF out
<1>5. CASE x \in anomalies
  BY <1>5
<1>6. CASE x \in chains
  <2>1. PICK p \in pairs : x = Window!Chain(p[1], p[2])
    BY <1>6
  <2>2. p[1] \notin out
    BY <1>1, <1>2, <1>3, <1>4
  <2> QED BY <1>2, <2>1, <2>2
<1> QED BY <1>1, <1>5, <1>6

(* What the cycle may reconcile: chains along edges only, and never the    *)
(* saturated workers a chain already stands for.                           *)
Sound(anomalies) ==
    /\ anomalies \subseteq Symptoms \cup Chains
    /\ \A c \in anomalies : IsChain(c) =>
          /\ Along(c)
          /\ \A s \in anomalies : Window!is_apache(s) => s.minion # c.minion

LEMMA ReleasedAreSound ==
    ASSUME NEW anomalies \in SUBSET Symptoms
    PROVE  Sound(Window!Released(anomalies, scenario.edges))
<1> DEFINE edges == scenario.edges
           out == Window!correlate_pair(anomalies, edges)
           through == Window!Released(anomalies, edges)
<1> SUFFICES Sound(through)
  OBVIOUS
<1>1. CASE Window!HasChain(out)
  <2>1. through = out
    BY <1>1 DEF Window!Released
  <2>2. ASSUME NEW x \in out PROVE x \in Symptoms \cup Chains
    BY CorrelatedProps DEF Chains
  <2>3. ASSUME NEW c \in out, IsChain(c)
        PROVE  \E a, p \in anomalies :
                   /\ Window!is_apache(a) /\ Window!is_postgres(p)
                   /\ Window!Linked(a, p, edges)
                   /\ c = Window!Chain(a, p) /\ a \notin out
    BY <2>3, CorrelatedProps, SymptomProps
  <2>4. ASSUME NEW c \in out, IsChain(c), NEW s \in out, Window!is_apache(s)
        PROVE  Along(c) /\ s.minion # c.minion
    <3>1. PICK a \in anomalies, p \in anomalies :
                   /\ Window!is_apache(a) /\ Window!Linked(a, p, edges)
                   /\ c = Window!Chain(a, p) /\ a \notin out
      BY <2>3, <2>4
    <3>2. c.minion = a.minion /\ c.resource[1] = p.minion
      BY <3>1, ChainProps
    <3>3. s \in Symptoms
      BY <2>2, <2>4, AnomalyProps DEF Window!is_apache, IsChain
    <3>4. s.minion = a.minion => s = a
      BY <2>4, <3>1, <3>3, OneApache
    <3> QED BY <2>4, <3>1, <3>2, <3>4 DEF Along, Window!Linked
  <2>5. ASSUME NEW c \in out, IsChain(c) PROVE Along(c)
    <3>1. PICK a \in anomalies, p \in anomalies :
                   Window!Linked(a, p, edges) /\ c = Window!Chain(a, p)
      BY <2>3, <2>5
    <3>2. c.minion = a.minion /\ c.resource[1] = p.minion
      BY <3>1, ChainProps
    <3> QED BY <3>1, <3>2 DEF Along, Window!Linked
  <2> HIDE DEF out
  <2> QED BY <2>1, <2>2, <2>4, <2>5 DEF Sound
<1>2. CASE ~Window!HasChain(out)
  <2>1. through \subseteq anomalies
    BY <1>2 DEF Window!Released
  <2> HIDE DEF through
  <2> QED BY <2>1, SymptomProps DEF Sound
<1> HIDE DEF out, through
<1> QED BY <1>1, <1>2

-----------------------------------------------------------------------------
(* The rows: what is confirmed of a minion was in its last snapshot.       *)
LEMMA SeenProps ==
    ASSUME Sound(released), NEW m \in Minions
    PROVE  /\ Seen(m) \in Store!Snapshots(m)
           /\ \A f \in DOMAIN Seen(m) :
                 \E a \in released : a.minion = m /\ f = Window!identity_key(a)
<1> DEFINE mine == {a \in released : a.minion = m}
           keys == {Window!identity_key(a) : a \in mine}
           Picked(f) == CHOOSE a \in mine : Window!identity_key(a) = f
<1>1. Seen(m) = [f \in keys |-> Picked(f).severity]
  BY DEF Seen
<1>2. ASSUME NEW a \in mine
      PROVE  /\ a.severity \in Severities
             /\ Window!identity_key(a) \in Store!IncidentsOf(m)
  BY AnomalyProps, FingerprintProps DEF Sound, MinionOf, Store!IncidentsOf
<1>3. ASSUME NEW f \in keys PROVE Picked(f) \in mine
  OBVIOUS
<1>4. keys \in SUBSET Store!IncidentsOf(m)
  BY <1>2
<1>5. \A f \in keys : Picked(f).severity \in Severities
  BY <1>2, <1>3
<1>6. \A f \in keys : \E a \in released : a.minion = m /\ f = Window!identity_key(a)
  OBVIOUS
<1> HIDE DEF mine, keys, Picked
<1>7. Seen(m) \in [keys -> Severities]
  BY <1>1, <1>5
<1> QED BY <1>1, <1>4, <1>6, <1>7 DEF Store!Snapshots

LEMMA ReconciledRows ==
    ASSUME DOMAIN rows = Fingerprints, Store!StoreTypeOK, Sound(released),
           NEW m \in Minions, Store!Reconcile(m, Seen(m)),
           NEW f \in Fingerprints
    PROVE  /\ MinionOf[f] # m => rows'[f] = rows[f]
           /\ Open(f)' => Open(f) \/ f \in DOMAIN Seen(m)
           /\ MinionOf[f] = m /\ Confirmed(f)' => f \in DOMAIN Seen(m)
<1> DEFINE seen == Seen(m)
           gone == Store!ActiveOf(m) \ DOMAIN seen
<1>1. rows'[f] = IF f \in DOMAIN seen THEN Store!Present(f)
                 ELSE IF f \in gone THEN Store!Missed(f) ELSE rows[f]
  BY DEF Store!Reconcile
<1>2. f \in gone <=> MinionOf[f] = m /\ Open(f) /\ f \notin DOMAIN seen
  BY DEF Store!ActiveOf, Store!IncidentsOf, Open
<1>3. f \in DOMAIN seen => MinionOf[f] = m
  BY SeenAreOfTheMinion
<1> HIDE DEF seen, gone
<1>4. CASE f \in DOMAIN seen
  BY <1>3, <1>4 DEF seen
<1>5. CASE f \in gone
  <2>1. rows'[f] = Store!Missed(f) /\ rows[f] \in Store!Row
    BY <1>1, <1>2, <1>5 DEF Store!StoreTypeOK, Open, Store!Active
  <2>2. rows'[f].absent # 0
    BY <2>1, PollAssumption DEF Store!Missed, Store!Row
  <2> QED BY <1>2, <1>5, <2>2 DEF Confirmed
<1>6. CASE f \notin DOMAIN seen /\ f \notin gone
  BY <1>1, <1>2, <1>6 DEF Open, Confirmed, Store!Active
<1> QED BY <1>4, <1>5, <1>6

-----------------------------------------------------------------------------
(* The types of the rows, as in IncidentHistoryProofs.                     *)
LEMMA PresentIsRow ==
    ASSUME Store!StoreTypeOK, NEW f \in Fingerprints
    PROVE  Store!Present(f) \in Store!Row
<1>1. CASE Store!Active(f)
  BY <1>1, PollAssumption DEF Store!Present, Store!Active, Store!StoreTypeOK, Store!Row
<1>2. CASE ~Store!Active(f) /\ rows[f] = None
  BY <1>2, PollAssumption DEF Store!Present, Store!Opened, Store!Row
<1>3. CASE ~Store!Active(f) /\ rows[f] # None
  <2>1. rows[f].starts_at \in 0..(Generations - 1)
    BY <1>3 DEF Store!StoreTypeOK, Store!Row
  <2>2. (rows[f].starts_at + 1) % Generations \in 0..(Generations - 1)
    BY <2>1, PollAssumption
  <2> QED BY <1>3, <2>2, PollAssumption DEF Store!Present, Store!Opened, Store!Row
<1> QED BY <1>1, <1>2, <1>3

LEMMA MissedIsRow ==
    ASSUME Store!StoreTypeOK, NEW f \in Fingerprints, Store!Active(f)
    PROVE  Store!Missed(f) \in Store!Row
<1>1. rows[f] \in Store!Row
  BY DEF Store!StoreTypeOK, Store!Active
<1> QED BY <1>1, PollAssumption DEF Store!Missed, Store!Row

LEMMA ReconcileTypes ==
    ASSUME Store!StoreTypeOK, DOMAIN changes = Minions, NEW m \in Minions,
           NEW seen \in Store!Snapshots(m), Store!Reconcile(m, seen)
    PROVE  Store!StoreTypeOK'
<1> DEFINE gone == Store!ActiveOf(m) \ DOMAIN seen
           due == {g \in DOMAIN seen : Store!Due(g, seen[g])}
           over == {g \in gone : Store!Missed(g).absent >= ResolveAfter}
<1>1. /\ DOMAIN seen \subseteq Store!IncidentsOf(m)
      /\ \A f \in DOMAIN seen : seen[f] \in Severities
  BY DEF Store!Snapshots
<1>2. \A f \in gone : f \in Store!IncidentsOf(m) /\ Store!Active(f)
  BY DEF Store!ActiveOf
<1>3. rows' = [f \in Fingerprints |->
                  IF f \in DOMAIN seen THEN Store!Present(f)
                  ELSE IF f \in gone THEN Store!Missed(f) ELSE rows[f]]
  BY DEF Store!Reconcile
<1>4. /\ changes'[m] = [firing   |-> [f \in due |-> Store!Firing(f, seen[f])],
                        resolved |-> [f \in over |-> rows[f].emitted]]
      /\ \A n \in Minions \ {m} : changes'[n] = changes[n]
  BY DEF Store!Reconcile
<1>5. due \in SUBSET Store!IncidentsOf(m) /\ over \in SUBSET Store!IncidentsOf(m)
  BY <1>1, <1>2
<1> HIDE DEF gone
<1>6. rows' \in [Fingerprints -> Store!Row \cup {None}]
  BY <1>2, <1>3, PresentIsRow, MissedIsRow DEF Store!StoreTypeOK, Store!IncidentsOf
<1>7. [f \in due |-> Store!Firing(f, seen[f])] \in [due -> Store!Work]
  <2> SUFFICES ASSUME NEW f \in due PROVE Store!Firing(f, seen[f]) \in Store!Work
    OBVIOUS
  <2>1. seen[f] \in Severities /\ Store!Present(f) \in Store!Row
    BY <1>1, PresentIsRow DEF Store!IncidentsOf
  <2> QED BY <2>1 DEF Store!Firing, Store!Work, Store!Row
<1>8. [f \in over |-> rows[f].emitted] \in [over -> Severities \cup {None}]
  <2> SUFFICES ASSUME NEW f \in over PROVE rows[f].emitted \in Severities \cup {None}
    OBVIOUS
  <2>1. rows[f] \in Store!Row
    BY <1>2 DEF Store!StoreTypeOK, Store!Active, Store!IncidentsOf
  <2> QED BY <2>1 DEF Store!Row
<1> HIDE DEF due, over
<1>9. changes'[m] \in Store!Changes(m)
  BY <1>4, <1>5, <1>7, <1>8 DEF Store!Changes
<1> QED BY <1>4, <1>6, <1>9 DEF Store!StoreTypeOK, Store!Changes, Store!Row, Store!Work,
           Store!IncidentsOf

LEMMA CloseTypes ==
    ASSUME Store!StoreTypeOK, DOMAIN changes = Minions, NEW m \in Minions,
           NEW f \in Fingerprints, Close(m, f)
    PROVE  Store!StoreTypeOK'
<1> DEFINE old == changes[m].resolved
           rest == DOMAIN old \ {f}
           left == [g \in rest |-> old[g]]
<1>1. rows' \in [Fingerprints -> Store!Row \cup {None}]
  BY DEF Close, Store!MarkResolved, Store!StoreTypeOK, Store!Active, Store!Row
<1>2. PICK S \in SUBSET Store!IncidentsOf(m) : old \in [S -> Severities \cup {None}]
  BY DEF Store!StoreTypeOK, Store!Changes
<1>3. left \in [rest -> Severities \cup {None}] /\ rest \in SUBSET Store!IncidentsOf(m)
  BY <1>2
<1>4. /\ changes'[m] = [changes[m] EXCEPT !.resolved = left]
      /\ \A n \in Minions \ {m} : changes'[n] = changes[n]
  BY DEF Close
<1>5. changes[m] \in Store!Changes(m)
  BY DEF Store!StoreTypeOK
<1> HIDE DEF old, rest, left
<1>6. changes'[m] \in Store!Changes(m)
  BY <1>3, <1>4, <1>5 DEF Store!Changes
<1> QED BY <1>1, <1>4, <1>6 DEF Store!StoreTypeOK, Store!Changes, Store!Row, Store!Work,
           Store!IncidentsOf

LEMMA ForgetTypes ==
    ASSUME Store!StoreTypeOK, rows' = rows,
           changes' = [m \in Minions |-> Store!NoChanges]
    PROVE  Store!StoreTypeOK'
<1>1. Store!Nothing \in [{} -> Store!Work] /\ Store!Nothing \in [{} -> Severities \cup {None}]
  BY DEF Store!Nothing
<1>2. \A m \in Minions : Store!NoChanges \in Store!Changes(m)
  BY <1>1 DEF Store!NoChanges, Store!Changes
<1> QED BY <1>2 DEF Store!StoreTypeOK, Store!Changes, Store!Row, Store!Work,
           Store!IncidentsOf

-----------------------------------------------------------------------------
(* Step by step, what each component's variables become.                   *)
LEMMA InventoryStep ==
    ASSUME Inv!InventoryTypeOK, [Next]_vars
    PROVE  Inv!InventoryTypeOK'
<1> USE DEF Inv!InventoryTypeOK, Inv!Stages, Inv!Keep, Inv!Goes
<1>1. CASE UNCHANGED inventoryVars
  BY <1>1 DEF inventoryVars
<1>2. CASE \E m \in Minions : Register(m)
  BY <1>2 DEF Register, Inv!Register
<1>3. CASE ExpireSession
  BY <1>3 DEF ExpireSession, Inv!Expire
<1>4. CASE Tick
  BY <1>4, PollAssumption DEF Tick, Inv!Older
<1>5. CASE Restart
  <2>1. refreshed_age' = RefreshInterval /\ RefreshInterval \in 0..RefreshInterval
    BY <1>5, PollAssumption DEF Restart
  <2>2. /\ logged_in' = FALSE /\ session' = FALSE /\ last_good' = None /\ systems' = systems
        /\ stage' = [r \in Inv!Requests |-> "idle"] /\ answer' = [r \in Inv!Requests |-> {}]
    BY <1>5 DEF Restart, Inv!Idle, worldVars
  <2> QED BY <2>1, <2>2
<1>6. CASE Wake
  BY <1>1, <1>6 DEF Wake, Inv!StartRefresh, inventoryVars
<1>7. CASE RefreshEnds
  BY <1>7, PollAssumption DEF RefreshEnds, Inv!RefreshSucceeds, Inv!RefreshFails, Inv!Idle,
     Inv!Discovered, Inv!Requests, Inv!UyuniRequests
<1>8. ASSUME NEW r \in Inv!Requests, RefreshStep(r) PROVE Inv!InventoryTypeOK'
  <2>1. Inv!RequestStep(r) \/ Inv!RequestFails(r)
    BY <1>8 DEF RefreshStep
  <2>2. CASE Inv!TakeLock(r)
    BY <2>2 DEF Inv!TakeLock
  <2>3. CASE Inv!LoginSucceeds(r)
    BY <2>3 DEF Inv!LoginSucceeds
  <2>4. CASE Inv!Send(r)
    BY <2>4 DEF Inv!Send
  <2>5. CASE Inv!Unauthorized(r) \/ Inv!Receive(r) \/ Inv!RequestFails(r)
    BY <2>5 DEF Inv!Unauthorized, Inv!Receive, Inv!RequestFails
  <2> QED BY <2>1, <2>2, <2>3, <2>4, <2>5 DEF Inv!RequestStep
<1>9. CASE \/ \E s \in Symptoms : Alter(s)
           \/ Start \/ MaintainSalt \/ LoginEnds \/ CircuitsAge \/ Terminate \/ Correlate \/ EndOfCycle \/ PollTimeout
           \/ \E m \in Minions : SnapshotStep(m) \/ MinionTimeout(m) \/ Reconcile(m)
           \/ \E m \in Minions, f \in Fingerprints : Close(m, f)
           \/ UNCHANGED vars
  <2>1. UNCHANGED inventoryVars
    BY <1>9 DEF Alter, Start, MaintainSalt, LoginEnds, CircuitsAge, Terminate, Correlate, EndOfCycle, PollTimeout,
       SnapshotStep, AskMetrics, Ingest, AskSalt, WithoutSalt, Inspect, MinionTimeout, Reconcile, Close, vars
  <2> QED BY <1>1, <2>1
<1> QED BY <1>2, <1>3, <1>4, <1>5, <1>6, <1>7, <1>8, <1>9 DEF Next

LEMMA ReadinessStep ==
    ASSUME Health!ReadinessTypeOK, [Next]_vars
    PROVE  Health!ReadinessTypeOK'
<1>1. ASSUME NEW d \in Dependencies, NEW success, Health!record_dependency(d, success)
      PROVE  Health!ReadinessTypeOK'
  BY <1>1 DEF Health!ReadinessTypeOK, Health!record_dependency, Health!after_operation
<1>2. ASSUME NEW n, Health!record_poll(n) PROVE Health!ReadinessTypeOK'
  BY <1>2, PollAssumption DEF Health!ReadinessTypeOK, Health!record_poll
<1>3. CASE UNCHANGED readinessVars
  BY <1>3 DEF Health!ReadinessTypeOK, readinessVars
<1>4. CASE Tick
  BY <1>4, PollAssumption DEF Health!ReadinessTypeOK, Tick, Health!PollAges
<1>5. CASE Start \/ MaintainSalt
  BY <1>5 DEF Health!ReadinessTypeOK, Start, MaintainSalt, AskLogin, Health!after_operation,
              Dependencies
<1>6. CASE Restart \/ Terminate
  BY <1>6 DEF Health!ReadinessTypeOK, Restart, Terminate, Health!mark_stopping
<1>7. CASE LoginEnds
  BY <1>1, <1>7 DEF LoginEnds, Dependencies
<1>8. CASE \E m \in Minions : SnapshotStep(m)
  BY <1>1, <1>3, <1>8 DEF SnapshotStep, AskMetrics, Ingest, AskSalt, Inspect, WithoutSalt,
                         Dependencies, readinessVars
<1>9. CASE RefreshEnds \/ EndOfCycle \/ PollTimeout
  BY <1>2, <1>3, <1>9 DEF RefreshEnds, EndOfCycle, PollTimeout, readinessVars
<1>10. CASE \/ \E s \in Symptoms : Alter(s)
            \/ \E m \in Minions : Register(m) \/ MinionTimeout(m) \/ Reconcile(m)
            \/ ExpireSession \/ Wake \/ Correlate \/ CircuitsAge
            \/ \E r \in Inv!Requests : RefreshStep(r)
            \/ \E m \in Minions, f \in Fingerprints : Close(m, f)
            \/ UNCHANGED vars
  BY <1>3, <1>10 DEF Alter, Register, MinionTimeout, Reconcile, ExpireSession, Wake, Correlate,
     RefreshStep, Close, CircuitsAge, vars
<1> QED BY <1>4, <1>5, <1>6, <1>7, <1>8, <1>9, <1>10 DEF Next

LEMMA WindowStep ==
    ASSUME TypeOK, found \in [Minions -> SUBSET Symptoms], [Next]_vars
    PROVE  \A k \in DOMAIN first_seen' : k \in Fingerprints /\ first_seen'[k] \in 0..Grace
<1> DEFINE Ages(window) ==
        \A k \in DOMAIN window : k \in Fingerprints /\ window[k] \in 0..Grace
<1> SUFFICES Ages(first_seen')
  OBVIOUS
<1>1. Ages(first_seen)
  BY DEF TypeOK
<1>2. CASE UNCHANGED first_seen
  BY <1>1, <1>2
<1>3. CASE Tick
  BY <1>1, <1>3, PollAssumption DEF Tick, Window!CandidatesAge
<1>4. CASE Restart
  BY <1>4 DEF Restart
<1>5. CASE Correlate
  <2> DEFINE edges == scenario.edges
             keys == Window!CandidateKeys(CycleAnomalies, edges)
  <2>1. first_seen' = Window!Remember(CycleAnomalies, edges)
    BY <1>5 DEF Correlate, Window!Correlate
  <2>2. CycleAnomalies \in SUBSET Symptoms
    BY DEF CycleAnomalies, Snapshots, TypeOK
  <2>3. \A k \in keys : k \in Fingerprints
    BY <2>2, AnomalyProps DEF Window!CandidateKeys
  <2>4. \/ first_seen' = [k \in {} |-> 0]
        \/ first_seen' = [k \in keys |-> IF k \in DOMAIN first_seen THEN first_seen[k] ELSE 0]
    BY <2>1 DEF Window!Remember
  <2> HIDE DEF keys
  <2> QED BY <1>1, <2>3, <2>4, PollAssumption
<1>6. CASE ~(Tick \/ Restart \/ Correlate)
  <2>1. UNCHANGED first_seen
    BY <1>6 DEF Next, vars, Alter, Register, ExpireSession, Start, MaintainSalt, LoginEnds, CircuitsAge, Terminate,
       Wake, RefreshEnds, RefreshStep, SnapshotStep, AskMetrics, Ingest, AskSalt, WithoutSalt, Inspect,
       MinionTimeout, Reconcile, EndOfCycle, PollTimeout, Close
  <2> QED BY <1>2, <2>1
<1> QED BY <1>3, <1>4, <1>5, <1>6

(* What the loop itself keeps.                                             *)
LoopTypeOK ==
    /\ symptoms \subseteq Symptoms /\ scenario \in Scenarios
    /\ phase \in {"starting", "sleeping", "refreshing", "detecting",
                  "reconciling", "stopped"}
    /\ cycle \subseteq Minions
    /\ pc \in [Minions -> {"idle", "ingesting", "inspecting", "locks", "done",
                           "lost", "reconciled"}]
    /\ complete \subseteq Minions
    /\ slept \in 0..Interval /\ budget \in 0..MaxFaults
    /\ found \in [Minions -> SUBSET Symptoms]

LEMMA FaultProps ==
    ASSUME NEW kind, Fault(kind), budget \in 0..MaxFaults
    PROVE  budget' \in 0..MaxFaults
BY PollAssumption DEF Fault

LEMMA LoopStep ==
    ASSUME LoopTypeOK, Inv!InventoryTypeOK, [Next]_vars
    PROVE  LoopTypeOK'
<1> USE DEF LoopTypeOK, snapshotVars
<1>2. ASSUME NEW minions, minions \subseteq Minions, Begin(minions)
      PROVE  /\ phase' = "detecting" /\ cycle' \subseteq Minions
             /\ pc' \in [Minions -> {"idle", "ingesting"}]
             /\ complete' \subseteq Minions /\ found' \in [Minions -> SUBSET Symptoms]
  BY <1>2 DEF Begin
<1>3. CASE UNCHANGED vars
  BY <1>3 DEF vars
<1>4. CASE \E s \in Symptoms : Alter(s)
  BY <1>4 DEF Alter
<1>5. CASE \E m \in Minions : Register(m)
  BY <1>5 DEF Register
<1>6. CASE ExpireSession \/ Start \/ MaintainSalt \/ LoginEnds \/ CircuitsAge \/ Terminate
  BY <1>6, FaultProps DEF ExpireSession, Start, MaintainSalt, LoginEnds, CircuitsAge, Terminate
<1>7. CASE Tick
  BY <1>7, PollAssumption DEF Tick, Fault
<1>8. CASE Restart
  BY <1>8, PollAssumption DEF Restart, Fault, NoSnapshots, worldVars
<1>9. CASE Wake
  <2>1. last_good \subseteq Minions \/ ~Inv!Cached
    BY DEF Inv!InventoryTypeOK, Inv!Cached
  <2>2. CASE Inv!Cached /\ Begin(last_good)
    BY <1>2, <1>9, <2>1, <2>2 DEF Wake
  <2>3. CASE phase' = "refreshing" /\ UNCHANGED <<cycle, snapshotVars>>
    BY <1>9, <2>3 DEF Wake
  <2> QED BY <1>9, <2>2, <2>3 DEF Wake
<1>10. CASE RefreshEnds
  <2>1. Inv!Discovered \subseteq Minions
    BY DEF Inv!Discovered, Inv!InventoryTypeOK, Inv!Requests, Inv!UyuniRequests
  <2>2. last_good # None => last_good \subseteq Minions
    BY DEF Inv!InventoryTypeOK
  <2>3. CASE Begin(Inv!Discovered) /\ UNCHANGED slept
    BY <1>2, <1>10, <2>1, <2>3 DEF RefreshEnds
  <2>4. CASE last_good # None /\ Begin(last_good) /\ UNCHANGED slept
    BY <1>2, <1>10, <2>2, <2>4 DEF RefreshEnds
  <2>5. CASE Sleep /\ UNCHANGED <<cycle, snapshotVars>>
    BY <1>10, <2>5, PollAssumption DEF RefreshEnds, Sleep
  <2> QED BY <1>10, <2>3, <2>4, <2>5 DEF RefreshEnds
<1>11. CASE \E r \in Inv!Requests : RefreshStep(r)
  BY <1>11, PollAssumption DEF RefreshStep, Fault
<1>12. ASSUME NEW m \in Minions, SnapshotStep(m) PROVE LoopTypeOK'
  <2>1. CASE Ingest(m)
    BY <2>1, FaultProps DEF Ingest, FromMetrics, Reach, Lacks
  <2>2. CASE WithoutSalt(m)
    BY <2>2 DEF WithoutSalt, Reach, Lacks
  <2>3. ASSUME NEW s \in {"inspecting", "locks"}, Inspect(m, s) PROVE LoopTypeOK'
    <3>1. Reports(m, s) \subseteq Symptoms /\ After(m, s) \in {"locks", "done"}
      BY DEF Reports, FromSalt, After
    <3>2. budget' \in 0..MaxFaults /\ complete' \subseteq Minions
      BY <2>3, FaultProps DEF Inspect, Lacks
    <3>3. found' \in [Minions -> SUBSET Symptoms]
      BY <2>3, <3>1 DEF Inspect
    <3>4. pc' = [pc EXCEPT ![m] = After(m, s)] \/ pc' = [pc EXCEPT ![m] = "lost"]
      BY <2>3 DEF Inspect, Reach
    <3> QED BY <2>3, <3>1, <3>2, <3>3, <3>4 DEF Inspect
  <2>4. CASE AskMetrics(m)
    BY <2>4 DEF AskMetrics, Reach, Lacks
  <2>5. ASSUME NEW s \in {"inspecting", "locks"}, AskSalt(m, s) PROVE LoopTypeOK'
    <3>1. After(m, s) \in {"locks", "done"}
      BY DEF After
    <3> QED BY <2>5, <3>1 DEF AskSalt, Reach, Lacks
  <2> QED BY <1>12, <2>1, <2>2, <2>3, <2>4, <2>5 DEF SnapshotStep
<1>13. CASE \E m \in Minions : MinionTimeout(m) \/ Reconcile(m)
  BY <1>13, PollAssumption DEF MinionTimeout, Reconcile, Reach, Lacks, Fault
<1>14. CASE Correlate
  BY <1>14 DEF Correlate
<1>15. CASE EndOfCycle \/ PollTimeout
  BY <1>15, PollAssumption DEF EndOfCycle, PollTimeout, Sleep, Forget, NoSnapshots, Fault
<1>16. CASE \E m \in Minions, f \in Fingerprints : Close(m, f)
  BY <1>16 DEF Close
<1> QED BY <1>3, <1>4, <1>5, <1>6, <1>7, <1>8, <1>9, <1>10, <1>11, <1>12, <1>13, <1>14,
       <1>15, <1>16 DEF Next

LEMMA CircuitNumbers ==
    /\ FailureThreshold \in Nat \ {0} /\ RecoveryTimeout \in Nat \ {0}
    /\ 0 \in 0..FailureThreshold /\ 0 \in 0..RecoveryTimeout
BY PollAssumption

(* Both circuits keep their types, whoever calls, ends or is cancelled.    *)
LEMMA SaltCircuitStep ==
    ASSUME SaltCircuit!BreakerTypeOK, [Next]_vars
    PROVE  SaltCircuit!BreakerTypeOK'
<1> USE DEF SaltCircuit!BreakerTypeOK
<1>1. CASE UNCHANGED saltCircuitVars
  BY <1>1 DEF saltCircuitVars
<1>2. ASSUME NEW c \in Minions \cup {Maintainer},
             \/ SaltCircuit!Acquire(c) \/ SaltCircuit!Succeed(c) \/ SaltCircuit!Fail(c)
      PROVE  SaltCircuit!BreakerTypeOK'
  <2>1. salt_call' \in [Minions \cup {Maintainer} -> {"idle", "admitted", "probe"}]
    BY <1>2 DEF SaltCircuit!Acquire, SaltCircuit!Admit, SaltCircuit!Probe, SaltCircuit!Reject, SaltCircuit!Snapshot, SaltCircuit!Succeed, SaltCircuit!Fail,
                SaltCircuit!Return
  <2>2. CASE SaltCircuit!record_success
    <3>1. salt_state' = "CLOSED" /\ salt_failures' = 0 /\ salt_opened' = 0 /\ salt_probing' = FALSE
      BY <2>2 DEF SaltCircuit!record_success
    <3> QED BY <2>1, <3>1, CircuitNumbers
  <2>3. CASE SaltCircuit!record_failure
    <3>1. salt_failures' \in 0..FailureThreshold
      BY <2>3, CircuitNumbers DEF SaltCircuit!record_failure
    <3>2. salt_state' \in {"OPEN", salt_state} /\ salt_opened' \in {0, salt_opened} /\ salt_probing' = FALSE
      BY <2>3 DEF SaltCircuit!record_failure
    <3> QED BY <2>1, <3>1, <3>2, CircuitNumbers
  <2>4. CASE SaltCircuit!Acquire(c)
    <3>1. salt_state' \in {salt_state, "HALF_OPEN"} /\ UNCHANGED <<salt_failures, salt_opened>>
      BY <2>4 DEF SaltCircuit!Acquire, SaltCircuit!Admit, SaltCircuit!Probe, SaltCircuit!Reject, SaltCircuit!Snapshot, SaltCircuit!effective_state
    <3>2. salt_probing' \in BOOLEAN
      BY <2>4 DEF SaltCircuit!Acquire, SaltCircuit!Admit, SaltCircuit!Probe, SaltCircuit!Reject, SaltCircuit!Snapshot, SaltCircuit!effective_probe
    <3> QED BY <2>1, <3>1, <3>2
  <2> QED BY <1>2, <2>2, <2>3, <2>4 DEF SaltCircuit!Succeed, SaltCircuit!Fail
<1>3. CASE SaltCircuit!Tick
  <2>1. salt_opened' \in 0..RecoveryTimeout
    BY <1>3, CircuitNumbers DEF SaltCircuit!Tick
  <2>2. UNCHANGED <<salt_state, salt_failures, salt_probing, salt_call>>
    BY <1>3 DEF SaltCircuit!Tick
  <2> QED BY <2>1, <2>2
<1>4. CASE SaltCircuit!Renew
  <2>1. /\ salt_state' = "CLOSED" /\ salt_failures' = 0 /\ salt_opened' = 0 /\ salt_probing' = FALSE
        /\ salt_call' = [c \in Minions \cup {Maintainer} |-> "idle"]
    BY <1>4 DEF SaltCircuit!Renew
  <2> QED BY <2>1, CircuitNumbers
<1>5. ASSUME NEW minions, CancelCalls(minions) PROVE SaltCircuit!BreakerTypeOK'
  BY <1>5 DEF CancelCalls
<1>6. CASE Start \/ MaintainSalt \/ LoginEnds \/ CircuitsAge
  BY <1>1, <1>2, <1>3, <1>6 DEF Start, MaintainSalt, AskLogin, LoginEnds, CircuitsAge
<1>7. CASE Restart
  BY <1>4, <1>7 DEF Restart
<1>8. CASE PollTimeout \/ \E m \in Minions : MinionTimeout(m)
  BY <1>5, <1>8 DEF PollTimeout, MinionTimeout
<1>9. CASE \E m \in Minions : SnapshotStep(m)
  BY <1>1, <1>2, <1>9
     DEF SnapshotStep, AskMetrics, Ingest, WithoutSalt, AskSalt, Inspect, circuitVars
<1>10. CASE ~(\/ Start \/ MaintainSalt \/ LoginEnds \/ CircuitsAge \/ Restart \/ PollTimeout
              \/ \E m \in Minions : MinionTimeout(m) \/ SnapshotStep(m))
  <2>1. UNCHANGED saltCircuitVars
    BY <1>10 DEF Next, vars, circuitVars, Alter, Register, ExpireSession, Terminate, Tick,
       Wake, RefreshEnds, RefreshStep, Reconcile, Correlate, EndOfCycle, Close
  <2> QED BY <1>1, <2>1
<1> QED BY <1>6, <1>7, <1>8, <1>9, <1>10

LEMMA PromCircuitStep ==
    ASSUME PromCircuit!BreakerTypeOK, [Next]_vars
    PROVE  PromCircuit!BreakerTypeOK'
<1> USE DEF PromCircuit!BreakerTypeOK
<1>1. CASE UNCHANGED promCircuitVars
  BY <1>1 DEF promCircuitVars
<1>2. ASSUME NEW c \in Minions,
             \/ PromCircuit!Acquire(c) \/ PromCircuit!Succeed(c) \/ PromCircuit!Fail(c)
      PROVE  PromCircuit!BreakerTypeOK'
  <2>1. prom_call' \in [Minions -> {"idle", "admitted", "probe"}]
    BY <1>2 DEF PromCircuit!Acquire, PromCircuit!Admit, PromCircuit!Probe, PromCircuit!Reject, PromCircuit!Snapshot, PromCircuit!Succeed, PromCircuit!Fail,
                PromCircuit!Return
  <2>2. CASE PromCircuit!record_success
    <3>1. prom_state' = "CLOSED" /\ prom_failures' = 0 /\ prom_opened' = 0 /\ prom_probing' = FALSE
      BY <2>2 DEF PromCircuit!record_success
    <3> QED BY <2>1, <3>1, CircuitNumbers
  <2>3. CASE PromCircuit!record_failure
    <3>1. prom_failures' \in 0..FailureThreshold
      BY <2>3, CircuitNumbers DEF PromCircuit!record_failure
    <3>2. prom_state' \in {"OPEN", prom_state} /\ prom_opened' \in {0, prom_opened} /\ prom_probing' = FALSE
      BY <2>3 DEF PromCircuit!record_failure
    <3> QED BY <2>1, <3>1, <3>2, CircuitNumbers
  <2>4. CASE PromCircuit!Acquire(c)
    <3>1. prom_state' \in {prom_state, "HALF_OPEN"} /\ UNCHANGED <<prom_failures, prom_opened>>
      BY <2>4 DEF PromCircuit!Acquire, PromCircuit!Admit, PromCircuit!Probe, PromCircuit!Reject, PromCircuit!Snapshot, PromCircuit!effective_state
    <3>2. prom_probing' \in BOOLEAN
      BY <2>4 DEF PromCircuit!Acquire, PromCircuit!Admit, PromCircuit!Probe, PromCircuit!Reject, PromCircuit!Snapshot, PromCircuit!effective_probe
    <3> QED BY <2>1, <3>1, <3>2
  <2> QED BY <1>2, <2>2, <2>3, <2>4 DEF PromCircuit!Succeed, PromCircuit!Fail
<1>3. CASE PromCircuit!Tick
  <2>1. prom_opened' \in 0..RecoveryTimeout
    BY <1>3, CircuitNumbers DEF PromCircuit!Tick
  <2>2. UNCHANGED <<prom_state, prom_failures, prom_probing, prom_call>>
    BY <1>3 DEF PromCircuit!Tick
  <2> QED BY <2>1, <2>2
<1>4. CASE PromCircuit!Renew
  <2>1. /\ prom_state' = "CLOSED" /\ prom_failures' = 0 /\ prom_opened' = 0 /\ prom_probing' = FALSE
        /\ prom_call' = [c \in Minions |-> "idle"]
    BY <1>4 DEF PromCircuit!Renew
  <2> QED BY <2>1, CircuitNumbers
<1>5. ASSUME NEW minions, CancelCalls(minions) PROVE PromCircuit!BreakerTypeOK'
  BY <1>5 DEF CancelCalls
<1>6. CASE CircuitsAge
  BY <1>1, <1>3, <1>6 DEF CircuitsAge
<1>7. CASE Restart
  BY <1>4, <1>7 DEF Restart
<1>8. CASE PollTimeout \/ \E m \in Minions : MinionTimeout(m)
  BY <1>5, <1>8 DEF PollTimeout, MinionTimeout
<1>9. CASE \E m \in Minions : SnapshotStep(m)
  BY <1>1, <1>2, <1>9
     DEF SnapshotStep, AskMetrics, Ingest, WithoutSalt, AskSalt, Inspect, circuitVars
<1>10. CASE ~(\/ CircuitsAge \/ Restart \/ PollTimeout
              \/ \E m \in Minions : MinionTimeout(m) \/ SnapshotStep(m))
  <2>1. UNCHANGED promCircuitVars
    BY <1>10 DEF Next, vars, circuitVars, Alter, Register, ExpireSession, Terminate, Tick,
       Start, MaintainSalt, AskLogin, LoginEnds, Wake, RefreshEnds, RefreshStep, Reconcile,
       Correlate, EndOfCycle, Close
  <2> QED BY <1>1, <2>1
<1> QED BY <1>6, <1>7, <1>8, <1>9, <1>10

-----------------------------------------------------------------------------
(* What is released is sound from the correlation to the end of the cycle. *)
LEMMA ReleasedStep ==
    ASSUME LoopTypeOK, Sound(released), [Next]_vars
    PROVE  Sound(released)'
<1>1. scenario' = scenario
  BY DEF Next, vars, Alter, Register, ExpireSession, Start, MaintainSalt, LoginEnds, CircuitsAge, Terminate, Tick,
     Restart, worldVars, Wake, RefreshEnds, RefreshStep, SnapshotStep, AskMetrics, Ingest, AskSalt, WithoutSalt,
     Inspect, MinionTimeout, Reconcile, Correlate, EndOfCycle, PollTimeout, Close
<1>2. CASE released' = released
  BY <1>1, <1>2 DEF Sound, Along
<1>3. CASE released' = {}
  BY <1>3 DEF Sound
<1>4. CASE Correlate
  <2>1. CycleAnomalies \in SUBSET Symptoms
    BY DEF CycleAnomalies, Snapshots, LoopTypeOK
  <2>2. Sound(Window!Released(CycleAnomalies, scenario.edges))
    BY <2>1, ReleasedAreSound
  <2>3. released' = Window!Released(CycleAnomalies, scenario.edges)
    BY <1>4 DEF Correlate
  <2> QED BY <1>1, <2>2, <2>3 DEF Sound, Along
<1>5. CASE ~Correlate
  <2>1. released' = released \/ released' = {}
    BY <1>5 DEF Next, vars, Alter, Register, ExpireSession, Start, MaintainSalt, LoginEnds, CircuitsAge, Terminate,
       Tick, Restart, NoSnapshots, Wake, RefreshEnds, RefreshStep, SnapshotStep, AskMetrics, Ingest, AskSalt,
       WithoutSalt, Inspect, MinionTimeout, Reconcile, EndOfCycle, PollTimeout, Forget, Close
  <2> QED BY <1>2, <1>3, <2>1
<1> QED BY <1>4, <1>5

RowsOK == Store!StoreTypeOK /\ ChainNeedsEdge /\ ChainReplacesSymptom

LEMMA ReconcileRows ==
    ASSUME RowsOK, Bookkeeping, Sound(released), NEW m \in Minions, Reconcile(m)
    PROVE  RowsOK'
<1>1. DOMAIN rows = Fingerprints /\ DOMAIN changes = Minions
  BY DEF Bookkeeping
<1>2. Store!Reconcile(m, Seen(m)) /\ scenario' = scenario
  BY DEF Reconcile
<1>3. Store!StoreTypeOK'
  BY <1>1, <1>2, SeenProps, ReconcileTypes DEF RowsOK
<1>4. \A f \in Fingerprints :
          /\ MinionOf[f] # m => rows'[f] = rows[f]
          /\ Open(f)' => Open(f) \/ f \in DOMAIN Seen(m)
          /\ MinionOf[f] = m /\ Confirmed(f)' => f \in DOMAIN Seen(m)
  BY <1>1, <1>2, ReconciledRows DEF RowsOK
<1>5. \A a \in Symptoms \cup Chains :
          /\ Window!identity_key(a) \in Fingerprints
          /\ MinionOf[Window!identity_key(a)] = a.minion
  BY AnomalyProps, FingerprintProps DEF MinionOf
<1>6. ChainNeedsEdge'
  <2> SUFFICES ASSUME NEW c \in Chains, Open(Window!identity_key(c))'
               PROVE  Along(c)
    BY <1>2 DEF ChainNeedsEdge, Along
  <2>1. CASE Open(Window!identity_key(c))
    BY <2>1 DEF RowsOK, ChainNeedsEdge, Along
  <2>2. CASE Window!identity_key(c) \in DOMAIN Seen(m)
    <3>1. PICK a \in released : Window!identity_key(c) = Window!identity_key(a)
      BY <2>2, SeenProps
    <3>2. a.minion = c.minion /\ a.metric = c.metric /\ a.resource = c.resource
      BY <3>1, FingerprintProps
    <3>3. IsChain(a)
      BY <3>2, AnomalyProps DEF IsChain
    <3> QED BY <3>2, <3>3 DEF Sound, Along
  <2> QED BY <1>4, <1>5, <2>1, <2>2
<1>7. ChainReplacesSymptom'
  <2> SUFFICES ASSUME NEW c \in Chains, NEW s \in Symptoms,
                      Window!is_apache(s), s.minion = c.minion,
                      Confirmed(Window!identity_key(c))', Confirmed(Window!identity_key(s))'
               PROVE  FALSE
    BY DEF ChainReplacesSymptom
  <2>1. CASE c.minion # m
    <3>1. /\ rows'[Window!identity_key(c)] = rows[Window!identity_key(c)]
          /\ rows'[Window!identity_key(s)] = rows[Window!identity_key(s)]
      BY <1>4, <1>5, <2>1
    <3> QED BY <3>1 DEF RowsOK, ChainReplacesSymptom, Confirmed, Open, Store!Active
  <2>2. CASE c.minion = m
    <3>1. /\ Window!identity_key(c) \in DOMAIN Seen(m)
          /\ Window!identity_key(s) \in DOMAIN Seen(m)
      BY <1>4, <1>5, <2>2
    <3>2. PICK a \in released : Window!identity_key(c) = Window!identity_key(a)
      BY <3>1, SeenProps
    <3>3. PICK b \in released : Window!identity_key(s) = Window!identity_key(b)
      BY <3>1, SeenProps
    <3>4. IsChain(a) /\ a.minion = c.minion
      BY <3>2, FingerprintProps, AnomalyProps DEF IsChain
    <3>5. ~IsChain(b)
      BY <3>3, FingerprintProps, SymptomProps DEF IsChain
    <3>6. b = s
      BY <3>3, <3>5, SymptomsDiffer, AnomalyProps DEF Sound
    <3> QED BY <3>4, <3>6 DEF Sound
  <2> QED BY <2>1, <2>2
<1> QED BY <1>3, <1>6, <1>7 DEF RowsOK

LEMMA CloseRows ==
    ASSUME RowsOK, Bookkeeping, NEW m \in Minions, NEW f \in Fingerprints, Close(m, f)
    PROVE  RowsOK'
<1>1. DOMAIN rows = Fingerprints /\ DOMAIN changes = Minions /\ scenario' = scenario
  BY DEF Bookkeeping, Close
<1>2. Store!StoreTypeOK'
  BY <1>1, CloseTypes DEF RowsOK
<1>3. \A g \in Fingerprints :
          Open(g)' => Open(g) /\ (Confirmed(g)' => Confirmed(g))
  <2> SUFFICES ASSUME NEW g \in Fingerprints, Open(g)'
               PROVE  Open(g) /\ rows'[g] = rows[g]
    BY DEF Confirmed
  <2>1. rows' = IF Open(f) THEN [rows EXCEPT ![f].status = "resolved"] ELSE rows
    BY DEF Close, Store!MarkResolved, Open
  <2>2. CASE g = f /\ Open(f)
    <3>1. rows'[f] = [rows[f] EXCEPT !.status = "resolved"] /\ rows[f] \in Store!Row
      BY <1>1, <2>1, <2>2 DEF RowsOK, Store!StoreTypeOK, Open, Store!Active
    <3>2. rows'[f].status = "resolved"
      BY <3>1 DEF Store!Row
    <3> QED BY <2>2, <3>2 DEF Open, Store!Active
  <2>3. CASE ~(g = f /\ Open(f))
    <3>1. rows'[g] = rows[g]
      BY <1>1, <2>1, <2>3
    <3> QED BY <3>1 DEF Open, Store!Active
  <2> QED BY <2>2, <2>3
<1>4. \A a \in Symptoms \cup Chains : Window!identity_key(a) \in Fingerprints
  BY AnomalyProps
<1>5. ChainNeedsEdge'
  BY <1>1, <1>3, <1>4 DEF RowsOK, ChainNeedsEdge
<1>6. ChainReplacesSymptom'
  <2>1. \A g \in Fingerprints : Confirmed(g)' => Confirmed(g)
    BY <1>3 DEF Confirmed
  <2> QED BY <1>4, <2>1 DEF RowsOK, ChainReplacesSymptom
<1> QED BY <1>2, <1>5, <1>6 DEF RowsOK

LEMMA RowsStep ==
    ASSUME RowsOK, Bookkeeping, Sound(released), [Next]_vars
    PROVE  RowsOK'
<1>1. scenario' = scenario
  BY DEF Next, vars, Alter, Register, ExpireSession, Start, MaintainSalt, LoginEnds, CircuitsAge, Terminate, Tick,
     Restart, worldVars, Wake, RefreshEnds, RefreshStep, SnapshotStep, AskMetrics, Ingest, AskSalt, WithoutSalt,
     Inspect, MinionTimeout, Reconcile, Correlate, EndOfCycle, PollTimeout, Close
<1>2. rows' = rows =>
          (ChainNeedsEdge => ChainNeedsEdge') /\ (ChainReplacesSymptom => ChainReplacesSymptom')
  BY <1>1 DEF ChainNeedsEdge, ChainReplacesSymptom, Confirmed, Open, Store!Active
<1>3. CASE UNCHANGED storeVars
  <2>1. Store!StoreTypeOK'
    BY <1>3 DEF storeVars, RowsOK, Store!StoreTypeOK, Store!Changes, Store!Row, Store!Work,
       Store!IncidentsOf
  <2> QED BY <1>2, <1>3, <2>1 DEF RowsOK, storeVars
<1>4. CASE Restart \/ EndOfCycle \/ PollTimeout
  <2>1. rows' = rows /\ changes' = [m \in Minions |-> Store!NoChanges]
    BY <1>4 DEF Restart, EndOfCycle, PollTimeout, Forget
  <2> QED BY <1>2, <2>1, ForgetTypes DEF RowsOK
<1>5. CASE \E m \in Minions : Reconcile(m)
  BY <1>5, ReconcileRows
<1>6. CASE \E m \in Minions, f \in Fingerprints : Close(m, f)
  BY <1>6, CloseRows
<1>7. CASE ~(Restart \/ EndOfCycle \/ PollTimeout) /\ ~(\E m \in Minions : Reconcile(m))
           /\ ~(\E m \in Minions, f \in Fingerprints : Close(m, f))
  <2>1. UNCHANGED storeVars
    BY <1>7 DEF Next, vars, Alter, Register, ExpireSession, Start, MaintainSalt, LoginEnds, CircuitsAge, Terminate,
       Tick, Wake, RefreshEnds, RefreshStep, SnapshotStep, AskMetrics, Ingest, AskSalt, WithoutSalt, Inspect,
       MinionTimeout, Correlate
  <2> QED BY <1>3, <2>1
<1> QED BY <1>4, <1>5, <1>6, <1>7

-----------------------------------------------------------------------------
(* The inductive invariant.  The properties of the rows rest on the        *)
(* anomalies that may still be reconciled, and these on the snapshots.     *)
PollInv == LoopTypeOK /\ Bookkeeping /\ Sound(released) /\ RowsOK

LEMMA InitRows ==
    ASSUME Init
    PROVE  RowsOK
<1>1. /\ rows = [f \in Fingerprints |-> None]
      /\ changes = [m \in Minions |-> Store!NoChanges]
  BY DEF Init, Store!StoreInit
<1>2. Store!Nothing \in [{} -> Store!Work] /\ Store!Nothing \in [{} -> Severities \cup {None}]
  BY DEF Store!Nothing
<1>3. \A m \in Minions : Store!NoChanges \in Store!Changes(m)
  BY <1>2 DEF Store!NoChanges, Store!Changes
<1>4. \A a \in Symptoms \cup Chains : ~Open(Window!identity_key(a))
  BY <1>1, AnomalyProps DEF Open, Store!Active
<1> QED BY <1>1, <1>3, <1>4 DEF RowsOK, Store!StoreTypeOK, ChainNeedsEdge,
           ChainReplacesSymptom, Confirmed

(* The strengthening holds throughout, with the types of all components.   *)
THEOREM PollInvariant ==
    Spec => [](PollInv /\ Inv!InventoryTypeOK /\ Health!ReadinessTypeOK /\ TypeOK)
<1> DEFINE Circuits == SaltCircuit!BreakerTypeOK /\ PromCircuit!BreakerTypeOK
           All == PollInv /\ Inv!InventoryTypeOK /\ Health!ReadinessTypeOK /\ TypeOK
<1>1. Init => All
  <2> SUFFICES ASSUME Init PROVE All
    OBVIOUS
  <2>1. Bookkeeping
    BY DEF Init, Bookkeeping, Resolving, Store!StoreInit, Store!NoChanges, Store!Nothing
  <2>2. LoopTypeOK
    BY PollAssumption DEF Init, LoopTypeOK
  <2>3. Sound(released)
    BY DEF Init, Sound
  <2>4. Inv!InventoryTypeOK
    <3>1. RefreshInterval \in 0..RefreshInterval
      BY PollAssumption
    <3> QED BY <3>1 DEF Init, Inv!InventoryInit, Inv!InventoryTypeOK, Inv!Stages
  <2>5. Health!ReadinessTypeOK
    BY DEF Init, Health!ReadinessInit, Health!ReadinessTypeOK
  <2>6. RowsOK
    BY InitRows
  <2>7. \A k \in DOMAIN first_seen : k \in Fingerprints /\ first_seen[k] \in 0..Grace
    BY DEF Init, Window!CorrelationInit
  <2>9. Circuits
    <3>1. SaltCircuit!BreakerInit /\ PromCircuit!BreakerInit
      BY DEF Init
    <3>2. SaltCircuit!BreakerTypeOK
      BY <3>1, CircuitNumbers DEF SaltCircuit!BreakerInit, SaltCircuit!BreakerTypeOK
    <3>3. PromCircuit!BreakerTypeOK
      BY <3>1, CircuitNumbers DEF PromCircuit!BreakerInit, PromCircuit!BreakerTypeOK
    <3> QED BY <3>2, <3>3
  <2>8. TypeOK
    BY <2>2, <2>3, <2>4, <2>5, <2>6, <2>7, <2>9 DEF TypeOK, LoopTypeOK, Sound, RowsOK
  <2> QED BY <2>1, <2>2, <2>3, <2>4, <2>5, <2>6, <2>8 DEF PollInv
<1>2. All /\ [Next]_vars => All'
  <2> SUFFICES ASSUME All, [Next]_vars PROVE All'
    OBVIOUS
  <2>1. Bookkeeping'
    BY StepProps DEF PollInv
  <2>2. LoopTypeOK'
    BY LoopStep DEF PollInv
  <2>3. Sound(released)'
    BY ReleasedStep DEF PollInv
  <2>4. Inv!InventoryTypeOK' /\ Health!ReadinessTypeOK'
    BY InventoryStep, ReadinessStep
  <2>5. RowsOK'
    BY RowsStep DEF PollInv
  <2>6. \A k \in DOMAIN first_seen' : k \in Fingerprints /\ first_seen'[k] \in 0..Grace
    BY WindowStep DEF PollInv, LoopTypeOK
  <2>8. Circuits'
    BY SaltCircuitStep, PromCircuitStep DEF TypeOK
  <2>7. TypeOK'
    BY <2>2, <2>3, <2>4, <2>5, <2>6, <2>8 DEF TypeOK, LoopTypeOK, Sound, RowsOK
  <2> QED BY <2>1, <2>2, <2>3, <2>4, <2>5, <2>7 DEF PollInv
<1> HIDE DEF All
<1>3. Spec => []All
  BY <1>1, <1>2, PTL DEF Spec
<1> QED BY <1>3 DEF All

(* Every variable of the loop and of its components keeps its type.        *)
THEOREM PollTypeCorrect == Spec => []TypeOK
BY PollInvariant, PTL

(* A chain is opened for minions that an edge links, or for one minion     *)
(* alone: correlate_dependency_anomalies() blames no unrelated database.   *)
THEOREM ChainsNeedEdges == Spec => []ChainNeedsEdge
<1>1. PollInv => ChainNeedsEdge
  BY DEF PollInv, RowsOK
<1> QED BY <1>1, PollInvariant, PTL

(* While a chain is confirmed its saturated workers are not, whatever was  *)
(* held back, lost, cancelled or restarted between the two.                *)
THEOREM ChainsReplaceSymptoms == Spec => []ChainReplacesSymptom
<1>1. PollInv => ChainReplacesSymptom
  BY DEF PollInv, RowsOK
<1> QED BY <1>1, PollInvariant, PTL
=============================================================================
