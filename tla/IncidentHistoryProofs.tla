------------------------ MODULE IncidentHistoryProofs ------------------------
(***************************************************************************)
(* Theorems about the incident store, for any incidents, minions, number   *)
(* of healthy cycles and generations.                                      *)
(***************************************************************************)
EXTENDS IncidentHistory, TLAPS

(* The strengthening: the columns of an active row are what the history    *)
(* says of it, and what the last reconcile() returned is still true of it. *)
ColumnsAreHistory ==
    \A f \in Fingerprints :
        Active(f) => rows[f].absent = missed[f] /\ rows[f].emitted = told[f]

HInv ==
    /\ StoreTypeOK /\ DOMAIN changes = Minions
    /\ missed \in [Fingerprints -> 0..ResolveAfter]
    /\ told \in [Fingerprints -> Severities \cup {None}]
    /\ ColumnsAreHistory
    /\ CooldownNeedsDelivery
    /\ ResolutionIsEarned
    /\ UntoldIncidentsAreDue

-----------------------------------------------------------------------------
(* What the helpers of reconcile() make of a row.                          *)
LEMMA OpenedIsRow ==
    ASSUME StoreTypeOK, NEW f \in Fingerprints
    PROVE  Opened(f) \in Row
<1>1. CASE rows[f] = None
  BY <1>1, StoreAssumption DEF Opened, Row
<1>2. CASE rows[f] # None
  <2>1. rows[f].starts_at \in 0..(Generations - 1)
    BY <1>2 DEF StoreTypeOK, Row
  <2>2. (rows[f].starts_at + 1) % Generations \in 0..(Generations - 1)
    BY <2>1, StoreAssumption
  <2> QED BY <1>2, <2>2, StoreAssumption DEF Opened, Row
<1> QED BY <1>1, <1>2

LEMMA PresentProps ==
    ASSUME StoreTypeOK, CooldownNeedsDelivery, NEW f \in Fingerprints
    PROVE  /\ Present(f) \in Row /\ Present(f).absent = 0
           /\ Present(f).status = "active"
           /\ Active(f) => /\ Present(f).emitted = rows[f].emitted
                           /\ Present(f).cooling = rows[f].cooling
           /\ ~Active(f) => Present(f).emitted = None /\ ~Present(f).cooling
<1>1. CASE Active(f)
  BY <1>1, StoreAssumption DEF Present, Active, StoreTypeOK, Row
<1>2. CASE ~Active(f)
  <2>1. Present(f) = Opened(f)
    BY <1>2 DEF Present
  <2>2. /\ Opened(f).absent = 0 /\ Opened(f).status = "active"
        /\ Opened(f).emitted = None /\ Opened(f).cooling = FALSE
    BY DEF Opened
  <2> QED BY <1>2, <2>1, <2>2, OpenedIsRow
<1> QED BY <1>1, <1>2

LEMMA MissedProps ==
    ASSUME StoreTypeOK, NEW f \in Fingerprints, Active(f)
    PROVE  /\ Missed(f) \in Row
           /\ Missed(f).absent = IF rows[f].absent < ResolveAfter
                                 THEN rows[f].absent + 1 ELSE rows[f].absent
           /\ Missed(f).status = "active"
           /\ Missed(f).emitted = rows[f].emitted /\ Missed(f).cooling = rows[f].cooling
<1>1. rows[f] \in Row /\ rows[f].status = "active"
  BY DEF StoreTypeOK, Active
<1> QED BY <1>1, StoreAssumption DEF Missed, Row

LEMMA FiringIsWork ==
    ASSUME StoreTypeOK, CooldownNeedsDelivery, NEW f \in Fingerprints,
           NEW severity \in Severities
    PROVE  Firing(f, severity) \in Work
BY PresentProps DEF Firing, Work, Row

-----------------------------------------------------------------------------
(* One call of reconcile().                                                *)
LEMMA ObserveKeeps ==
    ASSUME HInv, NEW m \in Minions, NEW seen \in Snapshots(m), Observe(m, seen)
    PROVE  HInv'
<1> DEFINE gone == ActiveOf(m) \ DOMAIN seen
<1>1. /\ DOMAIN seen \subseteq IncidentsOf(m)
      /\ \A f \in DOMAIN seen : seen[f] \in Severities
  BY DEF Snapshots
<1>2. \A f \in gone : f \in Fingerprints /\ Active(f) /\ MinionOf[f] = m /\ f \notin DOMAIN seen
  BY DEF ActiveOf, IncidentsOf
<1>3. \A f \in DOMAIN seen : f \in Fingerprints /\ MinionOf[f] = m
  BY <1>1 DEF IncidentsOf
<1>4. \A f \in Fingerprints :
          f \notin DOMAIN seen /\ f \notin gone => MinionOf[f] # m \/ ~Active(f)
  BY DEF ActiveOf, IncidentsOf
<1>5. /\ DOMAIN rows' = Fingerprints
      /\ rows' = [f \in Fingerprints |->
                     IF f \in DOMAIN seen THEN Present(f)
                     ELSE IF f \in gone THEN Missed(f) ELSE rows[f]]
  BY DEF Observe, Reconcile
<1>6. changes' = [changes EXCEPT ![m] =
              [firing   |-> [f \in {g \in DOMAIN seen : Due(g, seen[g])} |->
                                Firing(f, seen[f])],
               resolved |-> [f \in {g \in gone : Missed(g).absent >= ResolveAfter}
                                |-> rows[f].emitted]]]
  BY DEF Observe, Reconcile
<1>7. missed' = [f \in Fingerprints |->
                     IF f \in DOMAIN seen THEN 0
                     ELSE IF MinionOf[f] = m /\ missed[f] < ResolveAfter
                          THEN missed[f] + 1 ELSE missed[f]]
  BY DEF Observe
<1>8. told' = [f \in Fingerprints |->
                   IF f \in DOMAIN seen /\ ~Active(f) THEN None ELSE told[f]]
  BY DEF Observe
<1> HIDE DEF gone
<1>9. missed' \in [Fingerprints -> 0..ResolveAfter]
  BY <1>7, StoreAssumption DEF HInv
<1>10. told' \in [Fingerprints -> Severities \cup {None}]
  BY <1>8 DEF HInv
<1>11. rows' \in [Fingerprints -> Row \cup {None}]
  <2> SUFFICES ASSUME NEW f \in Fingerprints PROVE rows'[f] \in Row \cup {None}
    BY <1>5
  <2>1. CASE f \in DOMAIN seen
    BY <1>5, <2>1, PresentProps DEF HInv
  <2>2. CASE f \notin DOMAIN seen /\ f \in gone
    BY <1>2, <1>5, <2>2, MissedProps DEF HInv
  <2>3. CASE f \notin DOMAIN seen /\ f \notin gone
    BY <1>5, <2>3 DEF HInv, StoreTypeOK
  <2> QED BY <2>1, <2>2, <2>3
<1>12. changes'[m] \in Changes(m)
  <2> DEFINE due == {g \in DOMAIN seen : Due(g, seen[g])}
             over == {g \in gone : Missed(g).absent >= ResolveAfter}
  <2>1. changes'[m] = [firing   |-> [f \in due |-> Firing(f, seen[f])],
                       resolved |-> [f \in over |-> rows[f].emitted]]
    BY <1>6 DEF HInv
  <2>2. due \in SUBSET IncidentsOf(m) /\ over \in SUBSET IncidentsOf(m)
    BY <1>1, <1>2 DEF IncidentsOf
  <2>3. [f \in due |-> Firing(f, seen[f])] \in [due -> Work]
    BY <1>1, <1>3, FiringIsWork DEF HInv
  <2>4. [f \in over |-> rows[f].emitted] \in [over -> Severities \cup {None}]
    <3> SUFFICES ASSUME NEW f \in over PROVE rows[f].emitted \in Severities \cup {None}
      OBVIOUS
    <3> QED BY <1>2 DEF HInv, StoreTypeOK, Active, Row
  <2> HIDE DEF due, over
  <2> QED BY <2>1, <2>2, <2>3, <2>4 DEF Changes
<1>13. DOMAIN changes' = Minions /\ \A n \in Minions \ {m} : changes'[n] = changes[n]
  BY <1>6 DEF HInv
<1>14. StoreTypeOK'
  BY <1>11, <1>12, <1>13 DEF HInv, StoreTypeOK, Changes, Row, Work, IncidentsOf
<1>15. \A f \in Fingerprints : f \in DOMAIN seen =>
          /\ rows'[f] = Present(f) /\ missed'[f] = 0
          /\ told'[f] = IF Active(f) THEN told[f] ELSE None
  BY <1>5, <1>7, <1>8
<1>16. \A f \in Fingerprints : f \in gone =>
          /\ rows'[f] = Missed(f) /\ told'[f] = told[f]
          /\ missed'[f] = IF missed[f] < ResolveAfter THEN missed[f] + 1 ELSE missed[f]
  BY <1>2, <1>5, <1>7, <1>8
<1>17. \A f \in Fingerprints : f \notin DOMAIN seen /\ f \notin gone =>
          /\ rows'[f] = rows[f] /\ told'[f] = told[f]
          /\ MinionOf[f] # m => missed'[f] = missed[f]
  BY <1>5, <1>7, <1>8
<1>18. ColumnsAreHistory'
  <2> SUFFICES ASSUME NEW f \in Fingerprints, Active(f)'
               PROVE  rows'[f].absent = missed'[f] /\ rows'[f].emitted = told'[f]
    BY DEF ColumnsAreHistory
  <2>1. CASE f \in DOMAIN seen
    BY <1>15, <2>1, PresentProps DEF HInv, ColumnsAreHistory
  <2>2. CASE f \notin DOMAIN seen /\ f \in gone
    BY <1>2, <1>16, <2>2, MissedProps DEF HInv, ColumnsAreHistory
  <2>3. CASE f \notin DOMAIN seen /\ f \notin gone
    BY <1>4, <1>17, <2>3 DEF HInv, ColumnsAreHistory, Active
  <2> QED BY <2>1, <2>2, <2>3
<1>19. CooldownNeedsDelivery'
  <2> SUFFICES ASSUME NEW f \in Fingerprints, rows'[f] # None, rows'[f].cooling
               PROVE  rows'[f].emitted # None
    BY DEF CooldownNeedsDelivery
  <2>1. CASE f \in DOMAIN seen
    BY <1>15, <2>1, PresentProps DEF HInv, CooldownNeedsDelivery, Active
  <2>2. CASE f \notin DOMAIN seen /\ f \in gone
    BY <1>2, <1>16, <2>2, MissedProps DEF HInv, CooldownNeedsDelivery, Active
  <2>3. CASE f \notin DOMAIN seen /\ f \notin gone
    BY <1>17, <2>3 DEF HInv, CooldownNeedsDelivery
  <2> QED BY <2>1, <2>2, <2>3
<1>20. ResolutionIsEarned'
  <2> SUFFICES ASSUME NEW n \in Minions, NEW f \in DOMAIN changes'[n].resolved
               PROVE  MinionOf[f] = n /\ missed'[f] >= ResolveAfter
    BY DEF ResolutionIsEarned
  <2>1. CASE n = m
    <3>1. f \in gone /\ Missed(f).absent >= ResolveAfter
      BY <1>6, <2>1 DEF HInv
    <3>2. f \in Fingerprints /\ Active(f) /\ MinionOf[f] = m
      BY <1>2, <3>1
    <3>3. missed'[f] = Missed(f).absent
      BY <1>16, <3>1, <3>2, MissedProps DEF HInv, ColumnsAreHistory
    <3> QED BY <2>1, <3>1, <3>2, <3>3
  <2>2. CASE n # m
    <3>1. f \in DOMAIN changes[n].resolved
      BY <1>13, <2>2
    <3>2. MinionOf[f] = n /\ missed[f] >= ResolveAfter
      BY <3>1 DEF HInv, ResolutionIsEarned
    <3>3. f \in Fingerprints
      BY <3>1 DEF HInv, StoreTypeOK, Changes, IncidentsOf
    <3>4. f \notin DOMAIN seen /\ f \notin gone
      BY <1>2, <1>3, <2>2, <3>2
    <3> QED BY <1>17, <2>2, <3>2, <3>3, <3>4
  <2> QED BY <2>1, <2>2
<1>21. UntoldIncidentsAreDue'
  <2> SUFFICES ASSUME NEW f \in Fingerprints, Active(f)', missed'[f] = 0, told'[f] = None
               PROVE  f \in DOMAIN changes'[MinionOf[f]].firing
    BY DEF UntoldIncidentsAreDue
  <2>1. CASE f \in DOMAIN seen
    <3>1. Due(f, seen[f])
      BY <1>15, <2>1 DEF HInv, ColumnsAreHistory, CooldownNeedsDelivery, Due, Active
    <3>2. DOMAIN changes'[m].firing = {g \in DOMAIN seen : Due(g, seen[g])}
      BY <1>6 DEF HInv
    <3> QED BY <1>3, <2>1, <3>1, <3>2
  <2>2. CASE f \notin DOMAIN seen /\ MinionOf[f] = m
    <3>1. missed'[f] = IF missed[f] < ResolveAfter THEN missed[f] + 1 ELSE missed[f]
      BY <1>7, <2>2
    <3>2. missed[f] \in 0..ResolveAfter
      BY DEF HInv
    <3> QED BY <3>1, <3>2, StoreAssumption
  <2>3. CASE MinionOf[f] # m
    <3>1. f \notin DOMAIN seen /\ f \notin gone
      BY <1>2, <1>3, <2>3
    <3>2. Active(f) /\ missed[f] = 0 /\ told[f] = None
      BY <1>17, <2>3, <3>1 DEF Active
    <3>3. MinionOf[f] \in Minions
      BY StoreAssumption
    <3> QED BY <1>13, <2>3, <3>2, <3>3 DEF HInv, UntoldIncidentsAreDue
  <2> QED BY <2>1, <2>2, <2>3
<1> QED BY <1>9, <1>10, <1>13, <1>14, <1>18, <1>19, <1>20, <1>21 DEF HInv

-----------------------------------------------------------------------------
(* A call that writes one row and keeps its absences: what is left to show *)
(* is that the row is one, and that its payload is what was told.          *)
LEMMA OneRowKeeps ==
    ASSUME HInv, NEW f \in Fingerprints, NEW row \in Row,
           rows' = [rows EXCEPT ![f] = row], UNCHANGED <<changes, missed>>,
           told' \in [Fingerprints -> Severities \cup {None}],
           \A g \in Fingerprints \ {f} : told'[g] = told[g],
           row.status = "active" =>
               /\ Active(f)
               /\ row.absent = rows[f].absent /\ row.emitted = told'[f]
               /\ told'[f] # None \/ told'[f] = told[f],
           row.cooling => row.emitted # None
    PROVE  HInv'
<1>1. /\ rows'[f] = row
      /\ \A g \in Fingerprints \ {f} : rows'[g] = rows[g]
  BY DEF HInv, StoreTypeOK
<1>2. rows' \in [Fingerprints -> Row \cup {None}]
  BY DEF HInv, StoreTypeOK
<1>3. StoreTypeOK'
  BY <1>2 DEF HInv, StoreTypeOK, Changes, Row, Work, IncidentsOf
<1>4. ColumnsAreHistory'
  <2> SUFFICES ASSUME NEW g \in Fingerprints, Active(g)'
               PROVE  rows'[g].absent = missed'[g] /\ rows'[g].emitted = told'[g]
    BY DEF ColumnsAreHistory
  <2>1. CASE g = f
    BY <1>1, <2>1 DEF HInv, ColumnsAreHistory, Active
  <2>2. CASE g # f
    BY <1>1, <2>2 DEF HInv, ColumnsAreHistory, Active
  <2> QED BY <2>1, <2>2
<1>5. CooldownNeedsDelivery'
  BY <1>1 DEF HInv, CooldownNeedsDelivery
<1>6. ResolutionIsEarned'
  BY DEF HInv, ResolutionIsEarned
<1>7. UntoldIncidentsAreDue'
  <2> SUFFICES ASSUME NEW g \in Fingerprints, Active(g)', missed'[g] = 0, told'[g] = None
               PROVE  g \in DOMAIN changes'[MinionOf[g]].firing
    BY DEF UntoldIncidentsAreDue
  <2>1. Active(g) /\ told[g] = None
    BY <1>1 DEF Active
  <2> QED BY <2>1 DEF HInv, UntoldIncidentsAreDue
<1> QED BY <1>3, <1>4, <1>5, <1>6, <1>7 DEF HInv

(* A call that found nothing to write.                                     *)
LEMMA NothingWritten ==
    ASSUME HInv, UNCHANGED historyVars
    PROVE  HInv'
BY DEF HInv, historyVars, storeVars, StoreTypeOK, ColumnsAreHistory,
       CooldownNeedsDelivery, ResolutionIsEarned, UntoldIncidentsAreDue, Active,
       Changes, Row, Work, IncidentsOf

LEMMA AcknowledgeKeeps ==
    ASSUME HInv, NEW f \in Fingerprints, NEW work \in Work, Acknowledge(f, work)
    PROVE  HInv'
<1> DEFINE row == [rows[f] EXCEPT !.emitted = work.severity, !.cooling = TRUE]
<1>1. work.severity \in Severities /\ work.severity # None
  BY StoreAssumption DEF Work
<1>2. CASE Active(f) /\ work.starts_at = rows[f].starts_at
  <2>1. rows[f] \in Row
    BY <1>2 DEF HInv, StoreTypeOK, Active
  <2>2. /\ row \in Row /\ row.absent = rows[f].absent
        /\ row.emitted = work.severity
    BY <1>1, <2>1 DEF Row
  <2>3. rows' = [rows EXCEPT ![f] = row]
    BY <1>2 DEF Acknowledge, MarkEmitted, HInv, StoreTypeOK
  <2>4. told' = [told EXCEPT ![f] = work.severity] /\ UNCHANGED <<changes, missed>>
    BY <1>2 DEF Acknowledge
  <2>5. /\ told' \in [Fingerprints -> Severities \cup {None}]
        /\ told'[f] = work.severity
        /\ \A g \in Fingerprints \ {f} : told'[g] = told[g]
    BY <1>1, <2>4 DEF HInv
  <2> HIDE DEF row
  <2> QED BY <1>1, <1>2, <2>2, <2>3, <2>4, <2>5, OneRowKeeps
<1>3. CASE ~(Active(f) /\ work.starts_at = rows[f].starts_at)
  <2>1. UNCHANGED historyVars
    BY <1>3 DEF Acknowledge, MarkEmitted, historyVars, storeVars
  <2> QED BY <2>1, NothingWritten
<1> QED BY <1>2, <1>3

LEMMA CloseKeeps ==
    ASSUME HInv, NEW f \in Fingerprints, Close(f)
    PROVE  HInv'
<1> DEFINE row == [rows[f] EXCEPT !.status = "resolved"]
<1>1. CASE Active(f)
  <2>1. rows[f] \in Row /\ rows[f] # None
    BY <1>1 DEF HInv, StoreTypeOK, Active
  <2>2. /\ row \in Row /\ row.status # "active"
        /\ row.cooling = rows[f].cooling /\ row.emitted = rows[f].emitted
    BY <2>1 DEF Row
  <2>3. rows' = [rows EXCEPT ![f] = row] /\ UNCHANGED <<changes, missed, told>>
    BY <1>1 DEF Close, MarkResolved, HInv, StoreTypeOK
  <2>4. row.cooling => row.emitted # None
    BY <2>1, <2>2 DEF HInv, CooldownNeedsDelivery
  <2>5. told' \in [Fingerprints -> Severities \cup {None}]
    BY <2>3 DEF HInv
  <2> HIDE DEF row
  <2> QED BY <2>2, <2>3, <2>4, <2>5, OneRowKeeps
<1>2. CASE ~Active(f)
  <2>1. UNCHANGED historyVars
    BY <1>2 DEF Close, MarkResolved, historyVars, storeVars
  <2> QED BY <2>1, NothingWritten
<1> QED BY <1>1, <1>2

LEMMA CoolKeeps ==
    ASSUME HInv, NEW f \in Fingerprints, Cool(f)
    PROVE  HInv'
<1> DEFINE row == [rows[f] EXCEPT !.cooling = FALSE]
<1>1. rows[f] \in Row /\ rows[f] # None
  BY DEF HInv, StoreTypeOK, Cool, CooldownElapses
<1>2. /\ row \in Row /\ ~row.cooling /\ row.status = rows[f].status
      /\ row.absent = rows[f].absent /\ row.emitted = rows[f].emitted
  BY <1>1 DEF Row
<1>3. rows' = [rows EXCEPT ![f] = row] /\ UNCHANGED <<changes, missed, told>>
  BY DEF Cool, CooldownElapses, HInv, StoreTypeOK
<1>4. told' \in [Fingerprints -> Severities \cup {None}]
  BY <1>3 DEF HInv
<1>5. row.status = "active" => Active(f) /\ row.emitted = told'[f]
  BY <1>1, <1>2, <1>3 DEF HInv, ColumnsAreHistory, Active
<1> HIDE DEF row
<1> QED BY <1>2, <1>3, <1>4, <1>5, OneRowKeeps

-----------------------------------------------------------------------------
LEMMA HInvInit == HistoryInit => HInv
<1> SUFFICES ASSUME HistoryInit PROVE HInv
  OBVIOUS
<1>1. /\ rows = [f \in Fingerprints |-> None]
      /\ changes = [m \in Minions |-> NoChanges]
      /\ missed = [f \in Fingerprints |-> 0] /\ told = [f \in Fingerprints |-> None]
  BY DEF HistoryInit, StoreInit
<1>2. /\ DOMAIN NoChanges.resolved = {} /\ DOMAIN NoChanges.firing = {}
      /\ \A m \in Minions : NoChanges \in Changes(m)
  <2>1. Nothing \in [{} -> Work] /\ Nothing \in [{} -> Severities \cup {None}]
    BY DEF Nothing
  <2> QED BY <2>1 DEF NoChanges, Nothing, Changes
<1>3. StoreTypeOK
  BY <1>1, <1>2 DEF StoreTypeOK
<1>4. 0 \in 0..ResolveAfter
  BY StoreAssumption
<1>5. \A f \in Fingerprints : ~Active(f)
  BY <1>1 DEF Active
<1> QED BY <1>1, <1>2, <1>3, <1>4, <1>5
        DEF HInv, ColumnsAreHistory, CooldownNeedsDelivery, ResolutionIsEarned,
            UntoldIncidentsAreDue

LEMMA HInvStep == HInv /\ [HistoryNext]_historyVars => HInv'
<1> SUFFICES ASSUME HInv, [HistoryNext]_historyVars PROVE HInv'
  OBVIOUS
<1>1. ASSUME NEW m \in Minions, NEW seen \in Snapshots(m), Observe(m, seen) PROVE HInv'
  BY <1>1, ObserveKeeps
<1>2. ASSUME NEW f \in Fingerprints, NEW work \in Work, Acknowledge(f, work) PROVE HInv'
  BY <1>2, AcknowledgeKeeps
<1>3. ASSUME NEW f \in Fingerprints, Close(f) PROVE HInv'
  BY <1>3, CloseKeeps
<1>4. ASSUME NEW f \in Fingerprints, Cool(f) PROVE HInv'
  BY <1>4, CoolKeeps
<1>5. CASE UNCHANGED historyVars
  BY <1>5, NothingWritten
<1> QED BY <1>1, <1>2, <1>3, <1>4, <1>5 DEF HistoryNext

LEMMA HInvHolds == HistorySpec => []HInv
BY HInvInit, HInvStep, PTL DEF HistorySpec

-----------------------------------------------------------------------------
(* Every row and everything reconcile() returns keeps its type: the count  *)
(* of absences never passes resolve_after_healthy_cycles.                  *)
THEOREM StoreTypeCorrect == HistorySpec => []StoreTypeOK
<1>1. HInv => StoreTypeOK
  BY DEF HInv
<1> QED BY <1>1, HInvHolds, PTL

(* reconcile() resolves only what was missing from as many snapshots of    *)
(* its own minion in a row as resolve_after_healthy_cycles demands.        *)
THEOREM ResolutionsAreEarned == HistorySpec => []ResolutionIsEarned
<1>1. HInv => ResolutionIsEarned
  BY DEF HInv
<1> QED BY <1>1, HInvHolds, PTL

(* reconcile() offers an open incident nobody was told about at every poll *)
(* that sees it: a failed investigation or delivery is not forgotten.      *)
THEOREM UntoldIsRetried == HistorySpec => []UntoldIncidentsAreDue
<1>1. HInv => UntoldIncidentsAreDue
  BY DEF HInv
<1> QED BY <1>1, HInvHolds, PTL

(* The payload of an active row is the one mark_emitted() acknowledged     *)
(* last for this generation, however late the calls of earlier ones come.  *)
THEOREM RowsRememberDelivery == HistorySpec => []RowRemembersDelivery
<1>1. HInv => RowRemembersDelivery
  BY DEF HInv, ColumnsAreHistory, RowRemembersDelivery
<1> QED BY <1>1, HInvHolds, PTL
=============================================================================
