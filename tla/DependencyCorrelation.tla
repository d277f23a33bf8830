------------------------ MODULE DependencyCorrelation ------------------------
(***************************************************************************)
(* The correlation of Apache and PostgreSQL symptoms                       *)
(* (uyuni_ai_agent/anomaly_detector.py): correlate_dependency_anomalies()  *)
(* merges one pair of candidates of a cycle into a chain, and              *)
(* DependencyCorrelationWindow holds a one-sided candidate back for a      *)
(* while, because the two sides are not scraped at the same instant.       *)
(*                                                                         *)
(* An anomaly is a record of its minion, metric, resource, severity, and   *)
(* whether it is a candidate: saturated Apache workers without a traffic   *)
(* spike, or lock waits of an application that looks like a web tier.      *)
(***************************************************************************)
EXTENDS Naturals

CONSTANTS
    Grace,      \* grace_seconds, in ticks
    Order       \* the anomalies there may be, in the order of the lists

VARIABLE first_seen \* the ticks each held candidate has been seen for, up to Grace

CorrelationInit == first_seen = [k \in {} |-> 0]

identity_key(a) == <<a.minion, a.metric, a.resource>>

is_apache(a) == a.metric = "apache_busy_workers" /\ a.candidate
is_postgres(a) == a.metric = "postgres_blocked_transaction" /\ a.candidate

(* Variant with a bug: any two candidates are taken for one chain.         *)
AnyTwo(apache, postgres, edges) == TRUE

(* edges are pairs of a PostgreSQL minion and the Apache minion it serves. *)
Linked(apache, postgres, edges) ==
    apache.minion = postgres.minion \/ <<postgres.minion, apache.minion>> \in edges

Pairs(anomalies, edges) ==
    {p \in anomalies \X anomalies :
        is_apache(p[1]) /\ is_postgres(p[2]) /\ Linked(p[1], p[2], edges)}

(* The loops select the first Apache candidate with a partner, and its     *)
(* first partner: one pair, or none.                                       *)
Place(a) == CHOOSE i \in DOMAIN Order : Order[i] = a

Selected(pairs) ==
    {p \in pairs : \A q \in pairs :
        \/ Place(p[1]) < Place(q[1])
        \/ p[1] = q[1] /\ Place(p[2]) <= Place(q[2])}

Chain(apache, postgres) ==
    [minion |-> apache.minion, metric |-> "postgres_apache_chain",
     resource |-> <<postgres.minion, postgres.resource>>, candidate |-> FALSE,
     severity |-> IF "critical" \in {apache.severity, postgres.severity}
                  THEN "critical" ELSE "warning"]

(* Variant with a bug: only the second one is taken out of the list.       *)
OnlySecond(pair) == {pair[2]}

(* The chain stands for its two symptoms.                                  *)
Merged(pair) == {pair[1], pair[2]}

correlate_pair(anomalies, edges) ==
    LET pairs == Selected(Pairs(anomalies, edges))
    IN  (anomalies \ UNION {Merged(p) : p \in pairs})
            \cup {Chain(p[1], p[2]) : p \in pairs}

HasChain(anomalies) == \E a \in anomalies : a.metric = "postgres_apache_chain"

is_cross_minion_candidate(a, edges) ==
    \E e \in edges : \/ a.minion = e[1] /\ is_postgres(a)
                     \/ a.minion = e[2] /\ is_apache(a)

CandidateKeys(anomalies, edges) ==
    {identity_key(a) : a \in {c \in anomalies : is_cross_minion_candidate(c, edges)}}

(* Variant with a bug: since it was seen last.                             *)
RememberLast(anomalies, edges) ==
    IF HasChain(correlate_pair(anomalies, edges)) \/ Grace = 0 THEN [k \in {} |-> 0]
    ELSE [k \in CandidateKeys(anomalies, edges) |-> 0]

(* What the window remembers after a cycle: nothing after a chain, else    *)
(* the candidates of this cycle, each since it was seen first.             *)
Remember(anomalies, edges) ==
    IF HasChain(correlate_pair(anomalies, edges)) \/ Grace = 0 THEN [k \in {} |-> 0]
    ELSE [k \in CandidateKeys(anomalies, edges) |->
             IF k \in DOMAIN first_seen THEN first_seen[k] ELSE 0]

(* What the window lets through: everything in a cycle with a chain, else  *)
(* all but the candidates it has not yet seen for the whole grace period.  *)
Held(a, remembered) ==
    identity_key(a) \in DOMAIN remembered /\ remembered[identity_key(a)] < Grace

Released(anomalies, edges) ==
    LET correlated == correlate_pair(anomalies, edges)
        remembered == Remember(anomalies, edges)
    IN  IF HasChain(correlated) THEN correlated
        ELSE {a \in anomalies : ~Held(a, remembered)}

Correlate(anomalies, edges) == first_seen' = Remember(anomalies, edges)

CandidatesAge ==
    first_seen' = [k \in DOMAIN first_seen |->
        IF first_seen[k] < Grace THEN first_seen[k] + 1 ELSE Grace]
=============================================================================
