------------------------ MODULE InvestigationContract ------------------------
(***************************************************************************)
(* What the investigation queue promises its callers, without heap,        *)
(* sequence numbers, condition variable or worker tasks: a ledger that     *)
(* says for each incident whether its investigation is absent, pending or  *)
(* in flight (docs of class InvestigationQueue).                           *)
(***************************************************************************)
EXTENDS Naturals, FiniteSets

CONSTANTS Fingerprints, MaxPending, MaxInFlight

VARIABLES
    ledger, \* the state of each incident's investigation
    open    \* whether new investigations are accepted

Entries(status) == {f \in Fingerprints : ledger[f] = status}

Init ==
    /\ ledger = [f \in Fingerprints |-> "absent"]
    /\ open = TRUE

Submit(f) ==
    /\ open /\ ledger[f] = "absent"
    /\ Cardinality(Entries("pending")) < MaxPending
    /\ ledger' = [ledger EXCEPT ![f] = "pending"]
    /\ UNCHANGED open

(* A full queue admits an incident only in the place of another.           *)
Displace(f, g) ==
    /\ open /\ ledger[f] = "absent" /\ ledger[g] = "pending"
    /\ Cardinality(Entries("pending")) >= MaxPending
    /\ ledger' = [ledger EXCEPT ![f] = "pending", ![g] = "absent"]
    /\ UNCHANGED open

Withdraw(f) ==
    /\ ledger[f] = "pending"
    /\ ledger' = [ledger EXCEPT ![f] = "absent"]
    /\ UNCHANGED open

Assign(f) ==
    /\ ledger[f] = "pending"
    /\ Cardinality(Entries("in flight")) < MaxInFlight
    /\ ledger' = [ledger EXCEPT ![f] = "in flight"]
    /\ UNCHANGED open

Complete(f) ==
    /\ ledger[f] = "in flight"
    /\ ledger' = [ledger EXCEPT ![f] = "absent"]
    /\ UNCHANGED open

Shut == open' = FALSE /\ UNCHANGED ledger

Next ==
    \/ \E f \in Fingerprints :
          \/ Submit(f) \/ Withdraw(f) \/ Assign(f) \/ Complete(f)
          \/ \E g \in Fingerprints : Displace(f, g)
    \/ Shut

Spec == Init /\ [][Next]_<<ledger, open>>
=============================================================================
