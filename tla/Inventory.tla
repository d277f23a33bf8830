------------------------------ MODULE Inventory ------------------------------
(***************************************************************************)
(* The refreshable inventory of minions (uyuni_ai_agent/inventory.py): a   *)
(* cached copy of what the Uyuni server lists, read through a session that *)
(* the client renews when a request is refused.                            *)
(*                                                                         *)
(* A refresh sends two requests to Uyuni and one to Prometheus, together.  *)
(* Of the answers only the set of listed minions is kept: which target is  *)
(* joined with which minion is left out.  The gather() of the refresh ends *)
(* with the first request that fails; the others are taken to end, by      *)
(* their timeouts, before the next refresh begins.                         *)
(***************************************************************************)
EXTENDS Naturals

CONSTANTS
    Minions,
    RefreshInterval,    \* refresh_interval_seconds, in ticks
    None

VARIABLES
    systems,        \* the minions the Uyuni server lists now
    last_good,      \* _last_good, or None
    refreshed_age,  \* ticks since _refreshed_at, up to RefreshInterval
    logged_in,      \* _logged_in of the Uyuni client
    session,        \* the server knows the session of the client
    stage,          \* what each request of the refresh waits for
    answer          \* the minions in each answer

inventoryVars ==
    <<systems, last_good, refreshed_age, logged_in, session, stage, answer>>

UyuniRequests == {"listActiveSystems", "getMinionIdMap"}
Requests == UyuniRequests \cup {"targets"}
Stages == {"idle", "locking", "login", "ready", "sent", "refused", "relocking",
           "relogin", "resend", "resent", "done", "failed"}

InventoryInit ==
    /\ last_good = None /\ refreshed_age = RefreshInterval
    /\ logged_in = FALSE /\ session = FALSE
    /\ stage = [r \in Requests |-> "idle"]
    /\ answer = [r \in Requests |-> {}]

Refreshing == \E r \in Requests : stage[r] # "idle"

(* Variant with a bug: it is served for ever.                              *)
CachedForEver == last_good # None

(* The cached list is served while it is younger than the interval.        *)
Cached == last_good # None /\ refreshed_age < RefreshInterval

-----------------------------------------------------------------------------
(* One request: UyuniAPIClient._get() and login().                         *)

Goes(r, s) == stage' = [stage EXCEPT ![r] = s]
Keep == UNCHANGED <<systems, last_good, refreshed_age>>

(* refresh() starts its three requests.                                    *)
StartRefresh ==
    /\ ~Refreshing /\ ~Cached
    /\ stage' = [r \in Requests |->
                    IF r \in UyuniRequests /\ ~logged_in THEN "locking" ELSE "ready"]
    /\ answer' = [r \in Requests |-> {}]
    /\ Keep /\ UNCHANGED <<logged_in, session>>

LockFree == \A r \in UyuniRequests : stage[r] \notin {"login", "relogin"}

(* Under the lock the flag is read again: another request may have logged  *)
(* in meanwhile.                                                           *)
TakeLock(r) ==
    /\ stage[r] \in {"locking", "relocking"} /\ LockFree
    /\ LET first == stage[r] = "locking"
       IN  Goes(r, IF logged_in THEN (IF first THEN "ready" ELSE "resend")
                   ELSE (IF first THEN "login" ELSE "relogin"))
    /\ Keep /\ UNCHANGED <<logged_in, session, answer>>

LoginSucceeds(r) ==
    /\ stage[r] \in {"login", "relogin"}
    /\ logged_in' = TRUE /\ session' = TRUE
    /\ Goes(r, IF stage[r] = "login" THEN "ready" ELSE "resend")
    /\ Keep /\ UNCHANGED answer

(* The server takes the request with the cookie the client has now.        *)
Send(r) ==
    /\ stage[r] \in {"ready", "resend"}
    /\ IF session \/ r = "targets"
       THEN /\ Goes(r, IF stage[r] = "ready" THEN "sent" ELSE "resent")
            /\ answer' = [answer EXCEPT ![r] = systems]
       ELSE /\ Goes(r, IF stage[r] = "ready" THEN "refused" ELSE "failed")
            /\ UNCHANGED answer
    /\ Keep /\ UNCHANGED <<logged_in, session>>

(* A 401 lowers the flag, whoever has renewed the session meanwhile.       *)
Unauthorized(r) ==
    /\ stage[r] = "refused"
    /\ logged_in' = FALSE
    /\ Goes(r, "relocking")
    /\ Keep /\ UNCHANGED <<session, answer>>

Receive(r) ==
    /\ stage[r] \in {"sent", "resent"}
    /\ Goes(r, "done")
    /\ Keep /\ UNCHANGED <<logged_in, session, answer>>

RequestStep(r) ==
    TakeLock(r) \/ LoginSucceeds(r) \/ Send(r) \/ Unauthorized(r) \/ Receive(r)

(* A login or a request is not answered, or with an error or a body that   *)
(* does not validate.                                                      *)
RequestFails(r) ==
    /\ stage[r] \in {"login", "relogin", "sent", "resent"}
    /\ Goes(r, "failed")
    /\ Keep /\ UNCHANGED <<logged_in, session, answer>>

-----------------------------------------------------------------------------
(* The end of a refresh.                                                   *)

AllAnswered == \A r \in Requests : stage[r] = "done"
SomeFailed ==
    /\ \E r \in Requests : stage[r] = "failed"
    /\ \A r \in Requests : stage[r] \in {"done", "failed"}

(* Only systems that both Uyuni answers name become minions; a minion      *)
(* without a target is kept with the default one.                          *)
Discovered == answer["listActiveSystems"] \cap answer["getMinionIdMap"]

Idle == stage' = [r \in Requests |-> "idle"] /\ answer' = [r \in Requests |-> {}]

RefreshSucceeds ==
    /\ AllAnswered
    /\ last_good' = Discovered /\ refreshed_age' = 0
    /\ Idle /\ UNCHANGED <<systems, logged_in, session>>

(* A failed refresh keeps list and age, so the next poll tries again; what *)
(* refresh() returns, or that it raises, is read off last_good.            *)
RefreshFails ==
    /\ SomeFailed
    /\ Idle /\ Keep /\ UNCHANGED <<logged_in, session>>

(* Time, the server that forgets the session, and the operators who        *)
(* register and remove systems.                                            *)
Older(age, limit) == IF age < limit THEN age + 1 ELSE age

Expire ==
    /\ session /\ session' = FALSE
    /\ Keep /\ UNCHANGED <<logged_in, stage, answer>>

Register(m) ==
    /\ systems' \in {systems \cup {m}, systems \ {m}}
    /\ UNCHANGED <<last_good, refreshed_age, logged_in, session, stage, answer>>

-----------------------------------------------------------------------------
InventoryTypeOK ==
    /\ systems \subseteq Minions
    /\ last_good = None \/ last_good \subseteq Minions
    /\ refreshed_age \in 0..RefreshInterval
    /\ logged_in \in BOOLEAN /\ session \in BOOLEAN
    /\ stage \in [Requests -> Stages]
    /\ answer \in [Requests -> SUBSET Minions]
=============================================================================
