----------------------------- MODULE PromoteToken -----------------------------
(***************************************************************************)
(* What the in-flight set of hooks/github.rs promises its callers: at most *)
(* one promotion per key at a time.  A key is a pull-request number, the   *)
(* element the set stores.  A promotion that ends either gives its key     *)
(* back or, when the lock of the set is contended at that moment, leaves   *)
(* the key behind until the process restarts.                              *)
(***************************************************************************)
CONSTANTS Wakes,     \* webhook wakes that may try to promote
          Keys,      \* pull-request numbers
          NoKey      \* a wake that is not promoting; no element of Keys

VARIABLES inflight,  \* bat_promote_inflight
          holder     \* the key each wake promotes under

tokenVars == <<inflight, holder>>

TokenTypeOK ==
    /\ inflight \subseteq Keys
    /\ holder \in [Wakes -> Keys \cup {NoKey}]

TokenInit ==
    /\ inflight = {}
    /\ holder = [w \in Wakes |-> NoKey]

Acquire(w, k) ==
    /\ holder[w] = NoKey
    /\ k \notin inflight
    /\ inflight' = inflight \cup {k}
    /\ holder' = [holder EXCEPT ![w] = k]

Release(w) ==
    /\ holder[w] # NoKey
    /\ inflight' = inflight \ {holder[w]}
    /\ holder' = [holder EXCEPT ![w] = NoKey]

Leak(w) ==
    /\ holder[w] # NoKey
    /\ holder' = [holder EXCEPT ![w] = NoKey]
    /\ UNCHANGED inflight

Restart ==
    /\ inflight' = {}
    /\ holder' = [w \in Wakes |-> NoKey]

TokenNext ==
    \/ \E w \in Wakes, k \in Keys : Acquire(w, k)
    \/ \E w \in Wakes : Release(w) \/ Leak(w)
    \/ Restart

TokenSpec == TokenInit /\ [][TokenNext]_tokenVars

\* Two wakes never promote under one pull-request number at the same time:
\* the dedupe of concurrent webhooks in `try_promote_if_bat_green`.
OneHolderPerKey ==
    \A v, w \in Wakes : v # w /\ holder[v] # NoKey => holder[v] # holder[w]
===============================================================================
