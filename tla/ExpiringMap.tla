---------------------------- MODULE ExpiringMap ----------------------------
(***************************************************************************)
(* What cache.ExpirationCache promises its callers, with no list and no    *)
(* lock: a map of bounded size whose entries carry an expiration time.     *)
(* "Expired entries are pruned on each set operation.  When the cache      *)
(* reaches its capacity, insertions will evict the entry with the earliest *)
(* expiration time" (cache/cache.go:23-25).  Entries that expire together  *)
(* are evicted in an order the promise leaves open.                        *)
(***************************************************************************)
EXTENDS Integers, FiniteSets

CONSTANTS
    Key,
    Value,
    Time,      \* the instants a caller may pass, as integers
    Capacity,  \* the effective capacity, after NewExpirationCache
    nil

VARIABLES
    entries,   \* a function from the cached keys to their entries
    request    \* the arguments of the Set in progress, or nil

Request == [key : Key, value : Value, now : Time, expiresAt : Time]

\* The entries a Set at instant now keeps when it prunes: !After(now) goes.
Live(now) == {k \in DOMAIN entries : entries[k].expiresAt > now}

Earliest(S) ==
    {k \in S : \A j \in S : entries[k].expiresAt <= entries[j].expiresAt}

\* The keys that may be left, before k is stored, by a Set of k at now.
Survivors(k, now) ==
    IF k \in Live(now) \/ Cardinality(Live(now)) < Capacity
        THEN {Live(now)}
        ELSE {Live(now) \ {j} : j \in Earliest(Live(now))}

-----------------------------------------------------------------------------
Init ==
    /\ entries = [k \in {} |-> {}]
    /\ request = nil

\* A caller asks for a Set; nothing else happens before it is done.
Ask(r) ==
    /\ request = nil
    /\ request' = r
    /\ UNCHANGED entries

Set ==
    /\ request # nil
    /\ request' = nil
    /\ \E kept \in Survivors(request.key, request.now) :
           entries' = [j \in kept \cup {request.key} |->
                           IF j = request.key
                               THEN [value |-> request.value,
                                     expiresAt |-> request.expiresAt]
                               ELSE entries[j]]

Remove(k) ==
    /\ request = nil
    /\ k \in DOMAIN entries
    /\ entries' = [j \in DOMAIN entries \ {k} |-> entries[j]]
    /\ UNCHANGED request

Clear ==
    /\ request = nil
    /\ entries' = [k \in {} |-> {}]
    /\ UNCHANGED request

Next ==
    \/ \E r \in Request : Ask(r)
    \/ Set
    \/ \E k \in Key : Remove(k)
    \/ Clear

Spec == Init /\ [][Next]_<<entries, request>>
=============================================================================
