-------------------------- MODULE ExpirationCache --------------------------
(***************************************************************************)
(* cache/cache.go: a map from keys to the nodes of a doubly linked list    *)
(* kept in order of expiration.  The methods that change the cache run     *)
(* under the write lock, so one call at a time is in progress; its loops   *)
(* (pruneExpired, the two searches for an insertion point) take one step   *)
(* per iteration, and everything between two iterations is one step.       *)
(*                                                                         *)
(* A node is identified with its key: node.Key never changes, the map      *)
(* holds one node per key, and a node that has left the map is garbage.    *)
(* Its links are kept until the key gets a fresh node, whose links are nil.*)
(* What unlocked readers see of a node is the subject of CacheConcurrency. *)
(***************************************************************************)
EXTENDS Integers, FiniteSets, Sequences

CONSTANTS
    Key,
    Value,
    Time,                \* instants, as integers: only their order matters
    RequestedCapacity,   \* the argument of NewExpirationCache
    MaxInt,              \* math.MaxInt
    nil

ASSUME CacheAssumption ==
    /\ Time \subseteq Int
    /\ RequestedCapacity \in Int
    /\ MaxInt \in Nat \ {0}
    /\ nil \notin Key

Capacity == IF RequestedCapacity <= 0 THEN MaxInt ELSE RequestedCapacity

VARIABLES
    c,          \* the ExpirationCache: nodeByKey, head, tail and all links
    pc,         \* "idle", or the loop the call in progress is in
    call,       \* the arguments of the call in progress, or nil
    mark,       \* the loop variable (node in pruneExpired, mark in Set)
    committed   \* history: the entries as the last finished call left them

vars == <<c, pc, call, mark, committed>>

Pointer == Key \cup {nil}
Entry == [value : Value, expiresAt : Time]
Method == {"SetFromHead", "SetFromTail"}
Call == [method : Method, key : Key, value : Value,
         now : Time, expiresAt : Time]

\* No call, and none without its method, is nil.
ASSUME CallAssumption ==
    nil \notin Call \cup [key : Key, value : Value, now : Time, expiresAt : Time]

Keys(d) == DOMAIN d.nodeByKey
Expiry(d, n) == d.nodeByKey[n].expiresAt

-----------------------------------------------------------------------------
(* The list operations, from a cache to a cache.                           *)

NewExpirationCache ==
    [nodeByKey |-> [k \in {} |-> {}],
     head |-> nil,
     tail |-> nil,
     prev |-> [k \in Key |-> nil],
     next |-> [k \in Key |-> nil]]

\* Seeded fault: the back link of the next node is forgotten.
DetachForwardOnly(d, n) ==
    LET p == d.prev[n]
        q == d.next[n]
    IN  [d EXCEPT !.head = IF p = nil THEN q ELSE @,
                  !.tail = IF q = nil THEN p ELSE @,
                  !.next = IF p = nil THEN @ ELSE [@ EXCEPT ![p] = q]]

Detach(d, n) ==
    LET p == d.prev[n]
        q == d.next[n]
    IN  [nodeByKey |-> d.nodeByKey,
         head |-> IF p = nil THEN q ELSE d.head,
         tail |-> IF q = nil THEN p ELSE d.tail,
         prev |-> IF q = nil THEN d.prev ELSE [d.prev EXCEPT ![q] = p],
         next |-> IF p = nil THEN d.next ELSE [d.next EXCEPT ![p] = q]]

RemoveNode(d, n) ==
    LET rest == [k \in Keys(d) \ {n} |-> d.nodeByKey[k]]
    IN  [Detach(d, n) EXCEPT !.nodeByKey = rest]

InsertBefore(d, n, m) ==
    LET p == d.prev[m]
    IN  [nodeByKey |-> d.nodeByKey,
         head |-> IF p = nil THEN n ELSE d.head,
         tail |-> d.tail,
         prev |-> [d.prev EXCEPT ![n] = p, ![m] = n],
         next |-> IF p = nil THEN [d.next EXCEPT ![n] = m]
                             ELSE [d.next EXCEPT ![n] = m, ![p] = n]]

\* Seeded fault: inserting after the last node leaves the tail where it was.
InsertAfterKeepsTail(d, n, m) ==
    LET q == d.next[m]
    IN  [d EXCEPT !.prev = IF q = nil THEN [@ EXCEPT ![n] = m]
                                      ELSE [@ EXCEPT ![n] = m, ![q] = n],
                  !.next = [@ EXCEPT ![n] = q, ![m] = n]]

InsertAfter(d, n, m) ==
    LET q == d.next[m]
    IN  [nodeByKey |-> d.nodeByKey,
         head |-> d.head,
         tail |-> IF q = nil THEN n ELSE d.tail,
         prev |-> IF q = nil THEN [d.prev EXCEPT ![n] = m]
                             ELSE [d.prev EXCEPT ![n] = m, ![q] = n],
         next |-> [d.next EXCEPT ![n] = q, ![m] = n]]

InsertOnly(d, n) == [d EXCEPT !.head = n, !.tail = n]

\* Seeded fault: the oldest entry goes one entry too late.
PruneOldestLate(d) ==
    IF Cardinality(Keys(d)) <= Capacity THEN d ELSE RemoveNode(d, d.head)

PruneOldest(d) ==
    IF Cardinality(Keys(d)) < Capacity THEN d ELSE RemoveNode(d, d.head)

\* Seeded fault: the literal of the fresh node leaves the value out.
CreateNodeWithoutValue(d, k, entry) ==
    [d EXCEPT !.nodeByKey = [j \in Keys(d) \cup {k} |->
                                IF j = k THEN [entry EXCEPT !.value = nil]
                                         ELSE d.nodeByKey[j]],
              !.prev[k] = nil,
              !.next[k] = nil]

\* A fresh node for key k: its fields set, its links nil.
CreateNode(d, k, entry) ==
    [nodeByKey |-> [j \in Keys(d) \cup {k} |->
                       IF j = k THEN entry ELSE d.nodeByKey[j]],
     head |-> d.head,
     tail |-> d.tail,
     prev |-> [d.prev EXCEPT ![k] = nil],
     next |-> [d.next EXCEPT ![k] = nil]]

\* Seeded fault: the node keeps its old value.
UpdateNodeKeepsValue(d, k, entry) ==
    [Detach(d, k) EXCEPT !.nodeByKey[k].expiresAt = entry.expiresAt]

\* The node already in the map leaves the list and gets new fields.
UpdateNode(d, k, entry) ==
    [Detach(d, k) EXCEPT !.nodeByKey[k] = entry]

GetOrCreateNode(d, k, entry) ==
    IF k \in Keys(d) THEN UpdateNode(d, k, entry)
                     ELSE CreateNode(PruneOldest(d), k, entry)

-----------------------------------------------------------------------------
(* The calls.                                                              *)

Init ==
    /\ c = NewExpirationCache
    /\ pc = "idle"
    /\ call = nil
    /\ mark = nil
    /\ committed = c.nodeByKey

\* The end of a call: the lock is released.
Finish ==
    /\ pc' = "idle"
    /\ call' = nil
    /\ mark' = nil
    /\ committed' = c'.nodeByKey

BeginSet(method, k, v, now, expiresAt) ==
    /\ pc = "idle"
    /\ pc' = "prune"
    /\ call' = [method |-> method, key |-> k, value |-> v,
                now |-> now, expiresAt |-> expiresAt]
    /\ mark' = c.head
    /\ UNCHANGED <<c, committed>>

\* Seeded fault: an entry that expires now is kept.
AtExpiredBefore == mark # nil /\ Expiry(c, mark) < call.now

AtExpired == mark # nil /\ Expiry(c, mark) <= call.now

\* Seeded fault: the node is detached from the list and left in the map.
PruneExpiredDetaches ==
    /\ pc = "prune"
    /\ AtExpired
    /\ c' = Detach(c, mark)
    /\ mark' = c'.next[mark]
    /\ UNCHANGED <<pc, call, committed>>

\* One iteration of pruneExpired.
PruneExpired ==
    /\ pc = "prune"
    /\ AtExpired
    /\ c' = RemoveNode(c, mark)
    /\ mark' = c'.next[mark]
    /\ UNCHANGED <<pc, call, committed>>

\* The rest of getOrCreateNode, and the choice of the first mark.
GetOrCreate ==
    /\ pc = "prune"
    /\ ~AtExpired
    /\ pc' = "search"
    /\ c' = GetOrCreateNode(c, call.key, [value |-> call.value,
                                          expiresAt |-> call.expiresAt])
    /\ mark' = IF call.method = "SetFromHead" THEN c'.head ELSE c'.tail
    /\ UNCHANGED <<call, committed>>

\* mark == nil: the list was empty.
InsertFirst ==
    /\ pc = "search"
    /\ mark = nil
    /\ c' = InsertOnly(c, call.key)
    /\ Finish

\* One iteration of the loop of SetFromHead.
SearchFromHead ==
    /\ pc = "search"
    /\ call.method = "SetFromHead"
    /\ mark # nil
    /\ \/ /\ call.expiresAt < Expiry(c, mark)
          /\ c' = InsertBefore(c, call.key, mark)
          /\ Finish
       \/ /\ call.expiresAt >= Expiry(c, mark)
          /\ c.next[mark] = nil
          /\ c' = InsertAfter(c, call.key, c.tail)
          /\ Finish
       \/ /\ call.expiresAt >= Expiry(c, mark)
          /\ c.next[mark] # nil
          /\ mark' = c.next[mark]
          /\ UNCHANGED <<c, pc, call, committed>>

\* One iteration of the loop of SetFromTail.
SearchFromTail ==
    /\ pc = "search"
    /\ call.method = "SetFromTail"
    /\ mark # nil
    /\ \/ /\ call.expiresAt > Expiry(c, mark)
          /\ c' = InsertAfter(c, call.key, mark)
          /\ Finish
       \/ /\ call.expiresAt <= Expiry(c, mark)
          /\ c.prev[mark] = nil
          /\ c' = InsertBefore(c, call.key, c.head)
          /\ Finish
       \/ /\ call.expiresAt <= Expiry(c, mark)
          /\ c.prev[mark] # nil
          /\ mark' = c.prev[mark]
          /\ UNCHANGED <<c, pc, call, committed>>

\* Remove of a key that is present; of any other key it changes nothing.
Remove(k) ==
    /\ pc = "idle"
    /\ k \in Keys(c)
    /\ c' = RemoveNode(c, k)
    /\ Finish

Clear ==
    /\ pc = "idle"
    /\ c' = [c EXCEPT !.nodeByKey = NewExpirationCache.nodeByKey,
                      !.head = nil,
                      !.tail = nil]
    /\ Finish

\* A step of the call in progress.
Step == PruneExpired \/ GetOrCreate \/ InsertFirst
            \/ SearchFromHead \/ SearchFromTail

Next ==
    \/ \E method \in Method, k \in Key, v \in Value, now, e \in Time :
           BeginSet(method, k, v, now, e)
    \/ Step
    \/ \E k \in Key : Remove(k)
    \/ Clear

Spec == Init /\ [][Next]_vars

-----------------------------------------------------------------------------
(* The iterators All and Backward: the nodes met from start along link up  *)
(* to the first nil, and at most one more than the map has keys, so that a *)
(* cycle shows.                                                            *)

Walk(start, link) ==
    LET met[i \in 1 .. Cardinality(Keys(c)) + 1] ==
            IF i = 1 THEN start
                     ELSE IF met[i - 1] = nil THEN nil ELSE link[met[i - 1]]
    IN  [i \in 1 .. Cardinality({j \in DOMAIN met : met[j] # nil}) |-> met[i]]

All == Walk(c.head, c.next)
Backward == Walk(c.tail, c.prev)

-----------------------------------------------------------------------------
(* Properties.                                                             *)

\* The shape of every variable, between calls and inside them.
TypeOK ==
    /\ c \in [nodeByKey : UNION {[S -> Entry] : S \in SUBSET Key},
              head : Pointer, tail : Pointer,
              prev : [Key -> Pointer], next : [Key -> Pointer]]
    /\ pc \in {"idle", "prune", "search"}
    /\ call \in IF pc = "idle" THEN {nil} ELSE Call
    /\ mark \in Pointer
    /\ committed \in UNION {[S -> Entry] : S \in SUBSET Key}

\* The list of d, from head to tail along next and from tail to head along
\* prev, is s[1], ..., s[n]: the keys in S, each once.
Linked(d, S, n, s) ==
    /\ \A i, j \in 1 .. n : s[i] = s[j] => i = j
    /\ \A k \in S : \E i \in 1 .. n : s[i] = k
    /\ d.head = IF n = 0 THEN nil ELSE s[1]
    /\ d.tail = IF n = 0 THEN nil ELSE s[n]
    /\ \A i \in 1 .. n :
          /\ d.prev[s[i]] = IF i = 1 THEN nil ELSE s[i - 1]
          /\ d.next[s[i]] = IF i = n THEN nil ELSE s[i + 1]

Sorted(d, n, s) ==
    \A i, j \in 1 .. n : i < j => Expiry(d, s[i]) <= Expiry(d, s[j])

\* The keys whose nodes are in the list: while a Set looks for the place of
\* its node, that node is in the map and not in the list.
Listed == IF pc = "search" THEN Keys(c) \ {call.key} ELSE Keys(c)

\* Where the search of a Set stands in the list s[1], ..., s[n]: the node to
\* insert belongs after everything passed from the head, before everything
\* passed from the tail, and there is room for it.
Searching(n, s) ==
    /\ n < Capacity
    /\ call.key \in Keys(c)
    /\ Expiry(c, call.key) = call.expiresAt
    /\ n = 0 => /\ mark = nil
                /\ c.prev[call.key] = nil
                /\ c.next[call.key] = nil
    /\ n > 0 => \E i \in 1 .. n :
           /\ mark = s[i]
           /\ \A j \in 1 .. n :
                 /\ call.method = "SetFromHead" /\ j < i =>
                        Expiry(c, s[j]) <= call.expiresAt
                 /\ call.method = "SetFromTail" /\ i < j =>
                        call.expiresAt <= Expiry(c, s[j])

\* Map and list agree at every step: the list, in order of expiration, holds
\* the nodes of the map, pruneExpired always stands at the head (so what it
\* removes is the front of the list), and a search is where it should be.
\* This is the inductive invariant behind the other properties.
ListInv ==
    \E n \in 0 .. Capacity : \E s \in [1 .. n -> Listed] :
        /\ Linked(c, Listed, n, s)
        /\ Sorted(c, n, s)
        /\ pc = "prune" => mark = c.head
        /\ pc = "search" => Searching(n, s)

\* "All returns an iterator over all entries ... from the earliest expiration
\* (head) to the latest", Backward over the same in reverse (cache.go:200-217):
\* whatever calls came before, the two walks meet every key of the map once.
IteratorsAgree ==
    pc = "idle" =>
        /\ Len(All) = Cardinality(Keys(c))
        /\ {All[i] : i \in 1 .. Len(All)} = Keys(c)
        /\ Sorted(c, Len(All), All)
        /\ \A i \in 1 .. Len(All) : Backward[Len(All) + 1 - i] = All[i]
        /\ Len(Backward) = Len(All)

\* "All expired entries are pruned before insertion" (cache.go:107): the loop
\* of pruneExpired stops at the first live node, which is enough only while
\* the list is in order.
NoExpiredSurvivor ==
    pc = "search" =>
        \A k \in Keys(c) \ {call.key} : Expiry(c, k) > call.now

\* "fixed capacity" (cache.go:23) at every step, inside the calls as well.
WithinCapacity == Cardinality(Keys(c)) <= Capacity

Request ==
    IF call = nil THEN nil
    ELSE [key |-> call.key, value |-> call.value,
          now |-> call.now, expiresAt |-> call.expiresAt]

\* The whole promise of ExpiringMap (cache.go:23-25, 106-107): every finished
\* call changes the entries as that specification allows for its arguments,
\* and nothing else does.
Contract == INSTANCE ExpiringMap WITH entries <- committed, request <- Request
ImplementsContract == Contract!Spec

\* Every loop of cache.go comes to its end, so every Set gives the lock back:
\* pruneExpired (cache.go:253-262) always goes on with fewer entries, and a
\* search (cache.go:126-139, 163-176) goes on by one node along one list that
\* it leaves alone, never back.  With no deadlock, that is termination.
LoopsMoveOn ==
    [][/\ pc = "prune" /\ pc' = "prune" => Keys(c') \subseteq Keys(c) \ {mark}
                                           /\ mark \in Keys(c)
       /\ pc = "search" /\ pc' = "search" =>
            /\ c' = c
            /\ \E n \in 0 .. Capacity : \E s \in [1 .. n -> Listed] :
                  /\ Linked(c, Listed, n, s)
                  /\ \E i, j \in 1 .. n :
                        /\ mark = s[i] /\ mark' = s[j]
                        /\ IF call.method = "SetFromHead" THEN j = i + 1
                                                           ELSE j = i - 1]_vars
=============================================================================
