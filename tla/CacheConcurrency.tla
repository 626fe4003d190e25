-------------------------- MODULE CacheConcurrency --------------------------
(***************************************************************************)
(* Goroutines that share one ExpirationCache (cache/cache.go): the steps   *)
(* at which the calls of several goroutines can interleave.  What happens  *)
(* to the list under the write lock is one step here, ExpirationCache has  *)
(* its details.  What is not under the lock has its own steps: Get and     *)
(* GetEntry look the node up under the read lock and read its fields after *)
(* RUnlock, while a Set that updates an existing node writes the same      *)
(* fields, one after the other, under a lock those readers no longer hold. *)
(* With no synchronisation between them either order of the two writes may *)
(* be what a reader sees.                                                  *)
(*                                                                         *)
(* A goroutine has a stack of calls: the body of a range loop over All or  *)
(* Backward runs under the read lock of the iterator, and may call the     *)
(* cache itself.                                                           *)
(*                                                                         *)
(* The value a Set stores is its own expiresAt, so that a value tells      *)
(* which expiration time it was stored with.                               *)
(***************************************************************************)
EXTENDS RWMutex, Integers, FiniteSets, SequencesExt

CONSTANTS
    Key,
    Node,        \* identities of nodes, enough for one never to be lacking
    Time,
    Capacity,
    Operation,   \* the methods goroutines call
    InLoop       \* the methods a loop over an iterator calls in its body

Setters == {"SetFromHead", "SetFromTail"}
Writers == Setters \cup {"Remove", "Clear"}
Getters == {"Get", "GetEntry"}
Iterators == {"All", "Backward"}
Method == Writers \cup Getters \cup Iterators \cup {"Contains", "TryContains"}

ASSUME ConcurrencyAssumption ==
    /\ Time \subseteq Int
    /\ Capacity \in Nat \ {0}
    /\ Operation \subseteq Method
    /\ InLoop \subseteq Method \ Writers
    /\ nil \notin Goroutine \cup Key \cup Node \cup Time

VARIABLES
    list,        \* the nodes of the list, from head to tail
    nodeByKey,   \* the node of each key, or nil
    heap,        \* the fields of every node that exists or has existed
    stack,       \* the calls in progress of each goroutine, innermost last
    answer,      \* what the last call of each goroutine returned, or nil
    seen         \* history: the entries of its key since the call began

cacheVars == <<list, nodeByKey, heap>>
vars == <<holds, waiting, writer, list, nodeByKey, heap, stack, answer, seen>>

-----------------------------------------------------------------------------
\* The arguments of each method, nil where it has none.
Call(op) ==
    [op : {op},
     key : IF op \in {"Clear", "All", "Backward"} THEN {nil} ELSE Key,
     now : IF op \in Setters \cup Getters THEN Time ELSE {nil},
     expiresAt : IF op \in Setters THEN Time ELSE {nil}]

Frame(call) ==
    [call |-> call,
     pc |-> CASE call.op \in Writers -> "lock"
              [] call.op = "TryContains" -> "try"
              [] OTHER -> "rlock",
     node |-> nil,
     todo |-> {}]

Idle(g) == stack[g] = <<>>
Top(g) == Last(stack[g])
At(g, pc) == ~Idle(g) /\ Top(g).pc = pc

Update(g, frame) == stack' = [stack EXCEPT ![g] = Append(Front(@), frame)]
Goto(g, pc) == Update(g, [Top(g) EXCEPT !.pc = pc])

\* The end of a call; a caller inside a loop discards the answer.
Return(g, a) ==
    /\ stack' = [stack EXCEPT ![g] = Front(@)]
    /\ answer' = IF Len(stack[g]) = 1 THEN [answer EXCEPT ![g] = a] ELSE answer

Answer(g, ok, value, node) ==
    [call |-> Top(g).call, ok |-> ok, value |-> value, node |-> node]

\* The entry of key k, as the expiration time it was stored with: from the
\* moment a Set has the lock, what that Set stores.
Latest(k) ==
    LET setting == {g \in Goroutine : At(g, "assign") /\ Top(g).call.key = k}
    IN  CASE nodeByKey[k] = nil -> nil
          [] setting # {} -> Top(CHOOSE g \in setting : TRUE).call.expiresAt
          [] OTHER -> heap[nodeByKey[k]].expiresAt

\* Seeded fault: an entry that expires now still counts.
ExpiredBefore(n, now) == heap[n].expiresAt < now

\* !node.expiresAt.After(now), which is also where pruneExpired goes on.
Expired(n, now) == heap[n].expiresAt <= now

\* A step that may change entries, as the calls in progress witness it.
Witness ==
    LET latest == [k \in Key |-> Latest(k)']
    IN  seen' = [g \in Goroutine |->
                    IF Idle(g) \/ stack[g][1].call.key = nil
                        THEN seen[g]
                        ELSE seen[g] \cup {latest[stack[g][1].call.key]}]

-----------------------------------------------------------------------------
Init ==
    /\ LockInit
    /\ list = <<>>
    /\ nodeByKey = [k \in Key |-> nil]
    /\ heap = [n \in {} |-> {}]
    /\ stack = [g \in Goroutine |-> <<>>]
    /\ answer = [g \in Goroutine |-> nil]
    /\ seen = [g \in Goroutine |-> {}]

Begin(g, call) ==
    /\ Idle(g)
    /\ stack' = [stack EXCEPT ![g] = <<Frame(call)>>]
    /\ answer' = [answer EXCEPT ![g] = nil]
    /\ seen' = [seen EXCEPT ![g] =
                   IF call.key = nil THEN {} ELSE {Latest(call.key)}]
    /\ UNCHANGED <<lockVars, cacheVars>>

CallRLock(g) ==
    /\ At(g, "rlock")
    /\ RLock(g)
    /\ Goto(g, "reading")
    /\ UNCHANGED <<cacheVars, answer, seen>>

\* Len and Contains, and Get and GetEntry as far as they hold the lock.
Lookup(g) ==
    /\ At(g, "reading")
    /\ Top(g).call.op \notin Iterators
    /\ Granted(g)
    /\ RUnlock(g)
    /\ LET node == nodeByKey[Top(g).call.key]
       IN  \/ /\ Top(g).call.op = "Contains" \/ node = nil
              /\ Return(g, Answer(g, node # nil, nil, nil))
           \/ /\ Top(g).call.op \in Getters
              /\ node # nil
              /\ Update(g, [Top(g) EXCEPT !.pc = "check", !.node = node])
              /\ UNCHANGED answer
    /\ UNCHANGED <<cacheVars, seen>>

\* Get and GetEntry, unlocked: node.expiresAt.After(now).
CheckExpiry(g) ==
    /\ At(g, "check")
    /\ LET unexpired == ~Expired(Top(g).node, Top(g).call.now)
       IN  \/ /\ ~unexpired
              /\ Return(g, Answer(g, FALSE, nil, nil))
           \/ /\ unexpired
              /\ Top(g).call.op = "GetEntry"
              /\ Return(g, Answer(g, TRUE, nil, Top(g).node))
           \/ /\ unexpired
              /\ Top(g).call.op = "Get"
              /\ Goto(g, "load")
              /\ UNCHANGED answer
    /\ UNCHANGED <<lockVars, cacheVars, seen>>

\* Get, unlocked: node.Value.
LoadValue(g) ==
    /\ At(g, "load")
    /\ Return(g, Answer(g, TRUE, heap[Top(g).node].value, nil))
    /\ UNCHANGED <<lockVars, cacheVars, seen>>

\* Seeded fault: RUnlock also when TryRLock has failed.
TryContainsUnlocks(g) ==
    /\ At(g, "try")
    /\ Return(g, Answer(g, writer = nil /\ nodeByKey[Top(g).call.key] # nil,
                        nil, nil))
    /\ IF writer = nil THEN UNCHANGED holds ELSE holds' = [holds EXCEPT ![g] = @ - 1]
    /\ UNCHANGED <<waiting, writer, cacheVars, seen>>

\* The read lock is taken and given back within the step.
TryContains(g) ==
    /\ At(g, "try")
    /\ Return(g, Answer(g, writer = nil /\ nodeByKey[Top(g).call.key] # nil,
                        nil, nil))
    /\ UNCHANGED <<lockVars, cacheVars, seen>>

CallLock(g) ==
    /\ At(g, "lock")
    /\ Lock(g)
    /\ Goto(g, "writing")
    /\ UNCHANGED <<cacheVars, answer, seen>>

-----------------------------------------------------------------------------
(* The calls that write.                                                   *)

\* Nodes that something still points to.
InUse(kept) ==
    ToSet(kept)
        \cup {answer[g].node : g \in {h \in Goroutine : answer[h] # nil}}
        \cup UNION {{f.node : f \in ToSet(stack[g])} : g \in Goroutine}

\* Seeded fault: the node of the entry just evicted is used again.
FreshNodeRecycled(kept) ==
    IF list # <<>> /\ Head(list) \notin ToSet(kept)
        THEN Head(list)
        ELSE CHOOSE n \in Node \ InUse(kept) : TRUE

\* Bound: there are only so many nodes.
NodeLeft(kept) == Node \ InUse(kept) # {}

\* A node just allocated is not one that something still points to.
FreshNode(kept) == CHOOSE n \in Node \ InUse(kept) : TRUE

Where(s, n) == CHOOSE i \in DOMAIN s : s[i] = n

\* pruneExpired: the list from its first node on that has not expired.
Live(now) ==
    LET expired == {i \in DOMAIN list : \A j \in 1 .. i : Expired(list[j], now)}
    IN  SubSeq(list, Cardinality(expired) + 1, Len(list))

Known(call) == nodeByKey[call.key] \in ToSet(Live(call.now))

\* The list once the search of getOrCreateNode is over: without the node of
\* the key (detach), or else, at capacity, without its head (pruneOldest).
Kept(call) ==
    LET live == Live(call.now)
    IN  IF Known(call) THEN RemoveAt(live, Where(live, nodeByKey[call.key]))
        ELSE IF Len(live) < Capacity THEN live
        ELSE Tail(live)

\* Where the searches of SetFromHead and SetFromTail end.
Place(op, kept, expiresAt) ==
    LET before == {i \in DOMAIN kept :
                      \/ heap[kept[i]].expiresAt < expiresAt
                      \/ /\ heap[kept[i]].expiresAt = expiresAt
                         /\ op = "SetFromHead"}
    IN  Cardinality(before) + 1

Set(g) ==
    /\ At(g, "writing")
    /\ Top(g).call.op \in Setters
    /\ Exclusive(g)
    /\ LET call == Top(g).call
           k == call.key
           known == Known(call)
           kept == Kept(call)
       IN  \E n \in {IF known THEN nodeByKey[k] ELSE FreshNode(kept)} :
              /\ known \/ NodeLeft(kept)
              /\ list' = InsertAt(kept, Place(call.op, kept, call.expiresAt), n)
              /\ nodeByKey' = [j \in Key |->
                                  IF j = k THEN n
                                  ELSE IF nodeByKey[j] \in ToSet(kept)
                                           THEN nodeByKey[j] ELSE nil]
              /\ heap' = [m \in (InUse(kept) \cup {n}) \ {nil} |->
                             IF m = n /\ ~known
                                 THEN [key |-> k, value |-> call.expiresAt,
                                       expiresAt |-> call.expiresAt]
                                 ELSE heap[m]]
              /\ Update(g, [Top(g) EXCEPT
                               !.pc = "assign",
                               !.node = n,
                               !.todo = IF known THEN {"expiresAt", "value"}
                                                 ELSE {}])
    /\ Witness
    /\ UNCHANGED <<lockVars, answer>>

\* Seeded fault: the update forgets the value.
AssignOnlyExpiry(g, field) ==
    /\ At(g, "assign")
    /\ field \in Top(g).todo
    /\ heap' = [heap EXCEPT ![Top(g).node].expiresAt = Top(g).call.expiresAt]
    /\ Update(g, [Top(g) EXCEPT !.todo = @ \ {field}])
    /\ UNCHANGED <<lockVars, list, nodeByKey, answer, seen>>

\* One of the two assignments to the node of a key that was in the cache.
Assign(g, field) ==
    /\ At(g, "assign")
    /\ field \in Top(g).todo
    /\ heap' = [heap EXCEPT ![Top(g).node][field] = Top(g).call.expiresAt]
    /\ Update(g, [Top(g) EXCEPT !.todo = @ \ {field}])
    /\ UNCHANGED <<lockVars, list, nodeByKey, answer, seen>>

FinishSet(g) ==
    /\ At(g, "assign")
    /\ Top(g).todo = {}
    /\ Unlock
    /\ Return(g, nil)
    /\ UNCHANGED <<cacheVars, seen>>

RemoveKey(g) ==
    /\ At(g, "writing")
    /\ Top(g).call.op = "Remove"
    /\ Exclusive(g)
    /\ LET k == Top(g).call.key
       IN  /\ list' = IF nodeByKey[k] = nil
                          THEN list ELSE RemoveAt(list, Where(list, nodeByKey[k]))
           /\ nodeByKey' = [nodeByKey EXCEPT ![k] = nil]
    /\ Unlock
    /\ Return(g, nil)
    /\ UNCHANGED heap
    /\ Witness

Clear(g) ==
    /\ At(g, "writing")
    /\ Top(g).call.op = "Clear"
    /\ Exclusive(g)
    /\ list' = <<>>
    /\ nodeByKey' = [k \in Key |-> nil]
    /\ Unlock
    /\ Return(g, nil)
    /\ UNCHANGED heap
    /\ Witness

-----------------------------------------------------------------------------
(* All and Backward: a range loop over the iterator.                       *)

\* The nodes an iterator visits, in its order.
Order(op) == IF op = "All" THEN list ELSE Reverse(list)

\* The loop is at node, or it has ended and the read lock is given back.
LoopAt(g, nodes) ==
    IF nodes = <<>>
        THEN RUnlock(g) /\ Return(g, nil)
        ELSE /\ Update(g, [Top(g) EXCEPT !.pc = "yield", !.node = Head(nodes)])
             /\ UNCHANGED <<lockVars, answer>>

\* Seeded fault: the read lock is given back before the loop runs.
StartLoopUnlocked(g) ==
    /\ At(g, "reading")
    /\ Top(g).call.op \in Iterators
    /\ Granted(g)
    /\ RUnlock(g)
    /\ LET nodes == Order(Top(g).call.op)
       IN  IF nodes = <<>>
               THEN Return(g, nil)
               ELSE /\ Update(g, [Top(g) EXCEPT !.pc = "yield",
                                                !.node = Head(nodes)])
                    /\ UNCHANGED answer
    /\ UNCHANGED <<cacheVars, seen>>

StartLoop(g) ==
    /\ At(g, "reading")
    /\ Top(g).call.op \in Iterators
    /\ Granted(g)
    /\ LoopAt(g, Order(Top(g).call.op))
    /\ UNCHANGED <<cacheVars, seen>>

\* The body of the loop: nothing to do with the cache, or a call of it.
Body(g) ==
    /\ At(g, "yield")
    /\ Goto(g, "next")
    /\ UNCHANGED <<lockVars, cacheVars, answer, seen>>

BodyCall(g, call) ==
    /\ At(g, "yield")
    /\ Len(stack[g]) = 1
    /\ stack' = [stack EXCEPT ![g] =
                    <<[Top(g) EXCEPT !.pc = "next"], Frame(call)>>]
    /\ UNCHANGED <<lockVars, cacheVars, answer, seen>>

\* Seeded fault: a break leaves the read lock held.
BreakLeaks(g) ==
    /\ At(g, "yield")
    /\ Return(g, nil)
    /\ UNCHANGED <<lockVars, cacheVars, seen>>

Break(g) ==
    /\ At(g, "yield")
    /\ RUnlock(g)
    /\ Return(g, nil)
    /\ UNCHANGED <<cacheVars, seen>>

\* node = node.next, or node.prev.
Advance(g) ==
    /\ At(g, "next")
    /\ LET nodes == Order(Top(g).call.op)
       IN  LoopAt(g, SubSeq(nodes, Where(nodes, Top(g).node) + 1, Len(nodes)))
    /\ UNCHANGED <<cacheVars, seen>>

-----------------------------------------------------------------------------
\* A step of a call in progress, other than getting the write lock.
Step(g) ==
    \/ CallRLock(g) \/ Lookup(g) \/ CheckExpiry(g) \/ LoadValue(g)
    \/ TryContains(g)
    \/ Set(g) \/ (\E field \in {"expiresAt", "value"} : Assign(g, field))
    \/ FinishSet(g) \/ RemoveKey(g) \/ Clear(g)
    \/ StartLoop(g) \/ Body(g) \/ Break(g) \/ Advance(g)
    \/ \E op \in InLoop : \E call \in Call(op) : BodyCall(g, call)

Next ==
    \E g \in Goroutine :
        \/ \E op \in Operation : \E call \in Call(op) : Begin(g, call)
        \/ Step(g)
        \/ CallLock(g)

Spec == Init /\ [][Next]_vars

\* Goroutines keep running, and a writer that waits for other writers gets
\* its turn: sync.Mutex hands itself to a waiter that has starved for 1ms.
FairSpec ==
    /\ Spec
    /\ \A g \in Goroutine : WF_vars(Step(g)) /\ SF_vars(CallLock(g))

-----------------------------------------------------------------------------
(* Properties.                                                             *)

AnyCall == UNION {Call(op) : op \in Method}

AnyFrame ==
    [call : AnyCall,
     pc : {"rlock", "reading", "check", "load", "try", "lock", "writing", "assign",
           "yield", "next"},
     node : Node \cup {nil},
     todo : SUBSET {"expiresAt", "value"}]

AnyAnswer ==
    [call : AnyCall, ok : BOOLEAN, value : Time \cup {nil}, node : Node \cup {nil}]

TypeOK ==
    /\ LockTypeOK
    /\ list \in Seq(Node)
    /\ nodeByKey \in [Key -> Node \cup {nil}]
    /\ DOMAIN heap \in SUBSET Node
    /\ heap \in [DOMAIN heap -> [key : Key, value : Time, expiresAt : Time]]
    /\ stack \in [Goroutine -> Seq(AnyFrame)]
    /\ answer \in [Goroutine -> AnyAnswer \cup {nil}]
    /\ seen \in [Goroutine -> SUBSET (Time \cup {nil})]

InLoopOf(g) ==
    /\ ~Idle(g)
    /\ stack[g][1].call.op \in Iterators
    /\ stack[g][1].pc \in {"yield", "next"}

\* "An ongoing iterator blocks concurrent writes until it completes"
\* (cache.go:203, 219): from the first node to the last, and while the body
\* of the loop runs, no other goroutine moves, changes or removes a node.
IterationIsStable ==
    [][(\E g \in Goroutine : InLoopOf(g)) => UNCHANGED cacheVars]_vars

\* Whoever holds the read lock sees a cache in one piece: a list in order, of
\* the nodes of the map, each under its own key and with both fields of the
\* same Set.  The fields of a node are written one after the other.
LockedReadsAreWhole ==
    (\E g \in Goroutine : holds[g] > 0) =>
        /\ \A i, j \in DOMAIN list :
              /\ i < j => heap[list[i]].expiresAt <= heap[list[j]].expiresAt
              /\ list[i] = list[j] => i = j
        /\ \A n \in ToSet(list) : /\ nodeByKey[heap[n].key] = n
                                  /\ heap[n].value = heap[n].expiresAt
        /\ \A k \in Key : nodeByKey[k] # nil => nodeByKey[k] \in ToSet(list)

\* What a lookup answers was so at some moment of the call: a value was that
\* of the key, and a miss means that the key was absent or expired.  If the
\* entry stayed the same throughout, the answer is the one for it.
AnswersAreCurrent ==
    \A g \in Goroutine : answer[g] # nil =>
        LET a == answer[g]
            fresh(e) == e # nil /\ (a.call.op \in Getters => e > a.call.now)
        IN  /\ a.ok /\ a.call.op = "Get" => a.value \in seen[g]
            /\ a.ok => \E e \in seen[g] : e # nil
            /\ ~a.ok /\ a.call.op # "TryContains" => \E e \in seen[g] : ~fresh(e)
            /\ a.ok /\ Cardinality(seen[g]) = 1 => \A e \in seen[g] : fresh(e)

\* GetEntry hands out a pointer into the cache.  Whatever happens to the
\* cache later, what it points to is an entry of the key that was asked for.
EntryKeepsKey ==
    \A g \in Goroutine :
        answer[g] # nil /\ answer[g].node # nil =>
            heap[answer[g].node].key = answer[g].call.key

\* What the caller of GetEntry sees later, without the lock, is what one Set
\* stored, its value not changed behind its expiration time, except while a Set
\* of the same key is between its two assignments to the node.  An entry that
\* was evicted, removed or replaced meanwhile stays whole as well.
EntryIsWhole ==
    \A g \in Goroutine :
        answer[g] # nil /\ answer[g].node # nil =>
            \/ heap[answer[g].node].value = heap[answer[g].node].expiresAt
            \/ \E h \in Goroutine : /\ At(h, "assign")
                                    /\ Top(h).todo # {}
                                    /\ Top(h).node = answer[g].node
                                    /\ Top(h).call.key = answer[g].call.key

\* "Get returns the value associated with the given key, if it exists and is
\* not expired" (cache.go:80): the value returned is never one whose own
\* expiration time was not after now.
GetIsUnexpired ==
    \A g \in Goroutine :
        answer[g] # nil /\ answer[g].call.op = "Get" /\ answer[g].ok =>
            answer[g].value > answer[g].call.now

\* Every call returns: readers, writers and loops do not starve or deadlock
\* one another.
EveryCallReturns == \A g \in Goroutine : ~Idle(g) ~> Idle(g)

\* "... until it completes" (cache.go:203): a loop over All or Backward whose
\* body returns comes to its end, also when the body reads the cache.
IterationCompletes == \A g \in Goroutine : InLoopOf(g) ~> ~InLoopOf(g)
=============================================================================
