------------------------------ MODULE RWMutex ------------------------------
(***************************************************************************)
(* Go's sync.RWMutex, the lock of cache.ExpirationCache.  It is not part   *)
(* of the repository: this is the behaviour the cache relies on.  A writer *)
(* first announces itself, then waits for the read locks already held.     *)
(* From then on a reader that arrives waits, and a reader that only tries  *)
(* fails.  Unlock lets in the readers that waited before another writer    *)
(* can announce itself.  The lock does not know who holds it: a goroutine  *)
(* that holds a read lock and asks for another is a reader that arrives.   *)
(***************************************************************************)
EXTENDS Naturals

CONSTANTS Goroutine, nil

VARIABLES
    holds,     \* how many read locks each goroutine holds
    waiting,   \* the goroutines that wait for a read lock
    writer     \* the writer that has announced itself, or nil

lockVars == <<holds, waiting, writer>>

LockTypeOK ==
    /\ holds \in [Goroutine -> Nat]
    /\ waiting \subseteq Goroutine
    /\ writer \in Goroutine \cup {nil}

LockInit ==
    /\ holds = [g \in Goroutine |-> 0]
    /\ waiting = {}
    /\ writer = nil

\* The call of RLock; the caller goes on once it is Granted.
RLock(g) ==
    /\ IF writer = nil
           THEN holds' = [holds EXCEPT ![g] = @ + 1] /\ UNCHANGED waiting
           ELSE waiting' = waiting \cup {g} /\ UNCHANGED holds
    /\ UNCHANGED writer

Granted(g) == g \notin waiting

RUnlock(g) ==
    /\ holds' = [holds EXCEPT ![g] = @ - 1]
    /\ UNCHANGED <<waiting, writer>>

\* The call of Lock, once no other writer is ahead; the caller goes on once
\* it is Exclusive.
Lock(g) ==
    /\ writer = nil
    /\ writer' = g
    /\ UNCHANGED <<holds, waiting>>

Exclusive(g) == writer = g /\ \A h \in Goroutine : holds[h] = 0

Unlock ==
    /\ writer' = nil
    /\ holds' = [g \in Goroutine |->
                    IF g \in waiting THEN holds[g] + 1 ELSE holds[g]]
    /\ waiting' = {}
=============================================================================
