# Specifications of cubic-go-playground

TLA+ models of the parts of this repository that are hard to get right and hard
to test, the TLC configurations that check them on small instances, and proofs
of what matters most for every instance. Paths below are relative to the
repository; `cache.go` is `cache/cache.go`, `main_windows.go` and `main_bsd.go`
are in `route/cmd/route/`.

## The system

The repository is a collection of independent packages and commands. They call
no code of one another except that `route` logs through `logging/tslog` and
takes its BSD messages from `route/bsdroute`.

| part | state | operations | what is hard | what makes it correct |
|---|---|---|---|---|
| `cache` | a map from keys to nodes, a doubly linked list of the nodes in order of expiration, an RWMutex | `SetFromHead`, `SetFromTail`, `Remove`, `Clear`; `Get`, `GetEntry`, `Contains`, `TryContains`, `Len`; `All`, `Backward` | links through any sequence of calls; reads after the lock is given back; loops that hold the lock | map and list agree and are in order; expired entries go, at most the capacity stays, an earliest is evicted; a lookup's answer is current; a loop sees one cache; every call returns |
| `route`, Windows | a registration with the system, a channel, a consumer goroutine, `initialNotificationHandled` | registration, callbacks on system threads, the handler, shutdown on a signal | callbacks in any order and late, blocking sends, the order of the deferred calls | the log says what the table says; no send on a closed channel; a signal ends the program |
| `route`, BSD and `bsdroute` | a routing socket, two dumps, parsing positions | `SysctlGetBytes`, `parseAndLogMsgs`, `ParseAddrs`, `RtaAlign`, the monitor loop | a dump that grows while it is fetched, changes between dump and monitor, lengths in eight bits | no change is missed, parsing stays in its message and ends |
| `ssgodatabyip` | a reader over a buffered reader, `addrByCSID`, `bytesByIP` | `Read`, the loop of `main` | pieces cut at any place, a slice of another reader's buffer, limits of that buffer, errors after which the decoder goes on | the decoder gets the JSON of every line, every byte is counted once |
| `prefixset` | none | three parsers of the same text format, two writers | line endings, comments | the three agree |
| `ip` | none | comparison and conversion of mapped addresses, safe and unsafe | the unsafe ones depend on the layout of `netip.Addr` | unsafe agrees with safe |
| `resolv`, `probe`, `sshclient`, `tfo` | none to speak of | one sequence of library calls each | | |
| `logging`, `logging/tslog` | immutable configuration | constructors; a level check and a call of a handler | | |
| `csprng`, `ecdh`, `shadowsocks`, `swgp` | none | test files that time library primitives | | |

Interactions that are modelled: goroutines share a cache through its lock and,
in `Get` and `GetEntry`, through unlocked reads of a node; an iterator calls
back into the loop body while it holds the lock, and the body may call the cache
again; the system calls back into `route` from its own threads, and these
rendezvous with a goroutine on an unbuffered channel; the JSON decoder pulls
bytes through `eventJSONReader`, which pulls from a `bufio.Reader` and keeps a
slice of its buffer; the BSD monitor asks the kernel for dumps of tables that
change meanwhile, with a socket open on which the kernel queues the changes.

Everything of this code that a test would hardly reach is in `PROJECT.json`
under `hazards`, at its line, with the property that covers it or the reason why
none does yet.

## Modules

| module | models | notes |
|---|---|---|
| `ExpiringMap` | the contract of the cache (cache.go:23-25, 105-107) | abstract: a map and the request in progress, no list, no lock |
| `ExpirationCache` | `cache.go` under its write lock | implements `ExpiringMap` |
| `ExpirationCacheProofs` | | theorems about `ExpirationCache`, and that it implements `ExpiringMap` |
| `RWMutex` | Go's `sync.RWMutex` | external: modelled from what the cache relies on |
| `CacheConcurrency` | goroutines that share a cache | extends `RWMutex` |
| `CacheConcurrencyProofs` | | theorems about `CacheConcurrency` |
| `RouteChangeMonitor` | `main_windows.go` | the IP Helper API is external |
| `RouteChangeMonitorProofs` | | theorems about `RouteChangeMonitor` |
| `EventReader` | `eventJSONReader` of `ssgodatabyip.go` | `bufio.Reader` and the JSON decoder are external |
| `EventReaderProofs` | | theorems about `EventReader` |
| `DataUsage` | the loop of `main` in `ssgodatabyip.go` | extends `NetipAddr` and `Sums`; the JSON decoder is external |
| `RoutingSocketMonitor` | `main` and `monitorRoutingSocket` of `main_bsd.go`, `SysctlGetBytes` | the kernel is external; messages and dumps as wholes |
| `RoutingSocketMonitorProofs` | | theorems about `RoutingSocketMonitor` |
| `RoutingMessages` | `parseAndLogMsgs`, `appendAddrAttr`, `ParseAddrs`, `AddrsBuf` | extends `RtaAlign` and `Sums`; what is inside the buffer of one dump or read |
| `RoutingMessagesProofs` | | theorems about `RoutingMessages` |
| `RtaAlign` | `RtaAlign` | |
| `Sums` | | the sum of a function over a set |
| `ArithmeticTheorems` | | theorems about `RtaAlign`; induction over the naturals and over subsets, least and greatest elements, sums, remainders |
| `NetipAddr` | `netip.Addr` | external: what `ip` and `ssgodatabyip` rely on |
| `MappedAddr` | `ip/ip.go`, `ResolveAddr` of `resolv/main.go` | extends `NetipAddr` |
| `PrefixText` | the parsers and writers of `prefixset` | |
| `AddressProofs` | | theorems about what is done with addresses: `DataUsage`, `MappedAddr` and `PrefixText` |
| `MC...` | | values for the constants |

Each module also holds seeded faults: definitions marked as such in their
comment, used by no other definition. Each is what a plausible slip in the code
would make of one definition (a dropped reset, `<` for `<=`, an assignment too
few), and `PROJECT.json` says which property of which run it breaks when it
takes the place of that definition.

### ExpirationCache

The variable `c` is the struct: the map `nodeByKey` (a key to value and
expiration time), `head`, `tail`, and the `prev` and `next` links. A node is
named by its key, because its `Key` is never assigned and the map holds one node
per key; a node that left the map keeps its stale links, as it does in memory
(the loop of `pruneExpired` goes on through them), until its key gets a fresh
node. Times are integers: the code only compares them.

One step is one iteration of a loop, with everything between two loops in the
same step: `BeginSet` takes the lock and stands at the head, `PruneExpired` is
an iteration of `pruneExpired`, `GetOrCreate` the rest of `getOrCreateNode` and
the first mark, `InsertFirst`, `SearchFromHead` and `SearchFromTail` the search
and the insertion. `Remove` and `Clear` have no loop and are one step each.
`detach`, `remove`, `insertBefore`, `insertAfter` and `pruneOldest` are
operators of their own from a cache to a cache. `All` and `Backward` are the
walks along the links. `committed` is a history variable, what the last finished
call left, and is what `ExpiringMap` sees, with the arguments of the call in
progress as its request.

### CacheConcurrency

Here what happens to the list under the write lock is one step (`Set`,
`RemoveKey`, `Clear`), since nobody else can be inside, except that the two
assignments to the node of an existing key (cache.go:246-247) are steps of their
own, in either order: `Get` and `GetEntry` read the fields of a node after
`RUnlock`, so nothing orders these reads and writes, and the order in which a
racing reader sees them is open. Nodes have identities, in `heap`, because a
reader may hold one that has left the map. A goroutine has a stack of calls: the
range loop over an iterator, and a call from its body. The value a `Set` stores
is the expiration time it stores, so that a value tells which `Set` it is from.

A call of `RLock` either gets a read lock or, when a writer has announced
itself, waits; `Unlock` lets the waiting readers in. The lock does not know who
holds it, so a second `RLock` of the same goroutine is like any other.

`seen` is a history variable: the entries the key of a call has had since the
call began. "Current" in `AnswersAreCurrent` means an entry from this set.
`Live`, `Kept` and `Place` state the result of the loops which `ExpirationCache`
takes step by step: the list after `pruneExpired`, after the detaching or the
eviction that follows it, and the place where a search ends. A `Set` of a new key
takes a node that nothing points to; `NodeLeft` is the bound on how many there
are.

### RouteChangeMonitor

The system has a table, a queue of callbacks to come (a bag, so that callbacks
overtake one another), and callbacks that block in their send. `run` goes
through `main`; its deferred calls are the steps `Close` and `Return` in their
order. The consumer receives, asks the system for the route again or for the
whole table, and logs row by row, while the table goes on changing. Registration,
cancellation and both queries may fail. After the channel is closed a callback
panics, also one that was already blocked. `reported` is a history variable: the
routes whose current row the log ought to show, because of a change while
registered or because they were in a dump.

What is assumed of the system: it makes one callback per change while a
registration is active, `NotifyRouteChange2` returns after the initial callbacks
have (main_windows.go:75-77), and `CancelMibChangeNotify2`, when it succeeds,
returns after every callback that has started.

### EventReader

Bytes are braces, newlines and others. `Read` is the part of the method before
its loop, `ReadBrace` and `ReadLine` are its two calls of `ReadSlice` with what
follows each. The reference is `Parse`, one pass over the whole log.

The decoder may call `Read` again after an error (`MayAsk`). `readValue` of
`encoding/json` looks at the bytes before it looks at the error: if they complete
a value the error is dropped, and the next value asks for more. After an error
without a byte it asks no more. Which bytes complete a value is left open, so a
`Read` that returned bytes may always be followed by another. Going on matters
where `ErrBufferFull` is returned at once instead of being kept in `r.err`:

* by the search for a brace (ssgodatabyip.go:94): the next call goes on searching
  where this one stopped, and nothing is lost by it. A buffer's worth of lines with
  no brace ends `main` only if no byte came before it in the same call, as at the
  start of a log;
* by a line of which a whole buffer just fits what was asked for (line 111): the
  next call searches the rest of the line for a brace. `DeliversJSON` holds up to the
  first line whose JSON is too long for the buffer (`far` has its delimiter), and
  says nothing after it.

### DataUsage

`Count` is one iteration of the loop: the reset of `event`, `Decode` (a field
that the object leaves out keeps its value, so the zero of the reset), the map of
sessions, the counter. `WriteUsage` is everything after the end of the log; the
map of counters is in no order and the sort is not stable, so equal counters come
in any order. `lines` is a history variable, from which the properties say what
belongs to an address: a line that has it, or a line without one whose session
had it last. Addresses are those of `NetipAddr`: an IPv4 address and its mapped
IPv6 address are two keys of the map.

### RoutingSocketMonitor

The kernel has a table of interfaces and routes, changes it at any moment, and
queues a message of each change on the socket once it is open; when the queue is
full the message is lost and a read may fail for it. `OpenRoutingSocket`,
`OpenIoctlSocket`, `GetSize`, `Fetch` (the two system calls of `SysctlGetBytes`,
with `slices.Grow` in between) and `LogDump` go through `main`, `Read` and
`ReadError` are the monitor loop. Messages of changes from before a dump are
logged after it: what the log says of an item may go back in time for a while,
and `LogFollowsTable` says that the messages still queued bring it back to what
the table says. `tracked` (the items of which the log ought to tell) and `lost`
(those whose latest message was lost) are history variables.

`Fetch` also has the panic of `b[:n]` (bsdroute_bsd.go:37): of a table that was
empty when its size was asked for, and was not when it was fetched, `sysctl` with a
buffer of no capacity returns the size alone. No comment promises that a dump does
not panic, so no property says so; `DumpEnds` counts the panic as an end.

### RoutingMessages and RtaAlign

The two modules divide `main_bsd.go` at the call of `parseAndLogMsgs`. Positions
are byte offsets; a message is a type, flags, an interface index and a function
from RTAX indices to addresses, and the kernel's layout of it is computed from
the sizes of the platform. `Init` picks a platform, a buffer and `filter`. Each
iteration of the loop over messages is a step, whose alternatives are the exits
of the code (`EndOfBuffer`, `InvalidMessage`), its `continue`s (`OtherVersion`,
`Filtered`, `UnknownType`), and a message that is logged: `BeginAddrs`, a step
`ParseAddr` for each address, `LogMessage`. The conditions for a route, an
interface and an address differ and are operators of their own; the error paths
of the three are one action.

The reference, `Expected`, is stated on the messages as the kernel has written
them, without offsets, and tells an interface's addresses by its index instead of
by order.

The help of `dumpAll` (main.go:18) says that a filtered dump has "just the
default routes". `RouteLeftOut` and `Shown` are what the code does: every route
by way of a gateway is logged, and of one that is not a default route only the
destination and the netmask are hidden. `Expected` follows the code here, and
`OnlyDefaultRoutes` is what the help says (run `default_routes`).

The length of a link address and the room it has for a name differ between the
platforms (20 and 12 bytes, on OpenBSD 32 and 24) and are part of `Platform`.

### MappedAddr and PrefixText

These are functions without state. `MappedAddr` has the safe and the unsafe
functions of `ip.go` side by side, over an `Addr` of sixteen bytes and a `z`, and
`ResolveAddr` as a relation between what the resolver found and the answer.
`PrefixText` has one `Content`, because the three parsers treat a line in the
same way, statement by statement.

## Runs

| run | question | bounds and why they are enough |
|---|---|---|
| `cache` | do map and list agree and stay in order, are the expired gone and the capacity kept, at every step? does every finished call do what `ExpiringMap` allows for its arguments? can a loop stand still? | 4 keys, capacity 3, 3 instants, 2 values: a middle node with neighbours on both sides, eviction with a full list, equal expiration times, pruning of none, some and all, a value to tell old from new |
| `concurrency_reads` | is what a lookup answers current, though read without a lock? does what `GetEntry` hands out stay one entry of its key? does a loop see one cache? | 2 goroutines, 2 keys, 2 instants, capacity 2, 4 nodes: one goroutine reads or loops while the other evicts, prunes, updates and removes any number of times; bodies may call `TryContains` |
| `concurrency_progress` | does every call return? | 3 goroutines, so that two contend while a third loops; 1 key, 1 instant, the methods that the previous run leaves out |
| `get_expired` | does `Get` return only unexpired values? (no) | 2 goroutines, 1 key, 2 instants |
| `nested_loop` | does every loop come to its end? (no) | 2 goroutines, one loop in the body of another |
| `route_monitor` | does the log follow the table, does every callback meet an open channel and a consumer, does a signal end the program? | 2 routes, one of them a default route, 2 metrics, `MaxChanges` = 3: a change before, during and after a query; dump of the default route only |
| `reader_log` | does the decoder get the JSON of the lines, once and in order, and the end of the log? | every log of at most 8 bytes, a buffer of 3, reads of 1, 2 and 4: smaller and larger than the buffer, lines cut more than once, another line after one that ended in an error |
| `reader_lost` | is a log that ends without an error delivered whole? (no) | at most 6 bytes |
| `socket_monitor` | does the log follow the tables, from the dumps on? does a dump end? | 1 interface, 2 routes, 2 states of each, a queue of 2, `MaxChanges` = 4: two changes of one item on either side of any system call, a queue that overflows, a table that grows between two rounds and is empty in between |
| `routing_messages` | is each address found where the kernel has put it, and is the log what it ought to be? does the loop end? | the sizes of Darwin, NetBSD and OpenBSD for amd64, headers that have grown or are too short, another version; every message with addresses at the indices 0, 2, 5 and 7 of 7 kinds (empty, cut short, each family); all well-formed dumps of up to 3 (routes) or 4 (interfaces) messages from a set with everything the filter tells apart; `ReadBufSize` = 160, so that some messages are cut off |
| `default_routes` | does a filtered dump have just the default routes? (no) | as `routing_messages` |
| `data_usage` | is every byte counted once, for the right address? | 4 events, 2 sessions, an IPv4 address and its mapped address, sums that reach `Word` = 4: a session that moves, another in between, events without address, session or bytes |

The bounds are `Key`, `Value`, `Time`, `Goroutine`, `Node`, `Route`, `Metric`,
`Interface`, `State`, `ReadSize`, `Byte`, `Line`, `Platform` and `Buffer` as
finite sets, `MaxChanges` (changes of a table), `MaxText` (bytes of a log) and
`MaxLines` (events of a log). `Node` is as large as nodes can be in use at once,
and a `Set` that would need one more waits (`NodeLeft`).
`MaxInt`, `BufferSize`, `Word`, `QueueSize` and `ReadBufSize` stand for
`math.MaxInt`, 128 KiB, 2^64, the socket's buffer and 2048 bytes. The depth of
calls in a loop body is one (`BodyCall`). Nothing bounds the number of calls of
the cache.

Symmetry (keys and values in `cache`, keys and goroutines in
`concurrency_reads`) is used where the run checks safety only: the properties of
these runs are invariants and action properties, and those of the abstract
specification that `cache` implements. Deadlock is checked except where the
program ends (`route_monitor`, `reader_*`, `routing_messages`, `default_routes`,
`data_usage`), where it waits for changes that are bounded (`socket_monitor`), and in
`nested_loop`, which is about the deadlock.

That a call of the cache comes to its end is checked without fairness: no state
of `cache` is a deadlock, and every iteration of a loop takes a node off the
list or goes on to a later one (`LoopsMoveOn`).

### What the failing runs show

* `get_expired`: a `Set` of the same key between the two unlocked reads of `Get`
  makes it return a value that had expired at `now` (cache.go:84-88 against
  246-247). "Get returns the value associated with the given key, if it exists
  and is not expired" (cache.go:80). What does hold is `AnswersAreCurrent`:
  value and presence were each so at some moment of the call.
* `nested_loop`: `for range c.All()` with `for range c.Backward()` in its body,
  as in cache_test.go:41-46, and a writer that calls `Lock` in between. "An
  ongoing iterator blocks concurrent writes until it completes" (cache.go:203):
  it does not complete. With bodies that do not wait for the lock every call
  returns (`concurrency_progress`).
* `reader_lost`: `Read` returns the saved error after one copy from `leftover`,
  also when bytes are left (ssgodatabyip.go:83-91).
* `default_routes`: a filtered dump logs a route by way of a gateway whose
  destination is some network (main_bsd.go:114-118), without the destination. The
  help of `dumpAll` says "just the default routes" (main.go:18).

### Fairness

* `CacheConcurrency!FairSpec`: weak fairness of every step of a call, because
  goroutines are scheduled and loop bodies return; strong fairness of
  `CallLock`, because among writers `sync.Mutex` hands itself to a waiter that
  has starved for a millisecond. Beginning a call is not fair.
* `RouteChangeMonitor!FairSpec`: weak fairness of what `run` does when no call
  fails (`Run`), of the consumer and of the threads that start callbacks. Neither
  a signal nor a change of the table is fair, and no failure is (`RunFails` is a
  disjunct of its own): a call that waits for ever is not helped by a failure. Changes are bounded by `MaxChanges`, which for
  `SignalEndsRun` amounts to a table that does not change for ever while the
  cancellation waits.
* `EventReader!FairSpec`: weak fairness of the next step. The decoder asks for
  more as long as it may (`MayAsk`): the hardest case for `LogEnds`, as a decoder
  that stops earlier has ended.
* `RoutingSocketMonitor!FairSpec`: weak fairness of `Main`, what the one
  goroutine does when no system call fails. Changes and failures are not fair. A
  read error comes after a lost message only; one that stayed would keep the loop
  spinning (main_bsd.go:67-71), and is not modelled.
* `RoutingMessages!FairSpec`: weak fairness of the next step. The loop waits for
  nothing.

## Proofs

Eight modules hold theorems; `PROJECT.json` lists them. Each rests on the named
assumptions of the constants and on nothing else, and speaks of every instance:
any number of goroutines, keys, nodes, routes, messages or bytes. The properties
are seldom inductive one by one; each section names the invariant that is, and
why it takes more than the properties. Induction comes from one fact, that a set
of naturals has a least element (`LeastNatural`, and `SmallestSubset` for the
subsets of a finite set): a counterexample of least size is refuted. The folds
of the library are functions chosen by their recursion; that the recursion has a
solution, and which values it has, is proved where a property uses one (`SumStep`
in `ArithmeticTheorems`, `ParseProgress` in `EventReaderProofs`).

### The cache under its lock

`ExpirationCacheProofs`, from `CacheAssumption` (`Key` may be infinite: what is
finite is the list) and, for the refinement, `CallAssumption` (`nil` is no call).

That `pruneExpired` leaves nothing expired needs the list in order; the order
needs that a search passes only nodes that belong on its side; that both ends of
a detached node are patched needs both chains of links to describe the same
sequence; and that eviction finds a head needs the list to have as many nodes as
the map has keys. The inductive invariant is

    IInv == TypeOK /\ ListInv /\ NoExpiredSurvivor

where `ListInv` says that there is one sequence of the listed keys, each once, in
order of expiration, which `head`, `tail`, `prev` and `next` all describe; that
`pruneExpired` stands at the head; and where a search stands in the sequence
(`Searching`). TLC checks its three parts in `cache`.

The proof goes up in layers: types of the operators from cache to cache; `detach`
and the insertions as removal from and insertion into the sequence
(`DetachLinked`, `SplicedLinked`); the same with order and map
(`DetachOrdered`, `RemoveOrdered`, `InsertOrdered`, `PruneOldestOrdered`); one
lemma per action; `StepInv`. `TypeCorrect`, `ListCorrect`, `PruneCorrect` and
`CapacityCorrect` follow from `Invariance`, the last through the cardinality of
the sequence (`OrderedCardinality`). `LoopsAdvance` proves `LoopsMoveOn` from the
same invariant: an iteration of `pruneExpired` takes a node out of a finite list
(`PruningMovesOn`), one of a search goes on by one place of the sequence
(`SearchMovesOn`). `IteratorsCorrect` proves `IteratorsAgree`: by induction over
the places, the walk from an end meets the sequence of `ListInv` one key after
another and `nil` after the last, so that `All` yields the keys of the map, each
once and in order, and `Backward` the same in reverse (`WalkMeets`).

`Refinement` proves that `ExpirationCache` implements `ExpiringMap`. While a `Set`
is on its way the map is neither what the last call left nor what this one will
leave: `CommitInv` says what it is in each phase (inside `pruneExpired` the old
entries but for some that have expired, inside a search exactly what the `Set`
will commit), and with it every step either commits what the contract allows for
the request or changes nothing the contract sees.

### The cache between goroutines

`CacheConcurrencyProofs`, from `ConcurrencyAssumption`. The invariant `CacheInv`
has, besides the types,

* `FrameInv`: where a call can be, by its method; only a loop has a call above
  it, and that is no writer and no deeper than one (`BodyCall`);
* `LockInv`: the read locks a goroutine holds are the calls it has inside their
  critical sections, `writer` is the one goroutine that writes, and nobody holds
  a read lock while fields of a node are assigned;
* `MapInv` and `PointerInv`: the list has the nodes of the map, each once and
  under its own key, and what a call or an answer points to exists and is of the
  key that was asked for. For this a node must not be used again while something
  points to it, also after it has left the map;
* `OrderInv`: the list is in order and its entries are whole, *as settled*: a node
  between its two assignments counts as what its `Set` is about to have written.

`IterationStable`, `KeyKept` and `LockedReads` follow. `EntryWhole` takes one more
invariant (`WholeInv`): `OrderInv` speaks of the list, and a node that `GetEntry`
has handed out may have left it, so that every node there is has to be whole as
settled. `AnswersCurrent` needs the history as well (`SeenInv`): the latest entry
of the key is always among those seen since the call began, and so is what an
unlocked read of a node is going to find there, whether its fields are of the
entry that was looked up, half of another one, or of one that has been removed
meanwhile.

### The Windows monitor

`RouteChangeMonitorProofs`, from `MonitorAssumption`. `RunInv` says by the step of
`run` whether a registration and callbacks can exist, `ConsumerInv` the same of
the consumer, and `CurrentInv` is what makes `LogIsCurrent` inductive: of every
reported route, as long as the registration is active, something still to come
will log the row of the table, and no older row will be logged after it. A
consumer that logs a row while another notification of the same route waits is
why the queued notification alone must suffice.

### The BSD monitor

`RoutingSocketMonitorProofs`, from `SocketAssumption`, in which the tables are
finite. Of an item whose latest message was not lost, the last message queued
says what the table says (`QueueInv`); an item without a message has not changed
since it was logged (`LogInv`), or, between a dump and its log, since it was
fetched (`DumpInv`); and there are no messages before the socket is open, which
is why it is opened first (`OpenInv`). `LogCorrect` is these three.

### Routing messages

`RoutingMessagesProofs`, from `MessagesAssumption`. It says what the sizes of a
platform are like (`PlatformOK`: an alignment of 4 or 8 bytes, a common header of
4 or 6, compiled-in lengths of headers that are those of the kernel unless the
build reads them from the message, and a `sockaddr_dl` that is no shorter than a
`sockaddr_in`) and what a kernel writes (`MessageOK`:
interfaces are numbered from 1, a header begins with the common one, and no
address is longer than the largest multiple of the alignment below 256, beyond
which `RtaAlignWraps` says that nothing would work). Number, order, types,
addresses and lengths of the messages are open otherwise, within `Written`, and
so is the place where a read has cut them off.

Offsets are sums over what lies before. `Layout` and `Starts` turn them into what
the steps need: addresses, and messages, follow on each other without a gap, and
the next one in bit order begins where the rounded length of this one ends
(`SumAdd`, `SumBounds`); `ReadsAddress` says that what is found there is it. The
inductive invariant has a number k, the message the loop is at, and says

* that `at` is where message k begins, inside the buffer, and that every message
  before it was whole and long enough (`Behind`);
* that the log has an entry for exactly the messages before k that are due, in
  order (`Tells`, by an increasing enumeration of their numbers);
* of what `ifindex` remembers, that it is the index of an interface before k or
  0, and that it is that of message k - 1 exactly if a usable interface has that
  index (`Remembers`). `Told` goes by index over all messages before, the code by
  the last interface that was kept: the two agree because a dump has an interface
  once, with its addresses after it (`DumpOrder`);
* inside a message, that the bits left are the later ones, that the next address
  begins where `ParseAddrs` looks, and that the addresses passed over are those
  too short to be shown (`InAddrs`);
* at the end, that nothing from k on is due: what follows a message that is cut
  off or too short is not reached.

`TypeCorrect` and `AddressesFound` read this off. For `LogCorrect` the log is
continued to all messages (`Continued`), and numbers are put in increasing order
in one way only (`OneOrder`), so that the continued log is `Expected`
(`TellsAll`). TLC has checked the invariant on the instance of
`routing_messages`.

### Data usage

`AddressProofs`, from `UsageAssumption` and `AddrAssumption`. A line changes
what belongs to an address at its own place of the log only (`LinesOfStep`), and
makes its session's address the latest (`LatestBefore`, `LatestAfter`);
`UsageStep` adds the new line's total to the sum over the lines of the address
(`SumAdd`), and adding modulo the word is adding and then taking the remainder
(`AddToRemainder`). `UsageAttributed` needs `SessionsCurrent`: a line without an
address counts for the session's.

### The log reader

`EventReaderProofs`, from `ReaderAssumption`. `Progress` turns `Parse` into what
the first k bytes of the log say, one byte at a time. A call of `ReadSlice` takes
a run of bytes without the delimiter, or one that ends with the first of them
(`SliceRead`), and what such a run adds is computed once (`NotWanted`,
`SliceSays`). The invariant says that p bytes are taken (`Taken`), that the loop
of `Read` runs only with an empty `leftover` and without a saved error
(`LoopIsFree`), and one of two things:

* `LostAt`: the JSON of some line was too long for the buffer, and no more is said;
* `Reading`: what the bytes taken say is what has been delivered followed by
  `leftover`, `Read` starts its loop where a brace is wanted, and each error says
  something of the log: "full" that some delimiter was too far, "EOF" that all is
  taken, and with bytes in `leftover` also that the last line has no newline.

Calls after an error are steps like any other, so both are invariants of these
too. `Delivers`, `CompleteLogs` and `LeftoverKept` follow. The last clause is the
one `reader_lost` is about: it is why `CompleteLogIsDelivered` asks for a complete
last line.

### Functions

`AddressProofs`, about `MappedAddr` from `AddrAssumption` alone (which says how
`netip.Addr` is laid out): the unsafe conversion is the safe one; the unsafe
comparison is the safe one for addresses that are set and have no zone, and the
weaker one otherwise; the safe one is an equivalence; `ResolveAddr` honours the
preference. About `PrefixText`, from nothing but what a prefix's text looks like:
endings do not matter, exactly comments and empty lines are passed over, and what
the writers write can be read again.

`ArithmeticTheorems`, about `RtaAlign`: for the two alignments there are, the
eight-bit computation is the rounding of the kernel up to the largest length for
which it can be, and 0 beyond (no address of a kernel is that long;
`MessageOK` has none).

### Only model-checked

* Liveness: `EveryCallReturns`, `SignalEndsRun`, `LogEnds`,
  `DumpEnds`, `LogCatchesUp`, `ParsingEnds`. The prover has no rule for fairness.
* The properties that the failing runs refute.

## What is left out

In the modelled parts: durations and the wall clock (callers pass `now`), the
type parameters, `Len` and `Capacity`, the wording of logs, conversion of
addresses, a second signal (which kills the process), a read error of standard
input other than its end (it takes the path of EOF), JSON itself, the flags of an
IPv6 address that an ioctl adds to the log, the names of flags and messages, the
libraries that hold the sets of prefixes, the resolver. A data race of
Go is modelled as the possible orders of whole field reads and writes: a torn
`time.Time` or a torn multi-word value is not. The parts that are not modelled
are listed with their reasons in `PROJECT.json`.

## Plan

Done, in this order: the cache under its lock with its contract and proofs, the
cache between goroutines, the Windows monitor, the log reader, the BSD monitor,
the routing messages, the usage counters, the functions of `ip`, `resolv` and
`prefixset`; the refinement of `ExpiringMap`; and a proof of every invariant and
action property that a passing run checks.

Not planned: the parts listed as not modelled in `PROJECT.json`. They are
tables of names, one sequence of library calls each, or tests.
