------------------------ MODULE RoutingSocketMonitor ------------------------
(***************************************************************************)
(* route/cmd/route/main_bsd.go: main opens a routing socket, logs a dump   *)
(* of the interfaces and one of the routes, and then logs every message    *)
(* that it reads from the socket.  A dump is fetched by SysctlGetBytes     *)
(* (route/bsdroute/bsdroute_bsd.go), in two system calls between which the *)
(* table may grow.  How a buffer of messages is taken apart is the subject *)
(* of RoutingMessages; here a message is an item of a table and what the   *)
(* table now says of it.                                                   *)
(*                                                                         *)
(* The kernel is not part of the repository.  Of it this module assumes:   *)
(* a change makes one message on every open routing socket, in order; a    *)
(* message that finds the socket's buffer full is lost, and the next read  *)
(* may return an error for it; sysctl with a buffer copies the whole table *)
(* as it is at one instant, or fails with ENOMEM if it does not fit;       *)
(* sysctl without a buffer returns how much the table takes, perhaps with  *)
(* some slack unless it is empty.                                          *)
(***************************************************************************)
EXTENDS Integers, FiniteSets, Sequences

CONSTANTS
    Interface,
    Route,
    State,          \* what the table may say of an item
    Wanted,         \* the rows that a filtered dump logs
    DumpAll,        \* the flag of the same name
    Slack,          \* how much sysctl may add to the size it returns
    QueueSize,      \* the messages that the socket's buffer holds
    MaxChanges,     \* bound: how often the kernel changes its tables
    nil

Item == Interface \cup Route

ASSUME SocketAssumption ==
    /\ Interface \cap Route = {}
    /\ IsFiniteSet(Item)
    /\ nil \notin State
    /\ Wanted \subseteq Item \X State
    /\ DumpAll \in BOOLEAN
    /\ Slack \in Nat /\ QueueSize \in Nat /\ MaxChanges \in Nat

VARIABLES
    table,     \* of the kernel: the state of each item, nil if there is none
    queue,     \* the messages in the socket's buffer
    readFails, \* whether the next read returns an error
    changes,   \* how often the tables have changed
    pc,
    source,    \* the kind of dump that main is at
    n,         \* SysctlGetBytes: the size that sysctl has returned
    capacity,  \* SysctlGetBytes: cap(b)
    rows,      \* the dump, as it was fetched
    logged,    \* what the log said last of each item, nil if gone or nothing
    tracked,   \* history: the items of which the log ought to tell
    lost       \* history: the items whose latest message was lost

kernelVars == <<table, queue, readFails, changes>>
fetchVars == <<source, n, capacity, rows>>
logVars == <<logged, tracked>>
vars == <<kernelVars, pc, fetchVars, logVars, lost>>

Source == {"interface", "route"}
ItemsOf(kind) == IF kind = "interface" THEN Interface ELSE Route

\* The size of the dump, in rows.
Size(kind) == Cardinality({x \in ItemsOf(kind) : table[x] # nil})

Init ==
    /\ table \in [Item -> State \cup {nil}]
    /\ queue = <<>>
    /\ readFails = FALSE
    /\ changes = 0
    /\ pc = "open"
    /\ source = "interface"
    /\ n = 0
    /\ capacity = 0
    /\ rows = [x \in {} |-> nil]
    /\ logged = [x \in Item |-> nil]
    /\ tracked = {}
    /\ lost = {}

\* The process is gone, after os.Exit(1) or a panic.
Ended == pc \in {"exited", "panicked"}

-----------------------------------------------------------------------------
\* Seeded fault: the socket is opened when it is needed, after the dumps.
SocketOpenedLate == pc = "monitor"

SocketOpened == pc # "open" /\ ~Ended

Change(x, state) ==
    /\ ~Ended
    /\ changes < MaxChanges
    /\ state # table[x]
    /\ changes' = changes + 1
    /\ table' = [table EXCEPT ![x] = state]
    /\ \/ /\ SocketOpened /\ Len(queue) < QueueSize
          /\ queue' = Append(queue, [item |-> x, state |-> state])
          /\ tracked' = tracked \cup {x}
          /\ lost' = lost \ {x}
          /\ UNCHANGED readFails
       \/ /\ SocketOpened /\ Len(queue) = QueueSize
          /\ readFails' \in {readFails, TRUE}
          /\ lost' = lost \cup {x}
          /\ UNCHANGED <<queue, tracked>>
       \/ /\ ~SocketOpened
          /\ UNCHANGED <<queue, readFails, tracked, lost>>
    /\ UNCHANGED <<pc, fetchVars, logged>>

-----------------------------------------------------------------------------
(* main, as far as the dumps.                                              *)

\* os.Exit(1), after a system call has failed.
Exit ==
    /\ pc \in {"open", "ioctl", "size", "fetch"}
    /\ pc' = "exited"
    /\ UNCHANGED <<kernelVars, fetchVars, logVars, lost>>

OpenRoutingSocket ==
    /\ pc = "open"
    /\ pc' = "ioctl"
    /\ UNCHANGED <<kernelVars, fetchVars, logVars, lost>>

OpenIoctlSocket ==
    /\ pc = "ioctl"
    /\ pc' = "size"
    /\ UNCHANGED <<kernelVars, fetchVars, logVars, lost>>

\* The first sysctl of SysctlGetBytes.
GetSize ==
    /\ pc = "size"
    /\ pc' = "fetch"
    /\ n' \in Size(source) .. Size(source) + (IF Size(source) = 0 THEN 0 ELSE Slack)
    /\ UNCHANGED <<kernelVars, source, capacity, rows, logVars, lost>>

\* Seeded fault: the buffer is made once, not for every round.
GrowOnce == IF capacity = 0 THEN n ELSE capacity

\* slices.Grow: b is never longer than 0, so only its capacity matters.  That
\* the runtime may round it up has the effect of more slack.
Grow == IF capacity < n THEN n ELSE capacity

\* Seeded fault: ENOMEM is ignored.
FitsAlways(size) == TRUE

Fits(size) == size <= Grow

\* slices.Grow and the second sysctl.  A buffer of no capacity has no address,
\* so sysctl again returns a size and copies nothing; b[:n] panics if that is
\* not 0.
Fetch ==
    /\ pc = "fetch"
    /\ capacity' = Grow
    /\ \/ /\ Grow > 0 /\ Fits(Size(source))
          /\ pc' = "log"
          /\ rows' = [x \in {y \in ItemsOf(source) : table[y] # nil} |-> table[x]]
       \/ /\ Grow > 0 /\ ~Fits(Size(source))
          /\ pc' = "size"
          /\ UNCHANGED rows
       \/ /\ Grow = 0 /\ Size(source) = 0
          /\ pc' = "log"
          /\ rows' = [x \in {} |-> nil]
       \/ /\ Grow = 0 /\ Size(source) > 0
          /\ pc' = "panicked"
          /\ UNCHANGED rows
    /\ UNCHANGED <<kernelVars, source, n, logVars, lost>>

\* The rows that parseAndLogMsgs logs when it filters a dump.
Dumped == {x \in DOMAIN rows : DumpAll \/ <<x, rows[x]>> \in Wanted}

\* parseAndLogMsgs, and on to the next dump or to monitorRoutingSocket.
LogDump ==
    /\ pc = "log"
    /\ logged' = [x \in Item |-> IF x \in Dumped THEN rows[x] ELSE logged[x]]
    /\ tracked' = tracked \cup Dumped
    /\ pc' = IF source = "interface" THEN "size" ELSE "monitor"
    /\ source' = "route"
    /\ n' = 0
    /\ capacity' = 0
    /\ rows' = [x \in {} |-> nil]
    /\ UNCHANGED <<kernelVars, lost>>

-----------------------------------------------------------------------------
(* monitorRoutingSocket.                                                   *)

\* f.Read and parseAndLogMsgs: "Each read only returns a single message."
Read ==
    /\ pc = "monitor"
    /\ ~readFails
    /\ queue # <<>>
    /\ logged' = [logged EXCEPT ![Head(queue).item] = Head(queue).state]
    /\ queue' = Tail(queue)
    /\ UNCHANGED <<table, readFails, changes, pc, fetchVars, tracked, lost>>

\* Seeded fault: an error ends the loop.
ReadErrorExits ==
    /\ pc = "monitor"
    /\ readFails
    /\ pc' = "stopped"
    /\ readFails' = FALSE
    /\ UNCHANGED <<table, queue, changes, fetchVars, logVars, lost>>

\* An error is logged, and the loop goes on.
ReadError ==
    /\ pc = "monitor"
    /\ readFails
    /\ readFails' = FALSE
    /\ UNCHANGED <<table, queue, changes, pc, fetchVars, logVars, lost>>

-----------------------------------------------------------------------------
Kernel == \E x \in Item, state \in State \cup {nil} : Change(x, state)

\* What main does when no system call fails.
Main ==
    \/ OpenRoutingSocket \/ OpenIoctlSocket \/ GetSize \/ Fetch \/ LogDump
    \/ Read \/ ReadError

Next == Kernel \/ Exit \/ Main

Spec == Init /\ [][Next]_vars

\* main keeps running; neither a change nor a failure is sure to come.
FairSpec == Spec /\ WF_vars(Main)

-----------------------------------------------------------------------------
(* Properties.                                                             *)

Message == [item : Item, state : State \cup {nil}]

TypeOK ==
    /\ table \in [Item -> State \cup {nil}]
    /\ queue \in Seq(Message) /\ Len(queue) <= QueueSize
    /\ readFails \in BOOLEAN
    /\ changes \in 0 .. MaxChanges
    /\ pc \in {"open", "ioctl", "size", "fetch", "log", "monitor", "exited", "panicked"}
    /\ source \in Source
    /\ n \in Nat /\ capacity \in Nat
    /\ DOMAIN rows \subseteq ItemsOf(source)
    /\ \A x \in DOMAIN rows : rows[x] \in State
    /\ Cardinality(DOMAIN rows) <= capacity
    /\ logged \in [Item -> State \cup {nil}]
    /\ tracked \subseteq Item
    /\ lost \subseteq Item

\* Where in the queue the messages about x are.
Messages(x) == {i \in 1 .. Len(queue) : queue[i].item = x}

\* Once the messages of the queue are logged, the log says state of x.
WillSay(x, state) ==
    IF Messages(x) = {}
        THEN logged[x] = state
        ELSE \E i \in Messages(x) :
                 queue[i].state = state /\ \A j \in Messages(x) : j <= i

\* The socket is opened before the dumps are fetched (main_bsd.go:30-57): of
\* an item that was dumped, or has changed since, the log says or is about to
\* say what the table says, wherever a change falls between the calls and in
\* whatever order old messages and newer dumps are logged, unless the socket
\* has lost the item's latest message.
LogFollowsTable ==
    \A x \in tracked \ lost : ~Ended => WillSay(x, table[x])

\* "SysctlGetBytes retrieves system information" (bsdroute_bsd.go:22): the
\* rounds after ENOMEM come to an end when the table stops growing, since each
\* has a buffer as large as the table was.
DumpEnds == (pc \in {"size", "fetch"}) ~> (pc \in {"log", "exited", "panicked"})

\* Changes come to an end, and so do the messages: in the end the log says
\* what the table says, also after reads that failed (main_bsd.go:67-71).
LogCatchesUp ==
    <>[](Ended \/ \A x \in tracked \ lost : logged[x] = table[x])
=============================================================================
