--------------------- MODULE RoutingSocketMonitorProofs ---------------------
(***************************************************************************)
(* Proofs about RoutingSocketMonitor, for every finite set of interfaces   *)
(* and routes, every size of the socket's buffer and any number of changes *)
(* of the tables.                                                          *)
(***************************************************************************)
EXTENDS RoutingSocketMonitor, ArithmeticTheorems

(***************************************************************************)
(* The inductive invariant.                                                *)
(***************************************************************************)

\* The message at place i is the last one about x.
IsLast(i, x) == i \in Messages(x) /\ \A j \in Messages(x) : j <= i

\* The last message about an item says what the table says, of every item
\* whose latest message was not lost.
QueueInv ==
    \A x \in Item \ lost : \A i \in 1 .. Len(queue) :
        IsLast(i, x) => queue[i].state = table[x]

\* What has no message has not changed since it was logged,
LogInv == \A x \in tracked \ lost : Messages(x) = {} => logged[x] = table[x]

\* or since it was fetched.
DumpInv ==
    pc = "log" =>
        \A x \in DOMAIN rows \ lost : Messages(x) = {} => rows[x] = table[x]

\* There are no messages before there is a socket.
OpenInv == pc = "open" => queue = <<>> /\ tracked = {} /\ lost = {}

IInv ==
    /\ TypeOK
    /\ QueueInv
    /\ LogInv
    /\ DumpInv
    /\ OpenInv

(***************************************************************************)
(* Lemmas.                                                                 *)
(***************************************************************************)

\* What the steps need to know of the constants.
LEMMA Constants ==
    /\ nil \notin State
    /\ Slack \in Nat /\ QueueSize \in Nat /\ MaxChanges \in Nat
    /\ \A kind : ItemsOf(kind) \subseteq Item
BY SocketAssumption DEF ItemsOf, Item

\* A dump has a size, which is the number of its rows.
LEMMA SizeIsNatural ==
    ASSUME NEW kind PROVE Size(kind) \in Nat
<1> DEFINE present == {x \in ItemsOf(kind) : table[x] # nil}
<1>1. present \subseteq Item
  BY Constants
<1>2. IsFiniteSet(present)
  BY <1>1, SocketAssumption, FS_Subset
<1> QED
  BY <1>2, FS_CardinalityType DEF Size

\* One of the messages about an item is the last.
LEMMA LastMessage ==
    ASSUME TypeOK, NEW x, Messages(x) # {}
    PROVE  \E i \in Messages(x) : IsLast(i, x)
<1> DEFINE Bounds == {k \in Nat : \A j \in Messages(x) : j <= k}
<1>1. Messages(x) \subseteq 1 .. Len(queue) /\ Len(queue) \in Nat
  BY DEF Messages, TypeOK
<1>2. Len(queue) \in Bounds
  BY <1>1
<1>3. PICK k \in Bounds : \A b \in Bounds : k <= b
  BY <1>2, LeastNatural
<1>4. k \in Messages(x)
  <2> SUFFICES ASSUME k \notin Messages(x) PROVE FALSE
    OBVIOUS
  <2>1. k # 0
    BY <1>1
  <2>2. \A j \in Messages(x) : j <= k - 1
    BY <1>1
  <2>3. k - 1 \in Bounds
    BY <2>1, <2>2
  <2> QED
    BY <1>3, <2>3
<1> QED
  BY <1>4 DEF IsLast

(***************************************************************************)
(* The steps.                                                              *)
(***************************************************************************)

\* Every step keeps the types.
LEMMA TypeStep ==
    ASSUME TypeOK, [Next]_vars PROVE TypeOK'
<1> USE DEF kernelVars, fetchVars, logVars
<1>1. ASSUME NEW x \in Item, NEW state \in State \cup {nil}, Change(x, state)
      PROVE  TypeOK'
  <2>1. table' \in [Item -> State \cup {nil}]
    BY <1>1 DEF Change, TypeOK
  <2>2. changes' \in 0 .. MaxChanges
    <3>1. MaxChanges \in Nat
      BY Constants
    <3>2. changes \in 0 .. MaxChanges
      BY DEF TypeOK
    <3> QED
      BY <1>1, <3>1, <3>2 DEF Change
  <2>3. queue' \in Seq(Message) /\ Len(queue') <= QueueSize
    <3>1. queue \in Seq(Message) /\ Len(queue) <= QueueSize /\ QueueSize \in Nat
      BY Constants DEF TypeOK
    <3>2. CASE queue' = queue
      BY <3>1, <3>2
    <3>3. CASE Len(queue) < QueueSize /\ queue' = Append(queue, [item |-> x, state |-> state])
      <4>1. [item |-> x, state |-> state] \in Message
        BY DEF Message
      <4> QED
        BY <3>1, <3>3, <4>1
    <3> QED
      BY <1>1, <3>2, <3>3 DEF Change
  <2>4. readFails' \in BOOLEAN /\ tracked' \subseteq Item /\ lost' \subseteq Item
    BY <1>1 DEF Change, TypeOK
  <2> QED
    BY <1>1, <2>1, <2>2, <2>3, <2>4 DEF Change, TypeOK
<1>2. CASE Exit
  BY <1>2 DEF Exit, TypeOK
<1>3. CASE OpenRoutingSocket
  BY <1>3 DEF OpenRoutingSocket, TypeOK
<1>4. CASE OpenIoctlSocket
  BY <1>4 DEF OpenIoctlSocket, TypeOK
<1>5. CASE GetSize
  <2>1. n' \in Nat
    BY <1>5, SizeIsNatural, Constants DEF GetSize
  <2> QED
    BY <1>5, <2>1 DEF GetSize, TypeOK
<1>6. CASE Fetch
  <2>1. capacity' = Grow /\ Grow \in Nat /\ capacity <= Grow
    BY <1>6 DEF Fetch, Grow, TypeOK
  <2>2. pc' \in {"log", "size", "panicked"} /\ UNCHANGED <<kernelVars, source, n, logVars, lost>>
    BY <1>6 DEF Fetch
  <2>3. CASE rows' = rows
    <3>1. DOMAIN rows \subseteq Item
      BY Constants DEF TypeOK
    <3>2. Cardinality(DOMAIN rows) \in Nat
      BY <3>1, SocketAssumption, FS_Subset, FS_CardinalityType
    <3> QED
      BY <2>1, <2>2, <2>3, <3>2 DEF TypeOK
  <2>4. CASE /\ Fits(Size(source))
             /\ rows' = [x \in {y \in ItemsOf(source) : table[y] # nil} |-> table[x]]
    <3>1. DOMAIN rows' = {y \in ItemsOf(source) : table[y] # nil}
      BY <2>4
    <3>2. \A x \in DOMAIN rows' : rows'[x] \in State
      BY <2>4, Constants DEF TypeOK
    <3>3. Cardinality(DOMAIN rows') <= capacity'
      BY <2>1, <2>4, <3>1 DEF Fits, Size
    <3> QED
      BY <2>1, <2>2, <3>1, <3>2, <3>3 DEF TypeOK
  <2>5. CASE rows' = [x \in {} |-> nil]
    <3>1. DOMAIN rows' = {} /\ Cardinality({}) = 0
      BY <2>5, FS_EmptySet
    <3> QED
      BY <2>1, <2>2, <3>1 DEF TypeOK
  <2> QED
    BY <1>6, <2>3, <2>4, <2>5 DEF Fetch
<1>7. CASE LogDump
  <2>1. DOMAIN rows' = {} /\ Cardinality({}) = 0
    BY <1>7, FS_EmptySet DEF LogDump
  <2>2. logged' \in [Item -> State \cup {nil}]
    BY <1>7 DEF LogDump, Dumped, TypeOK
  <2>3. Dumped \subseteq Item
    BY Constants DEF Dumped, TypeOK
  <2> QED
    BY <1>7, <2>1, <2>2, <2>3 DEF LogDump, TypeOK, Source
<1>8. CASE Read
  <2>1. queue \in Seq(Message) /\ queue # <<>> /\ QueueSize \in Nat /\ Len(queue) <= QueueSize
    BY <1>8, Constants DEF Read, TypeOK
  <2>2. Tail(queue) \in Seq(Message) /\ Len(Tail(queue)) <= QueueSize /\ Head(queue) \in Message
    BY <2>1
  <2>3. logged' \in [Item -> State \cup {nil}]
    BY <1>8, <2>2 DEF Read, TypeOK, Message
  <2> QED
    BY <1>8, <2>2, <2>3 DEF Read, TypeOK
<1>9. CASE ReadError
  BY <1>9 DEF ReadError, TypeOK
<1>10. CASE UNCHANGED vars
  BY <1>10 DEF vars, TypeOK, Size
<1> QED
  BY <1>1, <1>2, <1>3, <1>4, <1>5, <1>6, <1>7, <1>8, <1>9, <1>10
     DEF Next, Kernel, Main

\* A message that is appended is the last one about its item.
LEMMA AppendMessage ==
    ASSUME TypeOK, NEW m \in Message, queue' = Append(queue, m)
    PROVE  /\ Messages(m.item)' = Messages(m.item) \cup {Len(queue) + 1}
           /\ \A x : x # m.item => Messages(x)' = Messages(x)
           /\ queue'[Len(queue) + 1] = m
           /\ \A i \in 1 .. Len(queue) : queue'[i] = queue[i]
<1>1. queue \in Seq(Message) /\ Len(queue) \in Nat
  BY DEF TypeOK
<1>2. /\ Len(queue') = Len(queue) + 1
      /\ queue'[Len(queue) + 1] = m
      /\ \A i \in 1 .. Len(queue) : queue'[i] = queue[i]
  BY <1>1
<1>3. 1 .. Len(queue') = (1 .. Len(queue)) \cup {Len(queue) + 1}
  BY <1>1, <1>2
<1> QED
  BY <1>1, <1>2, <1>3 DEF Messages

\* When a message is taken, the others move up.
LEMMA TailMessage ==
    ASSUME TypeOK, queue # <<>>, queue' = Tail(queue)
    PROVE  /\ Len(queue') = Len(queue) - 1
           /\ Head(queue) = queue[1]
           /\ \A i \in 1 .. Len(queue') : queue'[i] = queue[i + 1]
           /\ \A x : \A i \in Nat : i \in Messages(x)' <=> i # 0 /\ i + 1 \in Messages(x)
<1>1. queue \in Seq(Message) /\ Len(queue) \in Nat \ {0}
  BY DEF TypeOK
<1>2. /\ Len(queue') = Len(queue) - 1
      /\ Head(queue) = queue[1]
      /\ \A i \in 1 .. Len(queue') : queue'[i] = queue[i + 1]
  BY <1>1
<1> QED
  BY <1>1, <1>2 DEF Messages

\* Every step keeps what the messages say.
LEMMA QueueStep ==
    ASSUME TypeOK, OpenInv, QueueInv, [Next]_vars PROVE QueueInv'
<1> SUFFICES ASSUME NEW y \in Item \ lost', NEW i \in 1 .. Len(queue'), IsLast(i, y)'
             PROVE  queue'[i].state = table'[y]
  BY DEF QueueInv
<1> USE DEF kernelVars, fetchVars, logVars
<1>1. ASSUME NEW x \in Item, NEW state \in State \cup {nil}, Change(x, state)
      PROVE  queue'[i].state = table'[y]
  <2>1. y # x => table'[y] = table[y]
    BY <1>1 DEF Change, TypeOK
  <2>2. table'[x] = state
    BY <1>1 DEF Change, TypeOK
  <2>3. CASE queue' = Append(queue, [item |-> x, state |-> state]) /\ lost' = lost \ {x}
    <3> DEFINE m == [item |-> x, state |-> state]
    <3>1. m \in Message /\ Len(queue) \in Nat
      BY DEF Message, TypeOK
    <3>2. /\ Messages(x)' = Messages(x) \cup {Len(queue) + 1}
          /\ \A z : z # x => Messages(z)' = Messages(z)
          /\ queue'[Len(queue) + 1] = m
          /\ \A j \in 1 .. Len(queue) : queue'[j] = queue[j]
      BY <2>3, <3>1, AppendMessage
    <3>3. CASE y = x
      <4>1. i = Len(queue) + 1
        BY <3>1, <3>2, <3>3 DEF IsLast, Messages
      <4> QED
        BY <2>2, <3>2, <3>3, <4>1
    <3>4. CASE y # x
      <4>1. IsLast(i, y) /\ i \in 1 .. Len(queue)
        BY <3>2, <3>4 DEF IsLast, Messages
      <4>2. y \in Item \ lost
        BY <2>3, <3>4
      <4>3. queue[i].state = table[y]
        BY <4>1, <4>2 DEF QueueInv
      <4> QED
        BY <2>1, <3>2, <3>4, <4>1, <4>3
    <3> QED
      BY <3>3, <3>4
  <2>4. CASE queue' = queue /\ lost' = lost \cup {x}
    BY <2>1, <2>4 DEF QueueInv, IsLast, Messages
  <2>5. CASE ~SocketOpened /\ queue' = queue
    BY <1>1, <2>5 DEF Change, SocketOpened, OpenInv
  <2> QED
    BY <1>1, <2>3, <2>4, <2>5 DEF Change
<1>2. CASE Read
  <2>1. /\ Len(queue') = Len(queue) - 1
        /\ queue'[i] = queue[i + 1]
        /\ \A x : \A j \in Nat : j \in Messages(x)' <=> j # 0 /\ j + 1 \in Messages(x)
    BY <1>2, TailMessage DEF Read
  <2>2. Len(queue) \in Nat /\ i \in Nat /\ Messages(y) \subseteq 1 .. Len(queue)
    BY DEF TypeOK, Messages
  <2>3. i + 1 \in Messages(y)
    BY <2>1, <2>2 DEF IsLast
  <2>4. ASSUME NEW j \in Messages(y)
        PROVE  j <= i + 1
    <3>1. CASE j = 1
      BY <2>2, <3>1
    <3>2. CASE j # 1
      <4>1. j - 1 \in Nat /\ j - 1 # 0 /\ (j - 1) + 1 = j
        BY <2>2, <3>2
      <4>2. j - 1 \in Messages(y)'
        BY <2>1, <4>1
      <4>3. j - 1 <= i
        BY <4>2 DEF IsLast
      <4> QED
        BY <2>2, <4>3
    <3> QED
      BY <3>1, <3>2
  <2>5. IsLast(i + 1, y) /\ i + 1 \in 1 .. Len(queue)
    BY <2>2, <2>3, <2>4 DEF IsLast
  <2> QED
    BY <1>2, <2>1, <2>5 DEF Read, QueueInv
<1>3. CASE UNCHANGED <<queue, table, lost>>
  BY <1>3 DEF QueueInv, IsLast, Messages
<1> QED
  BY <1>1, <1>2, <1>3
     DEF Next, Kernel, Main, Exit, OpenRoutingSocket, OpenIoctlSocket, GetSize, Fetch,
         LogDump, ReadError, vars

\* Every step keeps what was logged: a change comes with a message or is lost,
\* and a message is logged when it is taken.
LEMMA LogStep ==
    ASSUME TypeOK, OpenInv, QueueInv, LogInv, DumpInv, [Next]_vars PROVE LogInv'
<1> SUFFICES ASSUME NEW y \in tracked' \ lost', Messages(y)' = {}
             PROVE  logged'[y] = table'[y]
  BY DEF LogInv
<1> USE DEF kernelVars, fetchVars, logVars
<1>1. ASSUME NEW x \in Item, NEW state \in State \cup {nil}, Change(x, state)
      PROVE  logged'[y] = table'[y]
  <2>1. logged' = logged /\ (y # x => table'[y] = table[y])
    BY <1>1 DEF Change, TypeOK
  <2>2. CASE /\ queue' = Append(queue, [item |-> x, state |-> state])
             /\ tracked' = tracked \cup {x} /\ lost' = lost \ {x}
    <3>1. [item |-> x, state |-> state] \in Message
      BY DEF Message
    <3>2. /\ Messages(x)' = Messages(x) \cup {Len(queue) + 1}
          /\ \A z : z # x => Messages(z)' = Messages(z)
      BY <2>2, <3>1, AppendMessage
    <3>3. y # x
      BY <3>2
    <3> QED
      BY <2>1, <2>2, <3>2, <3>3 DEF LogInv
  <2>3. CASE queue' = queue /\ lost' = lost \cup {x} /\ tracked' = tracked
    BY <2>1, <2>3 DEF LogInv, Messages
  <2>4. CASE ~SocketOpened /\ tracked' = tracked
    BY <1>1, <2>4 DEF Change, SocketOpened, OpenInv
  <2> QED
    BY <1>1, <2>2, <2>3, <2>4 DEF Change
<1>2. CASE LogDump
  <2>1. Messages(y) = {} /\ y \in Item
    BY <1>2, TypeStep DEF LogDump, Messages, TypeOK
  <2>2. CASE y \in Dumped
    BY <1>2, <2>1, <2>2 DEF LogDump, DumpInv, Dumped
  <2>3. CASE y \notin Dumped
    BY <1>2, <2>1, <2>3 DEF LogDump, LogInv
  <2> QED
    BY <2>2, <2>3
<1>3. CASE Read
  <2>1. /\ Head(queue) = queue[1] /\ queue # <<>>
        /\ \A j \in Nat : j \in Messages(y)' <=> j # 0 /\ j + 1 \in Messages(y)
    BY <1>3, TailMessage DEF Read
  <2>2. queue \in Seq(Message) /\ Len(queue) \in Nat \ {0} /\ Messages(y) \subseteq 1 .. Len(queue)
    BY <2>1 DEF TypeOK, Messages
  <2>3. ASSUME NEW j \in Messages(y)
        PROVE  j = 1
    <3>1. j # 1 => j - 1 \in Nat /\ j - 1 # 0 /\ (j - 1) + 1 = j
      BY <2>2
    <3> QED
      BY <2>1, <3>1
  <2>4. CASE queue[1].item = y
    <3>1. IsLast(1, y) /\ 1 \in 1 .. Len(queue)
      BY <2>2, <2>3, <2>4 DEF IsLast, Messages
    <3>2. queue[1].state = table[y]
      BY <1>3, <3>1 DEF QueueInv, Read, TypeOK
    <3>3. y \in Item
      BY <1>3 DEF Read, TypeOK
    <3> QED
      BY <1>3, <2>1, <2>4, <3>2, <3>3 DEF Read, TypeOK
  <2>5. CASE queue[1].item # y
    <3>1. Messages(y) = {}
      BY <2>3, <2>5 DEF Messages
    <3> QED
      BY <1>3, <2>1, <2>5, <3>1 DEF Read, LogInv, TypeOK
  <2> QED
    BY <2>4, <2>5
<1>4. CASE UNCHANGED <<queue, table, logged, tracked, lost>>
  BY <1>4 DEF LogInv, Messages
<1> QED
  BY <1>1, <1>2, <1>3, <1>4
     DEF Next, Kernel, Main, Exit, OpenRoutingSocket, OpenIoctlSocket, GetSize, Fetch,
         ReadError, vars

\* Every step keeps the dump: it is fetched at one instant, and a change after
\* that comes with a message or is lost.
LEMMA DumpStep ==
    ASSUME TypeOK, DumpInv, [Next]_vars PROVE DumpInv'
<1> SUFFICES ASSUME pc' = "log", NEW y \in DOMAIN rows' \ lost', Messages(y)' = {}
             PROVE  rows'[y] = table'[y]
  BY DEF DumpInv
<1> USE DEF kernelVars, fetchVars, logVars
<1>1. ASSUME NEW x \in Item, NEW state \in State \cup {nil}, Change(x, state)
      PROVE  rows'[y] = table'[y]
  <2>1. rows' = rows /\ pc = "log" /\ (y # x => table'[y] = table[y])
    BY <1>1 DEF Change, TypeOK
  <2>2. CASE queue' = Append(queue, [item |-> x, state |-> state]) /\ lost' = lost \ {x}
    <3>1. [item |-> x, state |-> state] \in Message
      BY DEF Message
    <3>2. /\ Messages(x)' = Messages(x) \cup {Len(queue) + 1}
          /\ \A z : z # x => Messages(z)' = Messages(z)
      BY <2>2, <3>1, AppendMessage
    <3>3. y # x
      BY <3>2
    <3> QED
      BY <2>1, <2>2, <3>2, <3>3 DEF DumpInv
  <2>3. CASE queue' = queue /\ lost' = lost \cup {x}
    BY <2>1, <2>3 DEF DumpInv, Messages
  <2> QED
    BY <1>1, <2>1, <2>2, <2>3 DEF Change, SocketOpened, Ended
<1>2. CASE Fetch
  BY <1>2 DEF Fetch
<1>3. CASE UNCHANGED <<queue, table, pc, rows, lost>>
  BY <1>3 DEF DumpInv, Messages
<1> QED
  BY <1>1, <1>2, <1>3
     DEF Next, Kernel, Main, Exit, OpenRoutingSocket, OpenIoctlSocket, GetSize, LogDump,
         Read, ReadError, vars

\* Every step keeps the rest.
LEMMA OpenStep ==
    ASSUME OpenInv, [Next]_vars PROVE OpenInv'
<1>1. ASSUME NEW x \in Item, NEW state \in State \cup {nil}, Change(x, state)
      PROVE  OpenInv'
  BY <1>1 DEF Change, SocketOpened, OpenInv
<1> QED
  BY <1>1
     DEF OpenInv, Next, Kernel, Main, Exit, OpenRoutingSocket, OpenIoctlSocket, GetSize,
         Fetch, LogDump, Read, ReadError, vars, kernelVars, logVars, fetchVars

(***************************************************************************)
(* The theorems.                                                           *)
(***************************************************************************)

\* The invariant holds of every reachable state, wherever changes fall between
\* the calls of main.
THEOREM Invariance == Spec => []IInv
<1>1. Init => IInv
  <2> SUFFICES ASSUME Init PROVE IInv
    OBVIOUS
  <2>1. TypeOK
    <3>1. Cardinality({}) = 0 /\ DOMAIN rows = {}
      BY FS_EmptySet DEF Init
    <3>2. queue \in Seq(Message) /\ Len(queue) = 0 /\ QueueSize \in Nat
      BY Constants DEF Init
    <3>3. 0 \in 0 .. MaxChanges
      BY Constants
    <3>4. /\ DOMAIN rows \subseteq ItemsOf(source)
          /\ \A x \in DOMAIN rows : rows[x] \in State
          /\ Cardinality(DOMAIN rows) <= capacity
      BY <3>1 DEF Init
    <3>5. /\ table \in [Item -> State \cup {nil}] /\ logged \in [Item -> State \cup {nil}]
          /\ readFails \in BOOLEAN /\ pc = "open" /\ source \in Source
          /\ changes = 0 /\ n = 0 /\ capacity = 0 /\ tracked = {} /\ lost = {}
      BY DEF Init, Source
    <3> QED
      BY <3>2, <3>3, <3>4, <3>5 DEF TypeOK
  <2>2. QueueInv /\ LogInv /\ DumpInv /\ OpenInv
    BY DEF Init, QueueInv, LogInv, DumpInv, OpenInv
  <2> QED
    BY <2>1, <2>2 DEF IInv
<1>2. IInv /\ [Next]_vars => IInv'
  BY TypeStep, QueueStep, LogStep, DumpStep, OpenStep DEF IInv
<1> QED
  BY <1>1, <1>2, PTL DEF Spec

\* Every variable keeps its type; in particular the dump fits its buffer and
\* the socket's buffer is never overfull.
THEOREM TypeCorrect == Spec => []TypeOK
<1>1. IInv => TypeOK
  BY DEF IInv
<1> QED
  BY <1>1, Invariance, PTL

\* The log of main, with what is still in the socket's buffer, says what the
\* kernel's tables say of every item that was dumped or has changed, unless
\* the item's latest message was lost.
THEOREM LogCorrect == Spec => []LogFollowsTable
<1>1. IInv => LogFollowsTable
  <2> SUFFICES ASSUME IInv, NEW x \in tracked \ lost PROVE WillSay(x, table[x])
    BY DEF LogFollowsTable
  <2>1. CASE Messages(x) = {}
    BY <2>1 DEF IInv, LogInv, WillSay
  <2>2. CASE Messages(x) # {}
    <3>1. PICK i \in Messages(x) : IsLast(i, x)
      BY <2>2, LastMessage DEF IInv
    <3>2. x \in Item \ lost /\ i \in 1 .. Len(queue)
      BY DEF IInv, TypeOK, Messages
    <3>3. queue[i].state = table[x]
      BY <3>1, <3>2 DEF IInv, QueueInv
    <3> QED
      BY <2>2, <3>1, <3>3 DEF WillSay, IsLast
  <2> QED
    BY <2>1, <2>2
<1> QED
  BY <1>1, Invariance, PTL
=============================================================================
