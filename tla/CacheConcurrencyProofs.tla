----------------------- MODULE CacheConcurrencyProofs -----------------------
(***************************************************************************)
(* Proofs about CacheConcurrency, for any number of goroutines, keys and   *)
(* instants, every capacity and every set of operations.                   *)
(***************************************************************************)
EXTENDS CacheConcurrency, ArithmeticTheorems, SequenceTheorems

(***************************************************************************)
(* The inductive invariant.                                                *)
(***************************************************************************)

\* A call that the lock has let in: it reads, or it loops over the list.
Reading(g) == At(g, "yield") \/ At(g, "next") \/ (At(g, "reading") /\ Granted(g))

\* How many read locks g should hold: one for the call on top of its stack,
\* and one for the loop below that.
Held(g) ==
    (IF Len(stack[g]) = 2 THEN 1 ELSE 0) + (IF Reading(g) THEN 1 ELSE 0)

\* Where a call can be, by its method.
FrameOK(f) ==
    /\ f.call.op \in Writers <=> f.pc \in {"lock", "writing", "assign"}
    /\ f.call.op \in Iterators => f.pc \in {"rlock", "reading", "yield", "next"}
    /\ f.pc \in {"yield", "next"} => f.call.op \in Iterators
    /\ f.pc = "try" => f.call.op = "TryContains"
    /\ f.pc \in {"check", "load"} => f.call.op \in Getters
    /\ f.pc = "load" => f.call.op = "Get"
    /\ f.pc = "assign" => f.call.op \in Setters

\* Only a loop has a call above it, and that is no writer.
FrameInv ==
    \A g \in Goroutine :
        /\ Len(stack[g]) \in 0 .. 2
        /\ \A i \in 1 .. Len(stack[g]) : FrameOK(stack[g][i])
        /\ Len(stack[g]) = 2 =>
              stack[g][1].pc = "next" /\ stack[g][2].call.op \notin Writers
        /\ answer[g] # nil => Idle(g)

\* The lock knows what the calls have asked of it, and a Set writes fields
\* only while nobody holds a read lock.
LockInv ==
    /\ \A g \in Goroutine : holds[g] = Held(g)
    /\ \A g \in waiting : At(g, "reading") /\ writer # nil
    /\ \A g \in Goroutine : writer = g <=> At(g, "writing") \/ At(g, "assign")
    /\ \A g, h \in Goroutine : At(g, "assign") => holds[h] = 0

\* The list has no node twice, and has the nodes of the map, each under its
\* own key.
MapInv ==
    /\ \A i \in DOMAIN list :
          list[i] \in DOMAIN heap /\ nodeByKey[heap[list[i]].key] = list[i]
    /\ \A i, j \in DOMAIN list : list[i] = list[j] => i = j
    /\ \A k \in Key :
          nodeByKey[k] # nil =>
              /\ \E i \in DOMAIN list : list[i] = nodeByKey[k]
              /\ heap[nodeByKey[k]].key = k

\* What a call or an answer points to exists, and belongs to its key or, in a
\* loop, to the list.
PointsTo(node, key) ==
    node # nil => node \in DOMAIN heap /\ heap[node].key = key

PointerOK(f) ==
    /\ f.node \in DOMAIN heap \cup {nil}
    /\ f.pc \in {"check", "load"} => f.node # nil /\ PointsTo(f.node, f.call.key)
    /\ f.pc = "assign" => f.node # nil /\ f.node = nodeByKey[f.call.key]
    /\ f.pc \in {"yield", "next"} => \E j \in DOMAIN list : list[j] = f.node

PointerInv ==
    \A g \in Goroutine :
        /\ \A i \in 1 .. Len(stack[g]) : PointerOK(stack[g][i])
        /\ answer[g] # nil => PointsTo(answer[g].node, answer[g].call.key)

\* A field of a node once the Set that is writing it has done so.
Settled(node, field) ==
    IF writer # nil /\ At(writer, "assign") /\ Top(writer).node = node
        THEN Top(writer).call.expiresAt
        ELSE heap[node][field]

\* The list is in order and each node has both fields of the same Set, as far
\* as they are written.
OrderInv ==
    /\ \A i, j \in DOMAIN list :
          i < j => Settled(list[i], "expiresAt") <= Settled(list[j], "expiresAt")
    /\ \A i \in DOMAIN list : Settled(list[i], "value") = Settled(list[i], "expiresAt")
    /\ \A g \in Goroutine : At(g, "assign") =>
          \A field \in {"expiresAt", "value"} \ Top(g).todo :
              heap[Top(g).node][field] = Top(g).call.expiresAt

(***************************************************************************)
(* Lemmas about sequences.                                                 *)
(***************************************************************************)

\* A part of a sequence that runs to its end.
LEMMA EndOf ==
    ASSUME NEW S, NEW s \in Seq(S), NEW m \in 0 .. Len(s)
    PROVE  /\ SubSeq(s, m + 1, Len(s)) \in Seq(S)
           /\ Len(SubSeq(s, m + 1, Len(s))) = Len(s) - m
           /\ \A i \in 1 .. Len(s) - m : SubSeq(s, m + 1, Len(s))[i] = s[m + i]
<1>1. Len(s) \in Nat /\ m + 1 \in Int /\ \A i \in m + 1 .. Len(s) : s[i] \in S
  OBVIOUS
<1>2. /\ SubSeq(s, m + 1, Len(s)) \in Seq(S)
      /\ Len(SubSeq(s, m + 1, Len(s))) = IF m + 1 <= Len(s) THEN Len(s) - (m + 1) + 1 ELSE 0
      /\ \A i \in 1 .. Len(s) - (m + 1) + 1 :
            SubSeq(s, m + 1, Len(s))[i] = s[(m + 1) + i - 1]
  BY <1>1, SubSeqProperties
<1> QED
  BY <1>1, <1>2

\* And one that begins with its beginning.
LEMMA BeginningOf ==
    ASSUME NEW S, NEW s \in Seq(S), NEW m \in 0 .. Len(s)
    PROVE  /\ SubSeq(s, 1, m) \in Seq(S)
           /\ Len(SubSeq(s, 1, m)) = m
           /\ \A i \in 1 .. m : SubSeq(s, 1, m)[i] = s[i]
<1>1. Len(s) \in Nat /\ m \in Int /\ \A i \in 1 .. m : s[i] \in S
  OBVIOUS
<1>2. /\ SubSeq(s, 1, m) \in Seq(S)
      /\ Len(SubSeq(s, 1, m)) = IF 1 <= m THEN m - 1 + 1 ELSE 0
      /\ \A i \in 1 .. m - 1 + 1 : SubSeq(s, 1, m)[i] = s[1 + i - 1]
  BY <1>1, SubSeqProperties
<1> QED
  BY <1>1, <1>2

\* A sequence without the element at place p.
LEMMA Removed ==
    ASSUME NEW S, NEW s \in Seq(S), NEW p \in 1 .. Len(s)
    PROVE  /\ RemoveAt(s, p) \in Seq(S)
           /\ Len(RemoveAt(s, p)) = Len(s) - 1
           /\ \A i \in 1 .. Len(s) - 1 :
                 RemoveAt(s, p)[i] = IF i < p THEN s[i] ELSE s[i + 1]
<1>1. Len(s) \in Nat /\ p - 1 \in 0 .. Len(s)
  OBVIOUS
<1> DEFINE a == SubSeq(s, 1, p - 1)
           b == SubSeq(s, p + 1, Len(s))
<1>2. a \in Seq(S) /\ Len(a) = p - 1 /\ \A i \in 1 .. p - 1 : a[i] = s[i]
  BY <1>1, BeginningOf
<1>3. b \in Seq(S) /\ Len(b) = Len(s) - p /\ \A i \in 1 .. Len(s) - p : b[i] = s[p + i]
  BY <1>1, EndOf
<1>4. RemoveAt(s, p) = a \o b
  BY DEF RemoveAt
<1> HIDE DEF a, b
<1>5. /\ a \o b \in Seq(S) /\ Len(a \o b) = Len(a) + Len(b)
      /\ \A i \in 1 .. Len(a) + Len(b) :
            (a \o b)[i] = IF i <= Len(a) THEN a[i] ELSE b[i - Len(a)]
  BY <1>2, <1>3, ConcatProperties
<1>6. ASSUME NEW i \in 1 .. Len(s) - 1
      PROVE  (a \o b)[i] = IF i < p THEN s[i] ELSE s[i + 1]
  <2>1. CASE i < p
    BY <1>1, <1>2, <1>3, <1>5, <2>1
  <2>2. CASE ~(i < p)
    <3>1. (a \o b)[i] = b[i - (p - 1)] /\ i - (p - 1) \in 1 .. Len(s) - p
      BY <1>1, <1>2, <1>3, <1>5, <2>2
    <3>2. b[i - (p - 1)] = s[p + (i - (p - 1))] /\ p + (i - (p - 1)) = i + 1
      BY <1>1, <1>3, <3>1
    <3> QED
      BY <2>2, <3>1, <3>2
  <2> QED
    BY <2>1, <2>2
<1> QED
  BY <1>1, <1>2, <1>3, <1>4, <1>5, <1>6

\* A sequence with another element at place p.
IsInserted(t, s, p, e) ==
    /\ t \in Seq(Node) /\ Len(t) = Len(s) + 1
    /\ \A i \in 1 .. Len(s) + 1 :
          t[i] = IF i < p THEN s[i] ELSE IF i = p THEN e ELSE s[i - 1]

LEMMA Inserted ==
    ASSUME NEW s \in Seq(Node), NEW p \in 1 .. Len(s) + 1, NEW e \in Node
    PROVE  IsInserted(InsertAt(s, p, e), s, p, e)
<1>1. Len(s) \in Nat /\ p - 1 \in 0 .. Len(s) /\ (p - 1) + 1 = p
  OBVIOUS
<1> DEFINE a == SubSeq(s, 1, p - 1)
           b == SubSeq(s, p, Len(s))
           c == a \o <<e>>
<1>2. a \in Seq(Node) /\ Len(a) = p - 1 /\ \A i \in 1 .. p - 1 : a[i] = s[i]
  BY <1>1, BeginningOf
<1>3. b \in Seq(Node) /\ Len(b) = Len(s) - (p - 1)
      /\ \A i \in 1 .. Len(s) - (p - 1) : b[i] = s[(p - 1) + i]
  <2>1. /\ SubSeq(s, (p - 1) + 1, Len(s)) \in Seq(Node)
        /\ Len(SubSeq(s, (p - 1) + 1, Len(s))) = Len(s) - (p - 1)
        /\ \A i \in 1 .. Len(s) - (p - 1) :
              SubSeq(s, (p - 1) + 1, Len(s))[i] = s[(p - 1) + i]
    BY <1>1, EndOf
  <2> QED
    BY <1>1, <2>1
<1>4. InsertAt(s, p, e) = c \o b
  BY DEF InsertAt
<1>5. <<e>> \in Seq(Node) /\ Len(<<e>>) = 1 /\ <<e>>[1] = e
  OBVIOUS
<1> HIDE DEF a, b
<1>6. /\ c \in Seq(Node) /\ Len(c) = p
      /\ \A i \in 1 .. p - 1 : c[i] = s[i]
      /\ c[p] = e
  <2>1. /\ c \in Seq(Node) /\ Len(c) = Len(a) + 1
        /\ \A i \in 1 .. Len(a) + 1 : c[i] = IF i <= Len(a) THEN a[i] ELSE <<e>>[i - Len(a)]
    BY <1>2, <1>5, ConcatProperties
  <2>2. Len(a) + 1 = p /\ p \in 1 .. Len(a) + 1 /\ p - Len(a) = 1 /\ ~(p <= Len(a))
    BY <1>1, <1>2
  <2>3. c[p] = e
    BY <1>5, <2>1, <2>2
  <2>4. \A i \in 1 .. p - 1 : c[i] = s[i]
    BY <1>1, <1>2, <2>1
  <2> QED
    BY <2>1, <2>2, <2>3, <2>4
<1> HIDE DEF c
<1>7. /\ c \o b \in Seq(Node) /\ Len(c \o b) = Len(c) + Len(b)
      /\ \A i \in 1 .. Len(c) + Len(b) :
            (c \o b)[i] = IF i <= Len(c) THEN c[i] ELSE b[i - Len(c)]
  BY <1>3, <1>6, ConcatProperties
<1>8. ASSUME NEW i \in 1 .. Len(s) + 1
      PROVE  (c \o b)[i] = IF i < p THEN s[i] ELSE IF i = p THEN e ELSE s[i - 1]
  <2>1. CASE i <= p
    BY <1>1, <1>3, <1>6, <1>7, <2>1
  <2>2. CASE ~(i <= p)
    <3>1. (c \o b)[i] = b[i - p] /\ i - p \in 1 .. Len(s) - (p - 1)
      BY <1>1, <1>3, <1>6, <1>7, <2>2
    <3>2. b[i - p] = s[(p - 1) + (i - p)] /\ (p - 1) + (i - p) = i - 1
      BY <1>1, <1>3, <3>1
    <3> QED
      BY <2>2, <3>1, <3>2
  <2> QED
    BY <2>1, <2>2
<1> QED
  BY <1>1, <1>3, <1>4, <1>6, <1>7, <1>8 DEF IsInserted

\* Where says where.
LEMMA Found ==
    ASSUME NEW s, NEW n, \E i \in DOMAIN s : s[i] = n
    PROVE  Where(s, n) \in DOMAIN s /\ s[Where(s, n)] = n
BY DEF Where

(***************************************************************************)
(* Lemmas about the constants and the stacks.                              *)
(***************************************************************************)

LEMMA Constants ==
    /\ Time \subseteq Int /\ Capacity \in Nat \ {0}
    /\ Operation \subseteq Method /\ InLoop \subseteq Method \ Writers
    /\ nil \notin Goroutine /\ nil \notin Key /\ nil \notin Node /\ nil \notin Time
BY ConcurrencyAssumption

\* What a call is called with.
LEMMA Arguments ==
    ASSUME NEW op \in Method, NEW c \in Call(op)
    PROVE  /\ c \in AnyCall /\ c.op = op
           /\ c.key = nil <=> op \in Iterators \cup {"Clear"}
           /\ c.key \in Key \cup {nil}
           /\ op \in Setters \cup Getters => c.now \in Time
           /\ op \in Setters => c.expiresAt \in Time
BY Constants DEF Call, AnyCall, Method, Writers, Setters, Getters, Iterators

LEMMA AnyArguments ==
    ASSUME NEW c \in AnyCall
    PROVE  /\ c.op \in Method
           /\ c.key = nil <=> c.op \in Iterators \cup {"Clear"}
           /\ c.key \in Key \cup {nil}
           /\ c.op \in Setters \cup Getters => c.now \in Time
           /\ c.op \in Setters => c.expiresAt \in Time
<1>1. PICK op \in Method : c \in Call(op)
  BY DEF AnyCall
<1> QED
  BY <1>1, Arguments

Stacks == [Goroutine -> Seq(AnyFrame)]

\* The top of a stack is one of its frames.
LEMMA TopFrame ==
    ASSUME stack \in Stacks, NEW g \in Goroutine, ~Idle(g)
    PROVE  /\ Len(stack[g]) \in Nat \ {0}
           /\ Top(g) = stack[g][Len(stack[g])]
           /\ Top(g) \in AnyFrame
           /\ \A i \in 1 .. Len(stack[g]) : stack[g][i] \in AnyFrame
<1>1. stack[g] \in Seq(AnyFrame) /\ stack[g] # <<>>
  BY DEF Stacks, Idle
<1> QED
  BY <1>1 DEF Top, Last

\* The front of a stack is all of it but its top.
LEMMA FrontFrames ==
    ASSUME NEW S, NEW s \in Seq(S), s # <<>>
    PROVE  /\ Front(s) \in Seq(S)
           /\ Len(Front(s)) = Len(s) - 1
           /\ \A i \in 1 .. Len(s) - 1 : Front(s)[i] = s[i]
<1>1. Len(s) - 1 \in 0 .. Len(s)
  OBVIOUS
<1>2. /\ SubSeq(s, 1, Len(s) - 1) \in Seq(S)
      /\ Len(SubSeq(s, 1, Len(s) - 1)) = Len(s) - 1
      /\ \A i \in 1 .. Len(s) - 1 : SubSeq(s, 1, Len(s) - 1)[i] = s[i]
  BY <1>1, BeginningOf
<1> QED
  BY <1>2 DEF Front

\* Update changes the top of one stack.
LEMMA Updated ==
    ASSUME stack \in Stacks, NEW g \in Goroutine, ~Idle(g), NEW f \in AnyFrame,
           Update(g, f)
    PROVE  /\ stack' \in Stacks
           /\ Len(stack'[g]) = Len(stack[g])
           /\ stack'[g][Len(stack[g])] = f
           /\ \A i \in 1 .. Len(stack[g]) - 1 : stack'[g][i] = stack[g][i]
           /\ \A h \in Goroutine : h # g => stack'[h] = stack[h]
           /\ ~(Idle(g)') /\ (Top(g))' = f
<1> DEFINE s == stack[g]
<1>1. s \in Seq(AnyFrame) /\ s # <<>> /\ Len(s) \in Nat \ {0}
  BY DEF Stacks, Idle
<1>2. /\ Front(s) \in Seq(AnyFrame)
      /\ Len(Front(s)) = Len(s) - 1
      /\ \A i \in 1 .. Len(s) - 1 : Front(s)[i] = s[i]
  BY <1>1, FrontFrames
<1>3. stack' = [stack EXCEPT ![g] = Append(Front(s), f)]
  BY DEF Update
<1>4. stack'[g] = Append(Front(s), f) /\ \A h \in Goroutine : h # g => stack'[h] = stack[h]
  BY <1>3 DEF Stacks
<1> HIDE DEF s
<1>5. /\ Append(Front(s), f) \in Seq(AnyFrame)
      /\ Len(Append(Front(s), f)) = Len(s)
      /\ Append(Front(s), f)[Len(s)] = f
      /\ \A i \in 1 .. Len(s) - 1 : Append(Front(s), f)[i] = s[i]
  BY <1>1, <1>2
<1> USE DEF s
<1>6. stack' \in Stacks
  BY <1>3, <1>5 DEF Stacks
<1>7. ~(Idle(g)') /\ (Top(g))' = f
  <2>1. stack'[g] # <<>>
    BY <1>1, <1>4, <1>5
  <2> QED
    BY <2>1, <1>4, <1>5 DEF Idle, Top, Last
<1> QED
  BY <1>4, <1>5, <1>6, <1>7

\* Return takes the top off one stack.
LEMMA Returned ==
    ASSUME stack \in Stacks, NEW g \in Goroutine, ~Idle(g), NEW a, Return(g, a)
    PROVE  /\ stack' \in Stacks
           /\ Len(stack'[g]) = Len(stack[g]) - 1
           /\ \A i \in 1 .. Len(stack[g]) - 1 : stack'[g][i] = stack[g][i]
           /\ \A h \in Goroutine : h # g => stack'[h] = stack[h]
           /\ answer' = IF Len(stack[g]) = 1 THEN [answer EXCEPT ![g] = a] ELSE answer
<1>1. stack[g] \in Seq(AnyFrame) /\ stack[g] # <<>>
  BY DEF Stacks, Idle
<1>2. /\ Front(stack[g]) \in Seq(AnyFrame)
      /\ Len(Front(stack[g])) = Len(stack[g]) - 1
      /\ \A i \in 1 .. Len(stack[g]) - 1 : Front(stack[g])[i] = stack[g][i]
  BY <1>1, FrontFrames
<1>3. stack' = [stack EXCEPT ![g] = Front(stack[g])]
  BY DEF Return
<1> QED
  BY <1>2, <1>3 DEF Stacks, Return

\* Where a goroutine is after its top frame has changed,
LEMMA AtUpdated ==
    ASSUME stack \in Stacks, NEW g \in Goroutine, ~Idle(g), NEW f \in AnyFrame,
           Update(g, f)
    PROVE  /\ \A pc : (At(g, pc))' <=> f.pc = pc
           /\ \A h \in Goroutine : h # g =>
                 /\ (Idle(h))' = Idle(h) /\ (Top(h))' = Top(h)
                 /\ \A pc : (At(h, pc))' <=> At(h, pc)
<1>1. ~(Idle(g)') /\ (Top(g))' = f
  BY Updated
<1>2. \A h \in Goroutine : h # g => stack'[h] = stack[h]
  BY Updated
<1> QED
  BY <1>1, <1>2 DEF At, Idle, Top

\* and after a call has ended: in the loop that has called it, if any.
LEMMA AtReturned ==
    ASSUME stack \in Stacks, FrameInv, NEW g \in Goroutine, ~Idle(g), NEW a, Return(g, a)
    PROVE  /\ \A pc : (At(g, pc))' <=> Len(stack[g]) = 2 /\ pc = "next"
           /\ (Idle(g))' <=> Len(stack[g]) = 1
           /\ \A h \in Goroutine : h # g =>
                 /\ (Idle(h))' = Idle(h) /\ (Top(h))' = Top(h)
                 /\ \A pc : (At(h, pc))' <=> At(h, pc)
<1>1. /\ stack'[g] \in Seq(AnyFrame)
      /\ Len(stack'[g]) = Len(stack[g]) - 1
      /\ \A i \in 1 .. Len(stack[g]) - 1 : stack'[g][i] = stack[g][i]
      /\ \A h \in Goroutine : h # g => stack'[h] = stack[h]
  BY Returned DEF Stacks
<1>2. Len(stack[g]) \in 1 .. 2 /\ (Len(stack[g]) = 2 => stack[g][1].pc = "next")
  BY TopFrame DEF FrameInv
<1>3. CASE Len(stack[g]) = 1
  <2>1. stack'[g] = <<>>
    BY <1>1, <1>3
  <2> QED
    BY <1>1, <1>3, <2>1 DEF At, Idle, Top
<1>4. CASE Len(stack[g]) = 2
  <2>1. stack'[g] # <<>> /\ (Top(g))' = stack[g][1]
    BY <1>1, <1>4 DEF Top, Last
  <2> QED
    BY <1>1, <1>2, <1>4, <2>1 DEF At, Idle, Top
<1> QED
  BY <1>2, <1>3, <1>4

(***************************************************************************)
(* Frames stay in bounds.                                                  *)
(***************************************************************************)

LEMMA FramesUpdated ==
    ASSUME stack \in Stacks, FrameInv, NEW g \in Goroutine, ~Idle(g),
           NEW f \in AnyFrame, Update(g, f), FrameOK(f),
           f.call.op = Top(g).call.op, UNCHANGED answer
    PROVE  FrameInv'
<1>1. /\ Len(stack'[g]) = Len(stack[g])
      /\ stack'[g][Len(stack[g])] = f
      /\ \A i \in 1 .. Len(stack[g]) - 1 : stack'[g][i] = stack[g][i]
      /\ \A h \in Goroutine : h # g => stack'[h] = stack[h]
  BY Updated
<1>2. Len(stack[g]) \in 1 .. 2 /\ Top(g) = stack[g][Len(stack[g])]
  BY TopFrame DEF FrameInv
<1>3. answer[g] = nil
  BY DEF FrameInv
<1>4. ASSUME NEW i \in 1 .. Len(stack[g])
      PROVE  FrameOK(stack'[g][i])
  BY <1>1, <1>2, <1>4 DEF FrameInv
<1>5. Len(stack[g]) = 2 => stack'[g][1].pc = "next" /\ stack'[g][2].call.op \notin Writers
  BY <1>1, <1>2 DEF FrameInv
<1> QED
  BY <1>1, <1>2, <1>3, <1>4, <1>5 DEF FrameInv, Idle

LEMMA FramesReturned ==
    ASSUME stack \in Stacks, FrameInv, answer \in [Goroutine -> AnyAnswer \cup {nil}],
           NEW g \in Goroutine, ~Idle(g), NEW a, Return(g, a)
    PROVE  FrameInv'
<1>1. /\ Len(stack'[g]) = Len(stack[g]) - 1
      /\ \A i \in 1 .. Len(stack[g]) - 1 : stack'[g][i] = stack[g][i]
      /\ \A h \in Goroutine : h # g => stack'[h] = stack[h]
      /\ answer' = IF Len(stack[g]) = 1 THEN [answer EXCEPT ![g] = a] ELSE answer
  BY Returned
<1>2. Len(stack[g]) \in 1 .. 2
  BY TopFrame DEF FrameInv
<1>3. (Idle(g))' <=> Len(stack[g]) = 1
  BY AtReturned
<1>4. answer'[g] # nil => (Idle(g))'
  BY <1>1, <1>2, <1>3 DEF FrameInv
<1>5. \A i \in 1 .. Len(stack'[g]) : FrameOK(stack'[g][i])
  BY <1>1, <1>2 DEF FrameInv
<1>6. ASSUME NEW h \in Goroutine, h # g
      PROVE  stack'[h] = stack[h] /\ answer'[h] = answer[h]
  BY <1>1, <1>6
<1>7. \A h \in Goroutine : h # g => (Idle(h))' = Idle(h)
  BY <1>6 DEF Idle
<1>8. ASSUME NEW h \in Goroutine
      PROVE  /\ Len(stack'[h]) \in 0 .. 2
             /\ \A i \in 1 .. Len(stack'[h]) : FrameOK(stack'[h][i])
             /\ Len(stack'[h]) = 2 =>
                   stack'[h][1].pc = "next" /\ stack'[h][2].call.op \notin Writers
             /\ answer'[h] # nil => (Idle(h))'
  <2>1. CASE h = g
    <3>1. Len(stack'[g]) \in 0 .. 1 /\ Len(stack'[g]) # 2
      <4>1. Len(stack'[g]) = Len(stack[g]) - 1
        BY <1>1
      <4>2. \A k \in 1 .. 2 : k - 1 \in 0 .. 1 /\ k - 1 # 2
        OBVIOUS
      <4> QED
        BY <1>2, <4>1, <4>2
    <3>2. answer'[g] # nil => (Idle(g))'
      BY <1>4
    <3> QED
      BY <1>5, <2>1, <3>1, <3>2
  <2>2. CASE h # g
    BY <1>6, <1>7, <2>2 DEF FrameInv
  <2> QED
    BY <2>1, <2>2
<1> QED
  BY <1>8 DEF FrameInv

\* Frames that a call moves through.
Places == {"rlock", "reading", "check", "load", "try", "lock", "writing", "assign",
             "yield", "next"}

LEMMA MovedPc ==
    ASSUME NEW f \in AnyFrame, NEW pc \in Places
    PROVE  /\ [f EXCEPT !.pc = pc] \in AnyFrame
           /\ [f EXCEPT !.pc = pc].pc = pc
           /\ [f EXCEPT !.pc = pc].call = f.call
           /\ [f EXCEPT !.pc = pc].node = f.node
           /\ [f EXCEPT !.pc = pc].todo = f.todo
BY DEF AnyFrame, Places

\* The frame f, moved to pc with a node it has found.
AtNode(f, pc, node) == [f EXCEPT !.pc = pc, !.node = node]

IsAtNode(e, f, pc, node) ==
    e \in AnyFrame /\ e.pc = pc /\ e.call = f.call /\ e.node = node

LEMMA MovedNode ==
    ASSUME NEW f \in AnyFrame, NEW pc \in Places, NEW node \in Node \cup {nil}
    PROVE  IsAtNode(AtNode(f, pc, node), f, pc, node)
BY DEF AtNode, IsAtNode, AnyFrame, Places

LEMMA LessTodo ==
    ASSUME NEW f \in AnyFrame, NEW todo \in SUBSET {"expiresAt", "value"}
    PROVE  /\ [f EXCEPT !.todo = todo] \in AnyFrame
           /\ [f EXCEPT !.todo = todo].pc = f.pc
           /\ [f EXCEPT !.todo = todo].call = f.call
           /\ [f EXCEPT !.todo = todo].node = f.node
           /\ [f EXCEPT !.todo = todo].todo = todo
BY DEF AnyFrame

\* The frame that a call begins with.
LEMMA NewFrame ==
    ASSUME NEW c \in AnyCall
    PROVE  /\ Frame(c) \in AnyFrame
           /\ FrameOK(Frame(c))
           /\ Frame(c).call = c /\ Frame(c).node = nil
           /\ Frame(c).pc \in {"lock", "try", "rlock"}
           /\ Frame(c).pc = "lock" <=> c.op \in Writers
<1>1. c.op \in Method
  BY AnyArguments
<1>2. /\ Frame(c).call = c /\ Frame(c).node = nil /\ Frame(c).todo = {}
      /\ Frame(c).pc \in {"lock", "try", "rlock"}
      /\ Frame(c).pc = "lock" <=> c.op \in Writers
      /\ Frame(c).pc = "try" => c.op = "TryContains"
  BY DEF Frame, Writers, Setters
<1>3. Frame(c) \in AnyFrame
  BY <1>2 DEF Frame, AnyFrame
<1>4. c.op \in Writers => c.op \notin Iterators \cup {"TryContains"}
  BY DEF Writers, Setters, Iterators
<1>5. c.op = "TryContains" => c.op \notin Iterators
  BY DEF Iterators
<1> QED
  BY <1>2, <1>3, <1>4, <1>5 DEF FrameOK

\* A call begins on an empty stack.
LEMMA Begun ==
    ASSUME stack \in Stacks, NEW g \in Goroutine, NEW c \in AnyCall, Begin(g, c)
    PROVE  /\ stack' \in Stacks
           /\ stack'[g] = <<Frame(c)>> /\ Len(stack'[g]) = 1 /\ stack'[g][1] = Frame(c)
           /\ ~(Idle(g))' /\ (Top(g))' = Frame(c)
           /\ \A pc : (At(g, pc))' <=> Frame(c).pc = pc
           /\ \A h \in Goroutine : h # g =>
                 /\ stack'[h] = stack[h]
                 /\ (Idle(h))' = Idle(h) /\ (Top(h))' = Top(h)
                 /\ \A pc : (At(h, pc))' <=> At(h, pc)
<1>1. Frame(c) \in AnyFrame
  BY NewFrame
<1>2. stack' = [stack EXCEPT ![g] = <<Frame(c)>>]
  BY DEF Begin
<1>3. stack' \in Stacks
  BY <1>1, <1>2 DEF Stacks
<1>4. stack'[g] = <<Frame(c)>> /\ \A h \in Goroutine : h # g => stack'[h] = stack[h]
  BY <1>2 DEF Stacks
<1>5. Len(<<Frame(c)>>) = 1 /\ <<Frame(c)>>[1] = Frame(c) /\ <<Frame(c)>> # <<>>
  OBVIOUS
<1>6. ~(Idle(g))' /\ (Top(g))' = Frame(c)
  BY <1>4, <1>5 DEF Idle, Top, Last
<1> QED
  BY <1>3, <1>4, <1>5, <1>6 DEF At, Idle, Top

\* A body of a loop calls the cache.
LEMMA BodyCalled ==
    ASSUME stack \in Stacks, NEW g \in Goroutine, NEW c \in AnyCall, BodyCall(g, c)
    PROVE  /\ stack' \in Stacks
           /\ Len(stack[g]) = 1 /\ stack[g][1] = Top(g)
           /\ Len(stack'[g]) = 2
           /\ stack'[g][1] = [Top(g) EXCEPT !.pc = "next"]
           /\ stack'[g][2] = Frame(c)
           /\ ~(Idle(g))' /\ (Top(g))' = Frame(c)
           /\ \A pc : (At(g, pc))' <=> Frame(c).pc = pc
           /\ \A h \in Goroutine : h # g =>
                 /\ stack'[h] = stack[h]
                 /\ (Idle(h))' = Idle(h) /\ (Top(h))' = Top(h)
                 /\ \A pc : (At(h, pc))' <=> At(h, pc)
<1> DEFINE f == [Top(g) EXCEPT !.pc = "next"]
<1>1. ~Idle(g) /\ Len(stack[g]) = 1 /\ stack' = [stack EXCEPT ![g] = <<f, Frame(c)>>]
  BY DEF BodyCall, At
<1>2. Top(g) \in AnyFrame /\ Top(g) = stack[g][1]
  BY <1>1, TopFrame
<1>3. f \in AnyFrame /\ Frame(c) \in AnyFrame
  BY <1>2, NewFrame DEF AnyFrame
<1> HIDE DEF f
<1>4. stack' \in Stacks
  BY <1>1, <1>3 DEF Stacks
<1>5. stack'[g] = <<f, Frame(c)>> /\ \A h \in Goroutine : h # g => stack'[h] = stack[h]
  BY <1>1 DEF Stacks
<1>6. /\ Len(<<f, Frame(c)>>) = 2 /\ <<f, Frame(c)>>[1] = f
      /\ <<f, Frame(c)>>[2] = Frame(c) /\ <<f, Frame(c)>> # <<>>
  OBVIOUS
<1>7. ~(Idle(g))' /\ (Top(g))' = Frame(c)
  BY <1>5, <1>6 DEF Idle, Top, Last
<1> QED
  BY <1>1, <1>2, <1>4, <1>5, <1>6, <1>7 DEF At, Idle, Top, f

(***************************************************************************)
(* What a Set does to the list.                                            *)
(***************************************************************************)

\* Places that are all at the front are counted by the last of them.
LEMMA FrontCount ==
    ASSUME NEW n \in Nat, NEW P \in SUBSET (1 .. n),
           \A i \in P : \A j \in 1 .. i : j \in P
    PROVE  Cardinality(P) \in 0 .. n /\ P = 1 .. Cardinality(P)
<1> DEFINE Q == {k \in Nat : k # 0 /\ k \notin P}
<1>1. n + 1 \in Q
  OBVIOUS
<1>2. PICK k \in Q : \A j \in Q : k <= j
  BY <1>1, LeastNatural
<1>3. k \in Nat /\ k # 0 /\ k \notin P /\ k <= n + 1
  BY <1>1, <1>2
<1>4. P = 1 .. (k - 1)
  <2>1. ASSUME NEW i \in P
        PROVE  i \in 1 .. (k - 1)
    <3>1. i \in 1 .. n /\ k \notin 1 .. i
      BY <1>3
    <3> QED
      BY <1>3, <3>1
  <2>2. ASSUME NEW i \in 1 .. (k - 1)
        PROVE  i \in P
    <3>1. i \in Nat /\ i # 0 /\ ~(k <= i)
      BY <1>3
    <3> QED
      BY <1>2, <3>1
  <2> QED
    BY <2>1, <2>2
<1>5. Cardinality(1 .. (k - 1)) = k - 1
  <2>1. 1 \in Int /\ k - 1 \in Int
    BY <1>3
  <2>2. Cardinality(1 .. (k - 1)) = IF 1 > k - 1 THEN 0 ELSE (k - 1) - 1 + 1
    BY <2>1, FS_Interval
  <2> QED
    BY <1>3, <2>2
<1> QED
  BY <1>3, <1>4, <1>5

\* What has not expired is the end of the list.
LEMMA LiveList ==
    ASSUME TypeOK, NEW now
    PROVE  \E d \in 0 .. Len(list) :
              /\ Live(now) \in Seq(Node)
              /\ Len(Live(now)) = Len(list) - d
              /\ \A i \in 1 .. Len(list) - d : Live(now)[i] = list[d + i]
<1> DEFINE expired == {i \in DOMAIN list : \A j \in 1 .. i : Expired(list[j], now)}
<1>1. list \in Seq(Node) /\ Len(list) \in Nat /\ DOMAIN list = 1 .. Len(list)
  BY DEF TypeOK
<1>2. expired \in SUBSET (1 .. Len(list))
  BY <1>1
<1>3. ASSUME NEW i \in expired, NEW j \in 1 .. i
      PROVE  j \in expired
  <2>1. i \in 1 .. Len(list) /\ j \in 1 .. Len(list) /\ \A l \in 1 .. j : l \in 1 .. i
    BY <1>1
  <2> QED
    BY <1>1, <2>1
<1> HIDE DEF expired
<1>4. Cardinality(expired) \in 0 .. Len(list)
  BY <1>1, <1>2, <1>3, FrontCount
<1>5. Live(now) = SubSeq(list, Cardinality(expired) + 1, Len(list))
  BY DEF Live, expired
<1> QED
  BY <1>1, <1>4, <1>5, EndOf

\* What is kept of the list is in the order of the list, and without the node
\* of the key.
LEMMA KeptList ==
    ASSUME TypeOK, MapInv, NEW c \in AnyCall
    PROVE  /\ Kept(c) \in Seq(Node)
           /\ Known(c) => nodeByKey[c.key] \in Node /\ \E i \in DOMAIN list : list[i] = nodeByKey[c.key]
           /\ \E e \in [1 .. Len(Kept(c)) -> 1 .. Len(list)] :
                 /\ \A i \in 1 .. Len(Kept(c)) :
                       Kept(c)[i] = list[e[i]] /\ Kept(c)[i] # nodeByKey[c.key]
                 /\ \A i, j \in 1 .. Len(Kept(c)) : i < j => e[i] < e[j]
<1> DEFINE live == Live(c.now)
           node == nodeByKey[c.key]
<1>1. list \in Seq(Node) /\ Len(list) \in Nat /\ DOMAIN list = 1 .. Len(list)
  BY DEF TypeOK
<1>2. PICK d \in 0 .. Len(list) :
         /\ live \in Seq(Node)
         /\ Len(live) = Len(list) - d
         /\ \A i \in 1 .. Len(list) - d : live[i] = list[d + i]
  BY LiveList
<1>3. d \in Nat /\ Len(live) \in Nat /\ DOMAIN live = 1 .. Len(live)
  BY <1>1, <1>2
<1>4. Known(c) <=> \E i \in DOMAIN live : live[i] = node
  BY DEF Known, ToSet
<1>5. \A i, j \in 1 .. Len(list) : list[i] = list[j] => i = j
  BY <1>1 DEF MapInv
<1>6. Kept(c) = IF Known(c) THEN RemoveAt(live, Where(live, node))
                ELSE IF Len(live) < Capacity THEN live ELSE Tail(live)
  BY DEF Kept
<1> HIDE DEF live, node
<1>7. CASE Known(c)
  <2> DEFINE p == Where(live, node)
  <2>1. p \in 1 .. Len(live) /\ live[p] = node
    BY <1>3, <1>4, <1>7, Found
  <2>2. Kept(c) = RemoveAt(live, p)
    BY <1>6, <1>7
  <2> HIDE DEF p
  <2>3. /\ Kept(c) \in Seq(Node)
        /\ Len(Kept(c)) = Len(live) - 1
        /\ \A i \in 1 .. Len(live) - 1 : Kept(c)[i] = IF i < p THEN live[i] ELSE live[i + 1]
    <3>1. live \in Seq(Node)
      BY <1>2, Zenon
    <3>2. p \in 1 .. Len(live)
      BY <2>1, Zenon
    <3>3. /\ RemoveAt(live, p) \in Seq(Node)
          /\ Len(RemoveAt(live, p)) = Len(live) - 1
          /\ \A i \in 1 .. Len(live) - 1 :
                RemoveAt(live, p)[i] = IF i < p THEN live[i] ELSE live[i + 1]
      BY <3>1, <3>2, Removed, Zenon
    <3> QED
      BY <2>2, <3>3, Zenon
  <2> DEFINE e == [i \in 1 .. Len(Kept(c)) |-> IF i < p THEN d + i ELSE d + i + 1]
  <2>4. list[d + p] = node /\ d + p \in 1 .. Len(list)
    BY <1>1, <1>2, <1>3, <2>1
  <2>5. ASSUME NEW i \in 1 .. Len(Kept(c))
        PROVE  e[i] \in 1 .. Len(list) /\ e[i] # d + p /\ Kept(c)[i] = list[e[i]]
    <3>1. CASE i < p
      <4>1. e[i] = d + i /\ i \in 1 .. Len(list) - d /\ d + i \in 1 .. Len(list) /\ d + i # d + p
        BY <1>1, <1>2, <1>3, <2>1, <2>3, <3>1
      <4>2. Kept(c)[i] = live[i] /\ live[i] = list[d + i]
        BY <1>1, <1>2, <1>3, <2>1, <2>3, <3>1, <4>1
      <4> QED
        BY <4>1, <4>2
    <3>2. CASE ~(i < p)
      <4>1. /\ e[i] = d + i + 1 /\ i + 1 \in 1 .. Len(list) - d
            /\ d + i + 1 \in 1 .. Len(list) /\ d + i + 1 # d + p
            /\ d + (i + 1) = d + i + 1
        BY <1>1, <1>2, <1>3, <2>1, <2>3, <3>2
      <4>2. Kept(c)[i] = live[i + 1]
        BY <1>1, <1>2, <1>3, <2>1, <2>3, <3>2
      <4>3. live[i + 1] = list[d + (i + 1)]
        BY <1>2, <4>1
      <4> QED
        BY <4>1, <4>2, <4>3
    <3> QED
      BY <3>1, <3>2
  <2>6. \A i \in 1 .. Len(Kept(c)) : Kept(c)[i] # node
    BY <1>5, <2>4, <2>5
  <2>7. \A i, j \in 1 .. Len(Kept(c)) : i < j => e[i] < e[j]
    BY <1>1, <1>2, <1>3, <2>1, <2>3
  <2>8. e \in [1 .. Len(Kept(c)) -> 1 .. Len(list)]
    BY <2>5
  <2>9. node \in Node /\ \E i \in DOMAIN list : list[i] = node
    BY <1>1, <2>4
  <2> HIDE DEF e
  <2> QED
    BY <2>3, <2>5, <2>6, <2>7, <2>8, <2>9 DEF node
<1>8. CASE ~Known(c) /\ Len(live) < Capacity
  <2>1. Kept(c) = live
    BY <1>6, <1>8
  <2> DEFINE e == [i \in 1 .. Len(Kept(c)) |-> d + i]
  <2>2. ASSUME NEW i \in 1 .. Len(Kept(c))
        PROVE  e[i] \in 1 .. Len(list) /\ Kept(c)[i] = list[e[i]] /\ Kept(c)[i] # node
    BY <1>1, <1>2, <1>3, <1>4, <1>8, <2>1
  <2>3. \A i, j \in 1 .. Len(Kept(c)) : i < j => e[i] < e[j]
    BY <1>1, <1>2, <1>3, <2>1
  <2>4. e \in [1 .. Len(Kept(c)) -> 1 .. Len(list)]
    BY <2>2
  <2> HIDE DEF e
  <2> QED
    BY <1>2, <1>8, <2>1, <2>2, <2>3, <2>4 DEF node
<1>9. CASE ~Known(c) /\ ~(Len(live) < Capacity)
  <2>1. Kept(c) = Tail(live) /\ live # <<>>
    BY <1>3, <1>6, <1>9, Constants
  <2>2. /\ Kept(c) \in Seq(Node)
        /\ Len(Kept(c)) = Len(live) - 1
        /\ \A i \in 1 .. Len(Kept(c)) : Kept(c)[i] = live[i + 1]
    BY <1>2, <2>1, HeadTailProperties
  <2> DEFINE e == [i \in 1 .. Len(Kept(c)) |-> d + i + 1]
  <2>3. ASSUME NEW i \in 1 .. Len(Kept(c))
        PROVE  e[i] \in 1 .. Len(list) /\ Kept(c)[i] = list[e[i]] /\ Kept(c)[i] # node
    <3>1. /\ e[i] = d + i + 1 /\ i + 1 \in 1 .. Len(list) - d
          /\ i + 1 \in 1 .. Len(live)
          /\ d + i + 1 \in 1 .. Len(list) /\ d + (i + 1) = d + i + 1
      BY <1>1, <1>2, <1>3, <2>2
    <3>2. Kept(c)[i] = live[i + 1] /\ live[i + 1] = list[d + (i + 1)]
      BY <1>2, <2>2, <3>1
    <3>3. live[i + 1] # node
      BY <1>3, <1>4, <1>9, <3>1
    <3> QED
      BY <3>1, <3>2, <3>3
  <2>4. \A i, j \in 1 .. Len(Kept(c)) : i < j => e[i] < e[j]
    BY <1>1, <1>2, <1>3, <2>2
  <2>5. e \in [1 .. Len(Kept(c)) -> 1 .. Len(list)]
    BY <2>3
  <2> HIDE DEF e
  <2> QED
    BY <1>9, <2>2, <2>3, <2>4, <2>5 DEF node
<1> QED
  BY <1>7, <1>8, <1>9

\* The node that a Set ends with, and the place in the list it gives it.
SetNode(g) ==
    IF Known(Top(g).call)
        THEN nodeByKey[Top(g).call.key] ELSE FreshNode(Kept(Top(g).call))
SetPlace(g) ==
    Place(Top(g).call.op, Kept(Top(g).call), Top(g).call.expiresAt)

\* A Set has the cache to itself.
LEMMA SetCall ==
    ASSUME TypeOK, LockInv, NEW g \in Goroutine,
           At(g, "writing"), Top(g).call.op \in Setters, Exclusive(g)
    PROVE  /\ Top(g).call \in AnyCall /\ Top(g).call.key \in Key
           /\ Top(g).call.now \in Time /\ Top(g).call.expiresAt \in Time
           /\ \A h \in Goroutine : holds[h] = 0 /\ ~At(h, "assign")
           /\ \A m, field : Settled(m, field) = heap[m][field]
<1>1. stack \in Stacks /\ ~Idle(g) /\ Top(g).pc = "writing"
  BY DEF TypeOK, Stacks, At
<1>2. Top(g).call \in AnyCall
  BY <1>1, TopFrame DEF AnyFrame
<1>3. Top(g).call.op \notin Iterators \cup {"Clear"}
  BY DEF Setters, Iterators
<1>4. writer = g /\ \A h \in Goroutine : holds[h] = 0
  BY DEF Exclusive
<1>5. ~At(g, "assign")
  BY <1>1 DEF At
<1>6. \A h \in Goroutine : ~At(h, "assign")
  BY <1>4, <1>5 DEF LockInv
<1> QED
  BY <1>2, <1>3, <1>4, <1>6, AnyArguments DEF Settled

\* What is kept is in order, without the key.
LEMMA SetKept ==
    ASSUME TypeOK, LockInv, MapInv, OrderInv, NEW g \in Goroutine,
           At(g, "writing"), Top(g).call.op \in Setters, Exclusive(g),
           NEW kept, kept = Kept(Top(g).call)
    PROVE  /\ kept \in Seq(Node)
           /\ \A i \in 1 .. Len(kept) :
                 /\ kept[i] \in DOMAIN heap /\ kept[i] # nodeByKey[Top(g).call.key]
                 /\ nodeByKey[heap[kept[i]].key] = kept[i]
                 /\ heap[kept[i]].value = heap[kept[i]].expiresAt
           /\ \A i, j \in 1 .. Len(kept) : kept[i] = kept[j] => i = j
           /\ \A i, j \in 1 .. Len(kept) :
                 i < j => heap[kept[i]].expiresAt <= heap[kept[j]].expiresAt
<1>1. Top(g).call \in AnyCall /\ \A m, field : Settled(m, field) = heap[m][field]
  BY SetCall
<1>2. /\ kept \in Seq(Node)
      /\ \E e \in [1 .. Len(kept) -> 1 .. Len(list)] :
            /\ \A i \in 1 .. Len(kept) :
                  kept[i] = list[e[i]] /\ kept[i] # nodeByKey[Top(g).call.key]
            /\ \A i, j \in 1 .. Len(kept) : i < j => e[i] < e[j]
  BY <1>1, KeptList
<1>3. PICK e \in [1 .. Len(kept) -> 1 .. Len(list)] :
            /\ \A i \in 1 .. Len(kept) :
                  kept[i] = list[e[i]] /\ kept[i] # nodeByKey[Top(g).call.key]
            /\ \A i, j \in 1 .. Len(kept) : i < j => e[i] < e[j]
  BY <1>2
<1>4. DOMAIN list = 1 .. Len(list) /\ Len(list) \in Nat /\ Len(kept) \in Nat
  BY <1>2 DEF TypeOK
<1>5. \A i \in 1 .. Len(kept) : e[i] \in DOMAIN list
  BY <1>3, <1>4
<1>6. ASSUME NEW i \in 1 .. Len(kept)
      PROVE  /\ kept[i] \in DOMAIN heap
             /\ nodeByKey[heap[kept[i]].key] = kept[i]
             /\ heap[kept[i]].value = heap[kept[i]].expiresAt
  <2>1. kept[i] = list[e[i]] /\ e[i] \in DOMAIN list
    BY <1>3, <1>5
  <2>2. list[e[i]] \in DOMAIN heap /\ nodeByKey[heap[list[e[i]]].key] = list[e[i]]
    BY <2>1 DEF MapInv
  <2>3. Settled(list[e[i]], "value") = Settled(list[e[i]], "expiresAt")
    BY <2>1 DEF OrderInv
  <2> QED
    BY <1>1, <2>1, <2>2, <2>3
<1>7. ASSUME NEW i \in 1 .. Len(kept), NEW j \in 1 .. Len(kept), i < j
      PROVE  heap[kept[i]].expiresAt <= heap[kept[j]].expiresAt
  <2>1. e[i] < e[j] /\ e[i] \in DOMAIN list /\ e[j] \in DOMAIN list
    BY <1>3, <1>5, <1>7
  <2>2. Settled(list[e[i]], "expiresAt") <= Settled(list[e[j]], "expiresAt")
    BY <2>1 DEF OrderInv
  <2> QED
    BY <1>1, <1>3, <2>2
<1>8. ASSUME NEW i \in 1 .. Len(kept), NEW j \in 1 .. Len(kept), kept[i] = kept[j]
      PROVE  i = j
  <2>1. e[i] = e[j] /\ e[i] \in Nat /\ e[j] \in Nat
    <3>1. list[e[i]] = list[e[j]]
      BY <1>3, <1>8
    <3>2. e[i] = e[j]
      BY <1>5, <3>1 DEF MapInv
    <3> QED
      BY <1>4, <1>5, <3>2
  <2>2. ~(i < j) /\ ~(j < i)
    BY <1>3, <2>1
  <2> QED
    BY <1>4, <2>2
<1> QED
  BY <1>2, <1>3, <1>6, <1>7, <1>8

\* The node goes where it keeps the order.
LEMMA SetPlaces ==
    ASSUME TypeOK, LockInv, MapInv, OrderInv, NEW g \in Goroutine,
           At(g, "writing"), Top(g).call.op \in Setters, Exclusive(g),
           NEW kept, kept = Kept(Top(g).call)
    PROVE  /\ SetPlace(g) \in 1 .. Len(kept) + 1
           /\ \A i \in 1 .. Len(kept) :
                 /\ i < SetPlace(g) => heap[kept[i]].expiresAt <= Top(g).call.expiresAt
                 /\ i >= SetPlace(g) => Top(g).call.expiresAt <= heap[kept[i]].expiresAt
<1> DEFINE expiresAt == Top(g).call.expiresAt
           before == {i \in DOMAIN kept :
                         \/ heap[kept[i]].expiresAt < expiresAt
                         \/ /\ heap[kept[i]].expiresAt = expiresAt
                            /\ Top(g).call.op = "SetFromHead"}
<1>1. kept \in Seq(Node) /\ Len(kept) \in Nat /\ DOMAIN kept = 1 .. Len(kept)
  BY SetKept
<1>2. expiresAt \in Int
  BY SetCall, Constants
<1>3. \A i \in 1 .. Len(kept) : heap[kept[i]].expiresAt \in Int
  <2>1. \A i \in 1 .. Len(kept) : kept[i] \in DOMAIN heap
    BY SetKept
  <2> QED
    BY <2>1, Constants DEF TypeOK
<1>4. \A i, j \in 1 .. Len(kept) :
         i < j => heap[kept[i]].expiresAt <= heap[kept[j]].expiresAt
  BY SetKept
<1>5. SetPlace(g) = Cardinality(before) + 1
  BY DEF SetPlace, Place
<1>6. before \in SUBSET (1 .. Len(kept))
  BY <1>1
<1>7. ASSUME NEW i \in before, NEW j \in 1 .. i
      PROVE  j \in before
  <2>1. i \in 1 .. Len(kept) /\ j \in 1 .. Len(kept) /\ (j < i \/ j = i)
    BY <1>1
  <2>2. heap[kept[j]].expiresAt <= heap[kept[i]].expiresAt
    BY <1>3, <1>4, <2>1
  <2> QED
    BY <1>1, <1>2, <1>3, <2>1, <2>2
<1>8. Cardinality(before) \in 0 .. Len(kept) /\ before = 1 .. Cardinality(before)
  <2> HIDE DEF before
  <2> QED
    BY <1>1, <1>6, <1>7, FrontCount
<1>9. ASSUME NEW i \in 1 .. Len(kept)
      PROVE  /\ i < SetPlace(g) => heap[kept[i]].expiresAt <= expiresAt
             /\ i >= SetPlace(g) => expiresAt <= heap[kept[i]].expiresAt
  <2>1. i < SetPlace(g) <=> i \in before
    <3> HIDE DEF before
    <3> QED
      BY <1>1, <1>5, <1>8
  <2>2. i \in before => heap[kept[i]].expiresAt <= expiresAt
    BY <1>2, <1>3
  <2>3. i \notin before => expiresAt <= heap[kept[i]].expiresAt
    BY <1>1, <1>2, <1>3
  <2>4. i >= SetPlace(g) => i \notin before
    <3> HIDE DEF before
    <3> QED
      BY <1>1, <1>5, <1>8
  <2> QED
    BY <2>1, <2>2, <2>3, <2>4
<1>10. SetPlace(g) \in 1 .. Len(kept) + 1
  <2> HIDE DEF before
  <2> QED
    BY <1>1, <1>5, <1>8
<1> QED
  BY <1>9, <1>10

\* What is in use exists.
LEMMA Used ==
    ASSUME TypeOK, PointerInv, NEW kept \in Seq(Node),
           \A i \in 1 .. Len(kept) : kept[i] \in DOMAIN heap
    PROVE  /\ \A i \in 1 .. Len(kept) : kept[i] \in InUse(kept)
           /\ \A h \in Goroutine : answer[h] # nil => answer[h].node \in InUse(kept)
           /\ \A h \in Goroutine : \A i \in 1 .. Len(stack[h]) :
                 stack[h][i].node \in InUse(kept)
           /\ InUse(kept) \subseteq DOMAIN heap \cup {nil}
           /\ DOMAIN heap \subseteq Node
<1> DEFINE A == {answer[g].node : g \in {h \in Goroutine : answer[h] # nil}}
           F == UNION {{f.node : f \in ToSet(stack[g])} : g \in Goroutine}
<1>1. InUse(kept) = ToSet(kept) \cup A \cup F
  BY DEF InUse
<1>2. \A h \in Goroutine :
         /\ DOMAIN stack[h] = 1 .. Len(stack[h])
         /\ \A i \in 1 .. Len(stack[h]) : stack[h][i].node \in DOMAIN heap \cup {nil}
         /\ answer[h] # nil => answer[h].node \in DOMAIN heap \cup {nil}
  <2>1. ASSUME NEW h \in Goroutine
        PROVE  /\ \A i \in 1 .. Len(stack[h]) : stack[h][i].node \in DOMAIN heap \cup {nil}
               /\ answer[h] # nil => answer[h].node \in DOMAIN heap \cup {nil}
    BY DEF PointerInv, PointerOK, PointsTo
  <2>2. ASSUME NEW h \in Goroutine
        PROVE  DOMAIN stack[h] = 1 .. Len(stack[h])
    <3>1. stack[h] \in Seq(AnyFrame)
      BY DEF TypeOK
    <3> QED
      BY <3>1
  <2> QED
    BY <2>1, <2>2
<1>3. \A h \in Goroutine : ToSet(stack[h]) = {stack[h][i] : i \in 1 .. Len(stack[h])}
  BY <1>2 DEF ToSet
<1>4. ToSet(kept) = {kept[i] : i \in 1 .. Len(kept)}
  BY DEF ToSet
<1>5. \A h \in Goroutine : \A i \in 1 .. Len(stack[h]) : stack[h][i].node \in F
  <2>1. ASSUME NEW h \in Goroutine, NEW i \in 1 .. Len(stack[h])
        PROVE  stack[h][i].node \in F
    <3>1. stack[h][i] \in ToSet(stack[h])
      BY <1>3
    <3> QED
      BY <3>1
  <2> QED
    BY <2>1
<1>6. F \subseteq DOMAIN heap \cup {nil}
  <2>1. ASSUME NEW h \in Goroutine, NEW f \in ToSet(stack[h])
        PROVE  f.node \in DOMAIN heap \cup {nil}
    <3>1. PICK i \in 1 .. Len(stack[h]) : f = stack[h][i]
      BY <1>3, Zenon
    <3>2. stack[h][i].node \in DOMAIN heap \cup {nil}
      BY <1>2, Zenon
    <3> QED
      BY <3>1, <3>2, Zenon
  <2> QED
    BY <2>1
<1>7. A \subseteq DOMAIN heap \cup {nil}
  BY <1>2
<1>8. \A h \in Goroutine : answer[h] # nil => answer[h].node \in A
  OBVIOUS
<1> HIDE DEF A, F
<1> QED
  BY <1>1, <1>4, <1>5, <1>6, <1>7, <1>8 DEF TypeOK

\* What a Set makes of the nodes: those in use stay as they are, and its own,
\* n, is that of the key or a fresh one.
Renewed(c, kept, n) ==
    /\ n \in Node
    /\ \A i \in 1 .. Len(kept) : kept[i] # n
    /\ nodeByKey' = [j \in Key |->
                        IF j = c.key THEN n
                        ELSE IF \E i \in 1 .. Len(kept) : kept[i] = nodeByKey[j]
                                 THEN nodeByKey[j] ELSE nil]
    /\ DOMAIN heap' = (InUse(kept) \cup {n}) \ {nil}
    /\ DOMAIN heap' \subseteq Node
    /\ \A m \in InUse(kept) \ {nil} : m \in DOMAIN heap /\ heap'[m] = heap[m]
    /\ heap'[n].key = c.key
    /\ Known(c) => n = nodeByKey[c.key] /\ n \in DOMAIN heap /\ heap'[n] = heap[n]
    /\ ~Known(c) =>
          /\ n \notin InUse(kept)
          /\ heap'[n] = [key |-> c.key, value |-> c.expiresAt, expiresAt |-> c.expiresAt]
    /\ heap' \in [DOMAIN heap' -> [key : Key, value : Time, expiresAt : Time]]

LEMMA SetNodes ==
    ASSUME TypeOK, FrameInv, LockInv, MapInv, PointerInv, OrderInv,
           NEW g \in Goroutine, Set(g)
    PROVE  /\ list' = InsertAt(Kept(Top(g).call), SetPlace(g), SetNode(g))
           /\ SetNode(g) \in Node
           /\ Renewed(Top(g).call, Kept(Top(g).call), SetNode(g))
<1> DEFINE c == Top(g).call
           kept == Kept(c)
           n == SetNode(g)
<1>1. /\ At(g, "writing") /\ c.op \in Setters /\ Exclusive(g)
      /\ Known(c) \/ NodeLeft(kept)
      /\ list' = InsertAt(kept, SetPlace(g), n)
      /\ nodeByKey' = [j \in Key |->
                          IF j = c.key THEN n
                          ELSE IF nodeByKey[j] \in ToSet(kept)
                                   THEN nodeByKey[j] ELSE nil]
      /\ heap' = [m \in (InUse(kept) \cup {n}) \ {nil} |->
                     IF m = n /\ ~Known(c)
                         THEN [key |-> c.key, value |-> c.expiresAt,
                               expiresAt |-> c.expiresAt]
                         ELSE heap[m]]
  BY Zenon DEF Set, SetNode, SetPlace
<1>0. kept = Kept(c) /\ c = Top(g).call /\ n = SetNode(g)
  OBVIOUS
<1> HIDE DEF c, kept, n
<1>2. c \in AnyCall /\ c.key \in Key /\ c.expiresAt \in Time
  BY <1>0, <1>1, SetCall
<1>3. /\ kept \in Seq(Node)
      /\ \A i \in 1 .. Len(kept) :
            kept[i] \in DOMAIN heap /\ kept[i] # nodeByKey[c.key]
  BY <1>0, <1>1, SetKept
<1>4. /\ \A i \in 1 .. Len(kept) : kept[i] \in InUse(kept)
      /\ InUse(kept) \subseteq DOMAIN heap \cup {nil}
      /\ DOMAIN heap \subseteq Node
  BY <1>0, <1>3, Used
<1>5. /\ n \in Node
      /\ Known(c) => n = nodeByKey[c.key] /\ n \in DOMAIN heap /\ heap[n].key = c.key
      /\ ~Known(c) => n \notin InUse(kept)
  <2>1. CASE Known(c)
    <3>1. n = nodeByKey[c.key] /\ n \in Node /\ \E i \in DOMAIN list : list[i] = n
      BY <1>0, <1>2, <2>1, KeptList DEF SetNode
    <3>2. n \in DOMAIN heap /\ heap[n].key = c.key
      BY <1>2, <3>1, Constants DEF MapInv
    <3> QED
      BY <2>1, <3>1, <3>2
  <2>2. CASE ~Known(c)
    <3>1. n = FreshNode(kept) /\ Node \ InUse(kept) # {}
      BY <1>0, <1>1, <2>2 DEF SetNode, NodeLeft
    <3> QED
      BY <2>2, <3>1 DEF FreshNode
  <2> QED
    BY <2>1, <2>2
<1>6. n # nil
  BY <1>5, Constants
<1>7. \A i \in 1 .. Len(kept) : kept[i] # n
  BY <1>3, <1>4, <1>5
<1>8. nodeByKey' = [j \in Key |->
                       IF j = c.key THEN n
                       ELSE IF \E i \in 1 .. Len(kept) : kept[i] = nodeByKey[j]
                                THEN nodeByKey[j] ELSE nil]
  <2>1. ToSet(kept) = {kept[i] : i \in 1 .. Len(kept)}
    BY <1>3 DEF ToSet
  <2>2. \A j : nodeByKey[j] \in ToSet(kept) <=> \E i \in 1 .. Len(kept) : kept[i] = nodeByKey[j]
    BY <2>1
  <2> QED
    BY <1>1, <2>2
<1>9. DOMAIN heap' = (InUse(kept) \cup {n}) \ {nil}
  BY <1>1
<1>10. \A m \in InUse(kept) \ {nil} : m \in DOMAIN heap /\ heap'[m] = heap[m]
  BY <1>1, <1>4, <1>5
<1>11. Known(c) => heap'[n] = heap[n]
  BY <1>1, <1>6
<1>12. ~Known(c) =>
          heap'[n] = [key |-> c.key, value |-> c.expiresAt, expiresAt |-> c.expiresAt]
  BY <1>1, <1>6
<1>13. heap'[n].key = c.key
  BY <1>5, <1>11, <1>12
<1>14. heap' \in [DOMAIN heap' -> [key : Key, value : Time, expiresAt : Time]]
  <2>1. ASSUME NEW m \in DOMAIN heap'
        PROVE  heap'[m] \in [key : Key, value : Time, expiresAt : Time]
    <3>1. CASE m = n
      <4>1. \A x \in DOMAIN heap : heap[x] \in [key : Key, value : Time, expiresAt : Time]
        BY DEF TypeOK
      <4> QED
        BY <1>2, <1>5, <1>11, <1>12, <3>1, <4>1
    <3>2. CASE m # n
      <4>1. m \in DOMAIN heap /\ heap'[m] = heap[m]
        BY <1>9, <1>10, <3>2
      <4> QED
        BY <4>1 DEF TypeOK
    <3> QED
      BY <3>1, <3>2
  <2> QED
    BY <1>1, <2>1
<1>15. DOMAIN heap' \subseteq Node
  BY <1>4, <1>5, <1>9
<1>16. Renewed(c, kept, n)
  BY <1>5, <1>7, <1>8, <1>9, <1>10, <1>11, <1>12, <1>13, <1>14, <1>15 DEF Renewed
<1> QED
  BY <1>0, <1>1, <1>5, <1>16

(***************************************************************************)
(* What each step does to the stack of its goroutine.                      *)
(***************************************************************************)

\* The lock, the map and the list, without the history.
CacheInv ==
    TypeOK /\ FrameInv /\ LockInv /\ MapInv /\ PointerInv /\ OrderInv

\* The call of g goes on, at f.
Moves(g, f) ==
    /\ f \in AnyFrame /\ FrameOK(f) /\ f.call = Top(g).call
    /\ Update(g, f)
    /\ UNCHANGED answer

LEMMA Stacked == ASSUME TypeOK PROVE stack \in Stacks
BY DEF TypeOK, Stacks

LEMMA TopFacts ==
    ASSUME CacheInv, NEW g \in Goroutine, ~Idle(g)
    PROVE  /\ Top(g) \in AnyFrame /\ FrameOK(Top(g)) /\ PointerOK(Top(g))
           /\ Len(stack[g]) \in 1 .. 2 /\ Top(g) = stack[g][Len(stack[g])]
           /\ Top(g).call \in AnyCall /\ Top(g).call.op \in Method
           /\ Top(g).node \in Node \cup {nil}
           /\ Top(g).todo \in SUBSET {"expiresAt", "value"}
           /\ answer[g] = nil
<1>1. stack \in Stacks
  BY Stacked DEF CacheInv
<1>2. Top(g) \in AnyFrame /\ Top(g) = stack[g][Len(stack[g])] /\ Len(stack[g]) \in Nat \ {0}
  BY <1>1, TopFrame
<1>3. Len(stack[g]) \in 1 .. 2 /\ answer[g] = nil
  BY <1>2 DEF CacheInv, FrameInv
<1>4. FrameOK(Top(g)) /\ PointerOK(Top(g))
  BY <1>2, <1>3 DEF CacheInv, FrameInv, PointerInv
<1>5. Top(g).call \in AnyCall
  BY <1>2 DEF AnyFrame
<1> QED
  BY <1>2, <1>3, <1>4, <1>5, AnyArguments DEF AnyFrame

LEMMA AnswerFacts ==
    ASSUME CacheInv, NEW g \in Goroutine, ~Idle(g), NEW ok \in BOOLEAN,
           NEW value \in Time \cup {nil}, NEW node \in Node \cup {nil}
    PROVE  /\ Answer(g, ok, value, node) \in AnyAnswer
           /\ Answer(g, ok, value, node).call = Top(g).call
           /\ Answer(g, ok, value, node).ok = ok
           /\ Answer(g, ok, value, node).value = value
           /\ Answer(g, ok, value, node).node = node
BY TopFacts DEF Answer, AnyAnswer

LEMMA CallRLockStep ==
    ASSUME CacheInv, NEW g \in Goroutine, CallRLock(g)
    PROVE  /\ ~Idle(g) /\ Top(g).pc = "rlock"
           /\ \E f : Moves(g, f) /\ f.pc = "reading" /\ f.node = Top(g).node
<1>1. ~Idle(g) /\ Top(g).pc = "rlock" /\ Goto(g, "reading") /\ UNCHANGED answer
  BY DEF CallRLock, At
<1> DEFINE f == [Top(g) EXCEPT !.pc = "reading"]
<1>2. Top(g) \in AnyFrame /\ FrameOK(Top(g))
  BY <1>1, TopFacts
<1>3. f \in AnyFrame /\ f.pc = "reading" /\ f.call = Top(g).call /\ f.node = Top(g).node
  BY <1>2, MovedPc DEF Places
<1>4. FrameOK(f)
  BY <1>1, <1>2, <1>3 DEF FrameOK
<1> QED
  BY <1>1, <1>3, <1>4 DEF Moves, Goto

LEMMA CallLockStep ==
    ASSUME CacheInv, NEW g \in Goroutine, CallLock(g)
    PROVE  /\ ~Idle(g) /\ Top(g).pc = "lock"
           /\ \E f : Moves(g, f) /\ f.pc = "writing" /\ f.node = Top(g).node
<1>1. ~Idle(g) /\ Top(g).pc = "lock" /\ Goto(g, "writing") /\ UNCHANGED answer
  BY DEF CallLock, At
<1> DEFINE f == [Top(g) EXCEPT !.pc = "writing"]
<1>2. Top(g) \in AnyFrame /\ FrameOK(Top(g))
  BY <1>1, TopFacts
<1>3. f \in AnyFrame /\ f.pc = "writing" /\ f.call = Top(g).call /\ f.node = Top(g).node
  BY <1>2, MovedPc DEF Places
<1>4. FrameOK(f)
  BY <1>1, <1>2, <1>3 DEF FrameOK
<1> QED
  BY <1>1, <1>3, <1>4 DEF Moves, Goto

LEMMA LookupStep ==
    ASSUME CacheInv, NEW g \in Goroutine, Lookup(g)
    PROVE  /\ ~Idle(g) /\ Top(g).pc = "reading" /\ Top(g).call.key \in Key
           /\ \/ /\ Top(g).call.op = "Contains" \/ nodeByKey[Top(g).call.key] = nil
                 /\ Return(g, Answer(g, nodeByKey[Top(g).call.key] # nil, nil, nil))
              \/ /\ nodeByKey[Top(g).call.key] # nil
                 /\ \E f : /\ Moves(g, f) /\ f.pc = "check"
                           /\ f.node = nodeByKey[f.call.key] /\ f.node \in Node
<1>1. ~Idle(g) /\ Top(g).pc = "reading" /\ Top(g).call.op \notin Iterators
  BY DEF Lookup, At
<1>2. Top(g) \in AnyFrame /\ FrameOK(Top(g)) /\ Top(g).call \in AnyCall
  BY <1>1, TopFacts
<1>3. Top(g).call.key \in Key
  <2>1. Top(g).call.op \notin Writers
    BY <1>1, <1>2 DEF FrameOK
  <2>2. Top(g).call.op \notin Iterators \cup {"Clear"}
    BY <1>1, <2>1 DEF Writers
  <2> QED
    BY <1>2, <2>2, AnyArguments
<1> DEFINE node == nodeByKey[Top(g).call.key]
           f == AtNode(Top(g), "check", node)
<1>4. \/ /\ Top(g).call.op = "Contains" \/ node = nil
         /\ Return(g, Answer(g, node # nil, nil, nil))
      \/ /\ Top(g).call.op \in Getters
         /\ node # nil
         /\ Update(g, f)
         /\ UNCHANGED answer
  BY DEF Lookup, AtNode
<1>5. node \in Node \cup {nil}
  BY <1>3 DEF CacheInv, TypeOK
<1> HIDE DEF node
<1>6. f \in AnyFrame /\ f.pc = "check" /\ f.call = Top(g).call /\ f.node = node
  <2>1. "check" \in Places
    BY Zenon DEF Places
  <2> QED
    <3>1. Top(g) \in AnyFrame
      BY <1>2, Zenon
    <3>2. IsAtNode(f, Top(g), "check", node)
      BY <1>5, <2>1, <3>1, MovedNode, Zenon
    <3> QED
      BY <3>2, Zenon DEF IsAtNode
<1>7. Top(g).call.op \in Getters => FrameOK(f)
  BY <1>1, <1>2, <1>6 DEF FrameOK
<1> HIDE DEF f
<1>8. CASE /\ Top(g).call.op \in Getters
           /\ node # nil
           /\ Update(g, f)
           /\ UNCHANGED answer
  BY <1>1, <1>3, <1>5, <1>6, <1>7, <1>8 DEF Moves, node
<1> QED
  BY <1>1, <1>3, <1>4, <1>8 DEF node

LEMMA CheckExpiryStep ==
    ASSUME CacheInv, NEW g \in Goroutine, CheckExpiry(g)
    PROVE  /\ ~Idle(g) /\ Top(g).pc = "check"
           /\ \/ /\ Expired(Top(g).node, Top(g).call.now)
                 /\ Return(g, Answer(g, FALSE, nil, nil))
              \/ /\ ~Expired(Top(g).node, Top(g).call.now)
                 /\ Top(g).call.op = "GetEntry"
                 /\ Return(g, Answer(g, TRUE, nil, Top(g).node))
              \/ /\ ~Expired(Top(g).node, Top(g).call.now)
                 /\ Top(g).call.op = "Get"
                 /\ \E f : Moves(g, f) /\ f.pc = "load" /\ f.node = Top(g).node
<1>1. ~Idle(g) /\ Top(g).pc = "check"
  BY DEF CheckExpiry, At
<1>2. Top(g) \in AnyFrame /\ FrameOK(Top(g))
  BY <1>1, TopFacts
<1> DEFINE f == [Top(g) EXCEPT !.pc = "load"]
<1>3. f \in AnyFrame /\ f.pc = "load" /\ f.call = Top(g).call /\ f.node = Top(g).node
  BY <1>2, MovedPc DEF Places
<1>4. Top(g).call.op = "Get" => FrameOK(f)
  BY <1>1, <1>2, <1>3 DEF FrameOK
<1>5. \/ /\ Expired(Top(g).node, Top(g).call.now)
         /\ Return(g, Answer(g, FALSE, nil, nil))
      \/ /\ ~Expired(Top(g).node, Top(g).call.now)
         /\ Top(g).call.op = "GetEntry"
         /\ Return(g, Answer(g, TRUE, nil, Top(g).node))
      \/ /\ ~Expired(Top(g).node, Top(g).call.now)
         /\ Top(g).call.op = "Get"
         /\ Update(g, f)
         /\ UNCHANGED answer
  BY DEF CheckExpiry, Goto
<1> QED
  BY <1>1, <1>3, <1>4, <1>5 DEF Moves

LEMMA SetStep ==
    ASSUME CacheInv, NEW g \in Goroutine, Set(g)
    PROVE  /\ ~Idle(g) /\ Top(g).pc = "writing"
           /\ \E f : /\ Moves(g, f) /\ f.pc = "assign" /\ f.node = SetNode(g)
                     /\ f.todo = IF Known(Top(g).call) THEN {"expiresAt", "value"} ELSE {}
<1>1. ~Idle(g) /\ Top(g).pc = "writing" /\ Top(g).call.op \in Setters
  BY DEF Set, At
<1>2. Top(g) \in AnyFrame /\ FrameOK(Top(g))
  BY <1>1, TopFacts
<1> DEFINE todo == IF Known(Top(g).call) THEN {"expiresAt", "value"} ELSE {}
           f == [Top(g) EXCEPT !.pc = "assign", !.node = SetNode(g), !.todo = todo]
<1>3. Update(g, f) /\ UNCHANGED answer
  BY Zenon DEF Set, SetNode
<1>4. SetNode(g) \in Node
  BY SetNodes DEF CacheInv
<1>5. todo \in SUBSET {"expiresAt", "value"}
  OBVIOUS
<1> HIDE DEF todo
<1>6. /\ f \in AnyFrame /\ f.pc = "assign" /\ f.call = Top(g).call
      /\ f.node = SetNode(g) /\ f.todo = todo
  <2>1. "assign" \in Places /\ SetNode(g) \in Node \cup {nil}
    BY <1>4 DEF Places
  <2> DEFINE top == Top(g)
             node == SetNode(g)
  <2>2. top \in AnyFrame /\ node \in Node \cup {nil}
    BY <1>2, <2>1
  <2> HIDE DEF top, node
  <2>3. LET e == [top EXCEPT !.pc = "assign", !.node = node, !.todo = todo]
        IN  /\ e \in AnyFrame /\ e.pc = "assign" /\ e.call = top.call
            /\ e.node = node /\ e.todo = todo
    BY <1>5, <2>1, <2>2 DEF AnyFrame, Places
  <2> QED
    BY <2>3 DEF top, node
<1>7. FrameOK(f)
  BY <1>1, <1>2, <1>6 DEF FrameOK, Writers, Setters, Iterators
<1> QED
  BY <1>1, <1>3, <1>6, <1>7 DEF Moves, todo

LEMMA AssignStep ==
    ASSUME CacheInv, NEW g \in Goroutine, NEW field, Assign(g, field)
    PROVE  /\ ~Idle(g) /\ Top(g).pc = "assign" /\ field \in Top(g).todo
           /\ Top(g).call.expiresAt \in Time
           /\ \E f : /\ Moves(g, f) /\ f.pc = "assign" /\ f.node = Top(g).node
                     /\ f.todo = Top(g).todo \ {field}
<1>1. ~Idle(g) /\ Top(g).pc = "assign" /\ field \in Top(g).todo
  BY DEF Assign, At
<1>2. /\ Top(g) \in AnyFrame /\ FrameOK(Top(g)) /\ Top(g).call \in AnyCall
      /\ Top(g).todo \ {field} \in SUBSET {"expiresAt", "value"}
  BY <1>1, TopFacts
<1> DEFINE todo == Top(g).todo \ {field}
           f == [Top(g) EXCEPT !.todo = todo]
<1>3. Update(g, f) /\ UNCHANGED answer /\ todo \in SUBSET {"expiresAt", "value"}
  BY <1>2 DEF Assign
<1> HIDE DEF todo
<1>4. /\ f \in AnyFrame /\ f.pc = Top(g).pc /\ f.call = Top(g).call
      /\ f.node = Top(g).node /\ f.todo = todo
  BY <1>2, <1>3, LessTodo
<1>5. FrameOK(f)
  BY <1>2, <1>4 DEF FrameOK
<1>6. Top(g).call.expiresAt \in Time
  BY <1>1, <1>2, AnyArguments DEF FrameOK
<1> QED
  BY <1>1, <1>3, <1>4, <1>5, <1>6 DEF Moves, todo

\* Either order of the loop visits the nodes of the list.
LEMMA OrderNodes ==
    ASSUME TypeOK, NEW op
    PROVE  /\ Order(op) \in Seq(Node) /\ Len(Order(op)) = Len(list)
           /\ \A i \in 1 .. Len(list) : \E j \in DOMAIN list : list[j] = Order(op)[i]
           /\ \A j \in DOMAIN list : \E i \in DOMAIN Order(op) : Order(op)[i] = list[j]
<1>1. list \in Seq(Node) /\ Len(list) \in Nat /\ DOMAIN list = 1 .. Len(list)
  BY DEF TypeOK
<1>2. CASE op = "All"
  BY <1>1, <1>2 DEF Order
<1>3. CASE op # "All"
  <2> DEFINE r == Reverse(list)
  <2>1. r = [i \in 1 .. Len(list) |-> list[Len(list) - i + 1]]
    BY DEF Reverse
  <2>2. \A i \in 1 .. Len(list) :
           /\ Len(list) - i + 1 \in 1 .. Len(list)
           /\ Len(list) - (Len(list) - i + 1) + 1 = i
    BY <1>1
  <2>3. \A i \in 1 .. Len(list) : list[Len(list) - i + 1] \in Node
    BY <1>1, <2>2
  <2>4. r \in Seq(Node) /\ Len(r) = Len(list) /\ DOMAIN r = 1 .. Len(list)
    BY <1>1, <2>1, <2>3
  <2>5. \A i \in 1 .. Len(list) : \E j \in DOMAIN list : list[j] = r[i]
    BY <1>1, <2>1, <2>2
  <2>6. \A j \in DOMAIN list : \E i \in DOMAIN r : r[i] = list[j]
    <3>1. ASSUME NEW j \in DOMAIN list
          PROVE  \E i \in DOMAIN r : r[i] = list[j]
      <4>1. Len(list) - j + 1 \in DOMAIN r /\ r[Len(list) - j + 1] = list[j]
        BY <1>1, <2>1, <2>2, <2>4
      <4> QED
        BY <4>1
    <3> QED
      BY <3>1
  <2>7. Order(op) = r
    BY <1>3 DEF Order
  <2> HIDE DEF r
  <2> QED
    BY <2>4, <2>5, <2>6, <2>7
<1> QED
  BY <1>2, <1>3

\* The loop moves to a node of the list, or ends.
LoopStep(g) ==
    \/ RUnlock(g) /\ Return(g, nil)
    \/ /\ UNCHANGED lockVars
       /\ \E f : /\ Moves(g, f) /\ f.pc = "yield"
                 /\ \E j \in DOMAIN list : list[j] = f.node

LEMMA LoopAtStep ==
    ASSUME CacheInv, NEW g \in Goroutine, ~Idle(g), Top(g).call.op \in Iterators,
           NEW nodes \in Seq(Node),
           \A i \in 1 .. Len(nodes) : \E j \in DOMAIN list : list[j] = nodes[i],
           LoopAt(g, nodes)
    PROVE  LoopStep(g)
<1>1. CASE nodes = <<>>
  BY <1>1 DEF LoopAt, LoopStep
<1>2. CASE nodes # <<>>
  <2> DEFINE f == [Top(g) EXCEPT !.pc = "yield", !.node = Head(nodes)]
  <2>1. Update(g, f) /\ UNCHANGED <<lockVars, answer>>
    BY <1>2 DEF LoopAt
  <2>2. Head(nodes) \in Node /\ \E j \in DOMAIN list : list[j] = Head(nodes)
    <3>1. 1 \in 1 .. Len(nodes) /\ Head(nodes) = nodes[1] /\ nodes[1] \in Node
      BY <1>2
    <3> QED
      BY <3>1
  <2>3. Top(g) \in AnyFrame /\ FrameOK(Top(g))
    BY TopFacts
  <2>4. f \in AnyFrame /\ f.pc = "yield" /\ f.call = Top(g).call /\ f.node = Head(nodes)
    BY <2>2, <2>3 DEF AnyFrame
  <2>5. FrameOK(f)
    BY <2>3, <2>4 DEF FrameOK, Writers, Setters, Iterators
  <2> HIDE DEF f
  <2> QED
    BY <2>1, <2>2, <2>4, <2>5 DEF LoopStep, Moves
<1> QED
  BY <1>1, <1>2

LEMMA StartLoopStep ==
    ASSUME CacheInv, NEW g \in Goroutine, StartLoop(g)
    PROVE  /\ ~Idle(g) /\ Top(g).pc = "reading" /\ Granted(g)
           /\ LoopStep(g)
<1>1. /\ ~Idle(g) /\ Top(g).pc = "reading" /\ Top(g).call.op \in Iterators
      /\ Granted(g) /\ LoopAt(g, Order(Top(g).call.op))
  BY DEF StartLoop, At
<1>2. /\ Order(Top(g).call.op) \in Seq(Node)
      /\ \A i \in 1 .. Len(Order(Top(g).call.op)) :
            \E j \in DOMAIN list : list[j] = Order(Top(g).call.op)[i]
  BY OrderNodes DEF CacheInv
<1> QED
  BY <1>1, <1>2, LoopAtStep

LEMMA AdvanceStep ==
    ASSUME CacheInv, NEW g \in Goroutine, Advance(g)
    PROVE  /\ ~Idle(g) /\ Top(g).pc = "next"
           /\ LoopStep(g)
<1> DEFINE nodes == Order(Top(g).call.op)
           p == Where(nodes, Top(g).node)
           rest == SubSeq(nodes, p + 1, Len(nodes))
<1>1. ~Idle(g) /\ Top(g).pc = "next" /\ LoopAt(g, rest)
  BY DEF Advance, At
<1>2. FrameOK(Top(g)) /\ PointerOK(Top(g))
  BY <1>1, TopFacts
<1>3. Top(g).call.op \in Iterators /\ \E j \in DOMAIN list : list[j] = Top(g).node
  BY <1>1, <1>2 DEF FrameOK, PointerOK
<1>4. /\ nodes \in Seq(Node) /\ Len(nodes) = Len(list)
      /\ \A i \in 1 .. Len(list) : \E j \in DOMAIN list : list[j] = nodes[i]
      /\ \A j \in DOMAIN list : \E i \in DOMAIN nodes : nodes[i] = list[j]
  BY OrderNodes DEF CacheInv
<1> HIDE DEF nodes
<1>5. p \in DOMAIN nodes
  BY <1>3, <1>4, Found
<1> HIDE DEF p
<1>6. p \in 0 .. Len(nodes) /\ Len(nodes) \in Nat
  BY <1>4, <1>5
<1>7. /\ rest \in Seq(Node) /\ Len(rest) = Len(nodes) - p
      /\ \A i \in 1 .. Len(nodes) - p : rest[i] = nodes[p + i]
  BY <1>4, <1>6, EndOf
<1>8. ASSUME NEW i \in 1 .. Len(rest)
      PROVE  \E j \in DOMAIN list : list[j] = rest[i]
  <2>1. p + i \in 1 .. Len(list) /\ rest[i] = nodes[p + i]
    BY <1>4, <1>6, <1>7
  <2> QED
    BY <1>4, <2>1
<1> HIDE DEF rest
<1> QED
  BY <1>1, <1>3, <1>7, <1>8, LoopAtStep

LEMMA BodyStep ==
    ASSUME CacheInv, NEW g \in Goroutine, Body(g)
    PROVE  /\ ~Idle(g) /\ Top(g).pc = "yield"
           /\ \E f : Moves(g, f) /\ f.pc = "next" /\ f.node = Top(g).node
<1>1. ~Idle(g) /\ Top(g).pc = "yield" /\ Goto(g, "next") /\ UNCHANGED answer
  BY DEF Body, At
<1> DEFINE f == [Top(g) EXCEPT !.pc = "next"]
<1>2. Top(g) \in AnyFrame /\ FrameOK(Top(g))
  BY <1>1, TopFacts
<1>3. f \in AnyFrame /\ f.pc = "next" /\ f.call = Top(g).call /\ f.node = Top(g).node
  BY <1>2, MovedPc DEF Places
<1>4. FrameOK(f)
  BY <1>1, <1>2, <1>3 DEF FrameOK
<1> QED
  BY <1>1, <1>3, <1>4 DEF Moves, Goto

LEMMA LoadValueStep ==
    ASSUME CacheInv, NEW g \in Goroutine, LoadValue(g)
    PROVE  /\ ~Idle(g) /\ Top(g).pc = "load"
           /\ heap[Top(g).node].value \in Time
           /\ Return(g, Answer(g, TRUE, heap[Top(g).node].value, nil))
<1>1. /\ ~Idle(g) /\ Top(g).pc = "load"
      /\ Return(g, Answer(g, TRUE, heap[Top(g).node].value, nil))
  BY DEF LoadValue, At
<1>2. PointerOK(Top(g))
  BY <1>1, TopFacts
<1>3. Top(g).node \in DOMAIN heap
  BY <1>1, <1>2 DEF PointerOK, PointsTo
<1>4. \A m \in DOMAIN heap : heap[m] \in [key : Key, value : Time, expiresAt : Time]
  BY DEF CacheInv, TypeOK
<1>5. heap[Top(g).node].value \in Time
  BY <1>3, <1>4
<1> QED
  BY <1>1, <1>5

\* A step of a call in progress changes its frame, ends it, or calls the
\* cache from the body of a loop.
LEMMA StepKinds ==
    ASSUME CacheInv, NEW g \in Goroutine, Step(g) \/ CallLock(g)
    PROVE  /\ ~Idle(g)
           /\ \/ \E f : Moves(g, f)
              \/ \E a \in AnyAnswer \cup {nil} : Return(g, a)
              \/ \E op \in InLoop : \E c \in Call(op) : BodyCall(g, c)
<1>1. CASE CallRLock(g)
  BY <1>1, CallRLockStep
<1>2. CASE Lookup(g)
  <2>1. ~Idle(g)
    BY <1>2, LookupStep
  <2>2. Answer(g, nodeByKey[Top(g).call.key] # nil, nil, nil) \in AnyAnswer
    BY <2>1, AnswerFacts
  <2> QED
    BY <1>2, <2>1, <2>2, LookupStep
<1>3. CASE CheckExpiry(g)
  <2>1. ~Idle(g)
    BY <1>3, CheckExpiryStep
  <2>2. Top(g).node \in Node \cup {nil}
    BY <2>1, TopFacts
  <2>3. Answer(g, FALSE, nil, nil) \in AnyAnswer
    BY <2>1, AnswerFacts
  <2>4. Answer(g, TRUE, nil, Top(g).node) \in AnyAnswer
    BY <2>1, <2>2, AnswerFacts
  <2> QED
    BY <1>3, <2>1, <2>3, <2>4, CheckExpiryStep
<1>4. CASE LoadValue(g)
  <2>1. /\ ~Idle(g) /\ heap[Top(g).node].value \in Time
        /\ Return(g, Answer(g, TRUE, heap[Top(g).node].value, nil))
    BY <1>4, LoadValueStep
  <2>2. Answer(g, TRUE, heap[Top(g).node].value, nil) \in AnyAnswer
    BY <2>1, AnswerFacts
  <2> QED
    BY <2>1, <2>2
<1>5. CASE TryContains(g)
  <2> DEFINE ok == writer = nil /\ nodeByKey[Top(g).call.key] # nil
  <2>1. ~Idle(g) /\ Return(g, Answer(g, ok, nil, nil))
    BY <1>5 DEF TryContains, At
  <2>2. Answer(g, ok, nil, nil) \in AnyAnswer
    BY <2>1, AnswerFacts
  <2> QED
    BY <2>1, <2>2
<1>6. CASE CallLock(g)
  BY <1>6, CallLockStep
<1>7. CASE Set(g)
  BY <1>7, SetStep
<1>8. ASSUME NEW field \in {"expiresAt", "value"}, Assign(g, field)
      PROVE  ~Idle(g) /\ \E f : Moves(g, f)
  BY <1>8, AssignStep
<1>9. CASE FinishSet(g) \/ RemoveKey(g) \/ Clear(g) \/ Break(g)
  BY <1>9 DEF FinishSet, RemoveKey, Clear, Break, At
<1>10. CASE StartLoop(g) \/ Advance(g)
  BY <1>10, StartLoopStep, AdvanceStep DEF LoopStep
<1>11. CASE Body(g)
  BY <1>11, BodyStep
<1>12. ASSUME NEW op \in InLoop, NEW c \in Call(op), BodyCall(g, c)
       PROVE  ~Idle(g)
  BY <1>12 DEF BodyCall, At
<1> QED
  BY <1>1, <1>2, <1>3, <1>4, <1>5, <1>6, <1>7, <1>8, <1>9, <1>10, <1>11, <1>12 DEF Step

\* Stacks, frames and answers after any step.
LEMMA StackStep ==
    ASSUME CacheInv, [Next]_vars
    PROVE  /\ stack' \in [Goroutine -> Seq(AnyFrame)]
           /\ answer' \in [Goroutine -> AnyAnswer \cup {nil}]
           /\ FrameInv'
<1>0. stack \in Stacks /\ answer \in [Goroutine -> AnyAnswer \cup {nil}] /\ FrameInv
  BY Stacked DEF CacheInv, TypeOK
<1>1. ASSUME NEW g \in Goroutine, NEW op \in Operation, NEW c \in Call(op), Begin(g, c)
      PROVE  stack' \in Stacks /\ answer' \in [Goroutine -> AnyAnswer \cup {nil}] /\ FrameInv'
  <2>1. c \in AnyCall
    BY Constants, Arguments
  <2>2. /\ stack' \in Stacks
        /\ Len(stack'[g]) = 1 /\ stack'[g][1] = Frame(c)
        /\ \A h \in Goroutine : h # g => stack'[h] = stack[h] /\ (Idle(h))' = Idle(h)
    BY <1>0, <1>1, <2>1, Begun
  <2>3. FrameOK(Frame(c))
    BY <2>1, NewFrame
  <2>4. answer' = [answer EXCEPT ![g] = nil]
    BY <1>1 DEF Begin
  <2>5. answer'[g] = nil /\ \A h \in Goroutine : h # g => answer'[h] = answer[h]
    BY <1>0, <2>4
  <2>6. answer' \in [Goroutine -> AnyAnswer \cup {nil}]
    BY <1>0, <2>4
  <2>7. ASSUME NEW i \in 1 .. Len(stack'[g])
        PROVE  FrameOK(stack'[g][i])
    BY <2>2, <2>3
  <2> QED
    BY <1>0, <2>2, <2>5, <2>6, <2>7 DEF FrameInv
<1>2. ASSUME NEW g \in Goroutine, NEW op \in InLoop, NEW c \in Call(op), BodyCall(g, c)
      PROVE  stack' \in Stacks /\ answer' \in [Goroutine -> AnyAnswer \cup {nil}] /\ FrameInv'
  <2>1. c \in AnyCall /\ c.op \notin Writers
    BY Constants, Arguments
  <2>2. /\ stack' \in Stacks
        /\ Len(stack[g]) = 1 /\ stack[g][1] = Top(g)
        /\ Len(stack'[g]) = 2
        /\ stack'[g][1] = [Top(g) EXCEPT !.pc = "next"]
        /\ stack'[g][2] = Frame(c)
        /\ \A h \in Goroutine : h # g => stack'[h] = stack[h] /\ (Idle(h))' = Idle(h)
    BY <1>0, <1>2, <2>1, BodyCalled
  <2>3. ~Idle(g) /\ Top(g).pc = "yield" /\ answer' = answer
    BY <1>2 DEF BodyCall, At
  <2>4. Top(g) \in AnyFrame /\ FrameOK(Top(g)) /\ answer[g] = nil
    BY <2>3, TopFacts
  <2>5. stack'[g][1].pc = "next" /\ stack'[g][1].call = Top(g).call
    BY <2>2, <2>4, MovedPc DEF Places
  <2>6. FrameOK(stack'[g][1])
    BY <2>3, <2>4, <2>5 DEF FrameOK
  <2>7. FrameOK(stack'[g][2]) /\ stack'[g][2].call.op \notin Writers
    BY <2>1, <2>2, NewFrame
  <2>8. ASSUME NEW i \in 1 .. Len(stack'[g])
        PROVE  FrameOK(stack'[g][i])
    <3>1. i = 1 \/ i = 2
      BY <2>2
    <3> QED
      BY <2>6, <2>7, <3>1
  <2> QED
    <3>1. ASSUME NEW h \in Goroutine
          PROVE  /\ Len(stack'[h]) \in 0 .. 2
                 /\ \A i \in 1 .. Len(stack'[h]) : FrameOK(stack'[h][i])
                 /\ Len(stack'[h]) = 2 =>
                       stack'[h][1].pc = "next" /\ stack'[h][2].call.op \notin Writers
                 /\ answer'[h] # nil => (Idle(h))'
      <4>1. CASE h = g
        <5>1. /\ Len(stack'[g]) \in 0 .. 2
              /\ stack'[g][1].pc = "next" /\ stack'[g][2].call.op \notin Writers
              /\ answer'[g] = nil
          BY <2>2, <2>3, <2>4, <2>5, <2>7
        <5> QED
          BY <2>8, <4>1, <5>1
      <4>2. CASE h # g
        BY <1>0, <2>2, <2>3, <4>2 DEF FrameInv
      <4> QED
        BY <4>1, <4>2
    <3> QED
      BY <1>0, <2>2, <2>3, <3>1 DEF FrameInv
<1>3. ASSUME NEW g \in Goroutine, ~Idle(g), NEW a \in AnyAnswer \cup {nil}, Return(g, a)
      PROVE  stack' \in Stacks /\ answer' \in [Goroutine -> AnyAnswer \cup {nil}] /\ FrameInv'
  <2>1. FrameInv'
    BY <1>0, <1>3, FramesReturned
  <2>2. /\ stack' \in Stacks
        /\ answer' = IF Len(stack[g]) = 1 THEN [answer EXCEPT ![g] = a] ELSE answer
    BY <1>0, <1>3, Returned
  <2>3. answer' \in [Goroutine -> AnyAnswer \cup {nil}]
    <3>1. [answer EXCEPT ![g] = a] \in [Goroutine -> AnyAnswer \cup {nil}]
      BY <1>0
    <3> QED
      BY <1>0, <2>2, <3>1
  <2> QED
    BY <2>1, <2>2, <2>3
<1>4. ASSUME NEW g \in Goroutine, ~Idle(g), NEW f, Moves(g, f)
      PROVE  stack' \in Stacks /\ answer' \in [Goroutine -> AnyAnswer \cup {nil}] /\ FrameInv'
  <2>1. /\ f \in AnyFrame /\ FrameOK(f) /\ f.call.op = Top(g).call.op
        /\ Update(g, f) /\ UNCHANGED answer
    BY <1>4 DEF Moves
  <2>2. FrameInv'
    BY <1>0, <1>4, <2>1, FramesUpdated
  <2>3. stack' \in Stacks
    BY <1>0, <1>4, <2>1, Updated
  <2> QED
    BY <1>0, <2>1, <2>2, <2>3
<1>5. CASE UNCHANGED vars
  <2>1. stack' = stack /\ answer' = answer
    BY <1>5 DEF vars
  <2>2. \A h \in Goroutine : (Idle(h))' = Idle(h)
    BY <2>1 DEF Idle
  <2>3. FrameInv'
    BY <1>0, <2>1, <2>2 DEF FrameInv
  <2> QED
    BY <1>0, <2>1, <2>3 DEF Stacks
<1>6. ASSUME NEW g \in Goroutine, Step(g) \/ CallLock(g)
      PROVE  stack' \in Stacks /\ answer' \in [Goroutine -> AnyAnswer \cup {nil}] /\ FrameInv'
  BY <1>2, <1>3, <1>4, <1>6, StepKinds
<1> QED
  BY <1>1, <1>5, <1>6 DEF Next, Stacks

(***************************************************************************)
(* The lock.                                                               *)
(***************************************************************************)

\* Places at which a call has been let in to read.
Inside(g, pc) == pc \in {"yield", "next"} \/ (pc = "reading" /\ Granted(g))

LEMMA HeldNow ==
    ASSUME NEW g \in Goroutine, ~Idle(g)
    PROVE  Held(g) = (IF Len(stack[g]) = 2 THEN 1 ELSE 0)
                         + (IF Inside(g, Top(g).pc) THEN 1 ELSE 0)
<1>1. Reading(g) <=> Inside(g, Top(g).pc)
  BY DEF Reading, Inside, At
<1> QED
  BY <1>1 DEF Held

LEMMA HeldMoved ==
    ASSUME CacheInv, NEW g \in Goroutine, ~Idle(g), NEW f, Moves(g, f)
    PROVE  /\ (Held(g))' = (IF Len(stack[g]) = 2 THEN 1 ELSE 0)
                               + (IF (Inside(g, f.pc))' THEN 1 ELSE 0)
           /\ \A pc : (At(g, pc))' <=> f.pc = pc
           /\ \A h \in Goroutine : h # g => stack'[h] = stack[h]
<1>1. stack \in Stacks /\ f \in AnyFrame /\ Update(g, f)
  BY Stacked DEF CacheInv, Moves
<1>2. \A pc : (At(g, pc))' <=> f.pc = pc
  BY <1>1, AtUpdated
<1>3. Len(stack'[g]) = Len(stack[g]) /\ \A h \in Goroutine : h # g => stack'[h] = stack[h]
  BY <1>1, Updated
<1>4. (Reading(g))' <=> (Inside(g, f.pc))'
  BY <1>2 DEF Reading, Inside
<1> QED
  BY <1>2, <1>3, <1>4 DEF Held

LEMMA HeldReturned ==
    ASSUME CacheInv, NEW g \in Goroutine, ~Idle(g), \E a : Return(g, a)
    PROVE  /\ (Held(g))' = IF Len(stack[g]) = 2 THEN 1 ELSE 0
           /\ \A pc : (At(g, pc))' => pc = "next"
           /\ \A h \in Goroutine : h # g => stack'[h] = stack[h]
<1>1. PICK a : Return(g, a)
  OBVIOUS
<1>2. stack \in Stacks /\ FrameInv
  BY Stacked DEF CacheInv
<1>3. \A pc : (At(g, pc))' <=> Len(stack[g]) = 2 /\ pc = "next"
  BY <1>1, <1>2, AtReturned
<1>4. /\ Len(stack'[g]) = Len(stack[g]) - 1
      /\ \A h \in Goroutine : h # g => stack'[h] = stack[h]
  BY <1>1, <1>2, Returned
<1>5. Len(stack[g]) \in 1 .. 2
  BY TopFacts
<1>6. Len(stack'[g]) # 2
  <2>1. \A k \in 1 .. 2 : k - 1 # 2
    OBVIOUS
  <2> QED
    BY <1>4, <1>5, <2>1
<1>7. (Reading(g))' <=> Len(stack[g]) = 2
  BY <1>3 DEF Reading
<1> QED
  BY <1>3, <1>4, <1>6, <1>7 DEF Held

LEMMA HeldOther ==
    ASSUME NEW h \in Goroutine, stack'[h] = stack[h], h \in waiting' <=> h \in waiting
    PROVE  (Held(h))' = Held(h)
<1>1. \A pc : (At(h, pc))' <=> At(h, pc)
  BY DEF At, Idle, Top
<1>2. (Granted(h))' <=> Granted(h)
  BY DEF Granted
<1>3. (Reading(h))' <=> Reading(h)
  BY <1>1, <1>2 DEF Reading
<1> QED
  BY <1>3 DEF Held

\* What a step of g has to see to, so that the lock knows what all calls have
\* asked of it.
LEMMA LockKept ==
    ASSUME CacheInv, NEW g \in Goroutine,
           LockTypeOK',
           \A h \in Goroutine \ {g} :
              /\ stack'[h] = stack[h] /\ holds'[h] = holds[h]
              /\ h \in waiting' <=> h \in waiting
              /\ writer' = h <=> writer = h
              /\ At(h, "assign") => holds'[g] = 0,
           holds'[g] = (Held(g))',
           g \in waiting' => (At(g, "reading"))',
           waiting' # {} => writer' # nil,
           writer' = g <=> (At(g, "writing"))' \/ (At(g, "assign"))',
           (At(g, "assign"))' => \A h \in Goroutine : holds'[h] = 0
    PROVE  LockTypeOK' /\ LockInv'
<1>1. \A h \in Goroutine \ {g} : \A pc : (At(h, pc))' <=> At(h, pc)
  BY DEF At, Idle, Top
<1>2. ASSUME NEW h \in Goroutine
      PROVE  holds'[h] = (Held(h))'
  <2>1. CASE h = g
    BY <2>1
  <2>2. CASE h # g
    BY <2>2, HeldOther DEF CacheInv, LockInv
  <2> QED
    BY <2>1, <2>2
<1>3. ASSUME NEW h \in waiting'
      PROVE  (At(h, "reading"))' /\ writer' # nil
  <2>1. h \in Goroutine
    BY DEF LockTypeOK
  <2>2. h # g => At(h, "reading")
    BY <2>1 DEF CacheInv, LockInv
  <2> QED
    BY <1>1, <2>1, <2>2
<1>4. ASSUME NEW h \in Goroutine
      PROVE  writer' = h <=> (At(h, "writing"))' \/ (At(h, "assign"))'
  <2>1. CASE h = g
    BY <2>1
  <2>2. CASE h # g
    BY <1>1, <2>2 DEF CacheInv, LockInv
  <2> QED
    BY <2>1, <2>2
<1>5. ASSUME NEW i \in Goroutine, NEW h \in Goroutine, (At(i, "assign"))'
      PROVE  holds'[h] = 0
  <2>1. CASE i = g
    BY <1>5, <2>1
  <2>2. CASE i # g
    <3>1. At(i, "assign")
      BY <1>1, <1>5, <2>2
    <3>2. h # g => holds[h] = 0
      BY <3>1 DEF CacheInv, LockInv
    <3> QED
      BY <2>2, <3>1, <3>2
  <2> QED
    BY <2>1, <2>2
<1> QED
  BY <1>2, <1>3, <1>4, <1>5 DEF LockInv

\* A call goes on without the lock, reads on, or writes on.
LEMMA LockMoved ==
    ASSUME CacheInv, NEW g \in Goroutine, ~Idle(g), NEW f, Moves(g, f),
           UNCHANGED lockVars,
           Inside(g, f.pc) <=> Inside(g, Top(g).pc),
           g \notin waiting,
           f.pc \in {"writing", "assign"} <=> Top(g).pc \in {"writing", "assign"},
           f.pc = "assign" => \A h \in Goroutine : holds[h] = 0
    PROVE  LockTypeOK' /\ LockInv'
<1>1. holds' = holds /\ waiting' = waiting /\ writer' = writer
  BY DEF lockVars
<1>2. LockTypeOK /\ LockInv
  BY DEF CacheInv, TypeOK
<1>3. LockTypeOK'
  BY <1>1, <1>2 DEF LockTypeOK
<1>4. /\ (Held(g))' = (IF Len(stack[g]) = 2 THEN 1 ELSE 0)
                          + (IF (Inside(g, f.pc))' THEN 1 ELSE 0)
      /\ \A pc : (At(g, pc))' <=> f.pc = pc
      /\ \A h \in Goroutine : h # g => stack'[h] = stack[h]
  BY HeldMoved
<1>5. (Inside(g, f.pc))' <=> Inside(g, f.pc)
  BY <1>1 DEF Inside, Granted
<1>6. holds'[g] = (Held(g))'
  BY <1>1, <1>2, <1>4, <1>5, HeldNow DEF LockInv
<1>7. \A h \in Goroutine : At(h, "assign") => holds'[g] = 0
  BY <1>1, <1>2 DEF LockInv
<1>8. writer' = g <=> (At(g, "writing"))' \/ (At(g, "assign"))'
  BY <1>1, <1>2, <1>4 DEF LockInv, At
<1>9. waiting' # {} => writer' # nil
  BY <1>1, <1>2 DEF LockInv
<1>10. (At(g, "assign"))' => \A h \in Goroutine : holds'[h] = 0
  BY <1>1, <1>4
<1> QED
  BY <1>1, <1>3, <1>4, <1>6, <1>7, <1>8, <1>9, <1>10, LockKept

\* A call that does not hold the lock ends.
LEMMA LockReturned ==
    ASSUME CacheInv, NEW g \in Goroutine, ~Idle(g), \E a : Return(g, a),
           UNCHANGED lockVars,
           Top(g).pc \in {"check", "load", "try"}
    PROVE  LockTypeOK' /\ LockInv'
<1>1. holds' = holds /\ waiting' = waiting /\ writer' = writer
  BY DEF lockVars
<1>2. LockTypeOK /\ LockInv
  BY DEF CacheInv, TypeOK
<1>3. LockTypeOK'
  BY <1>1, <1>2 DEF LockTypeOK
<1>4. /\ (Held(g))' = IF Len(stack[g]) = 2 THEN 1 ELSE 0
      /\ \A pc : (At(g, pc))' => pc = "next"
      /\ \A h \in Goroutine : h # g => stack'[h] = stack[h]
  BY HeldReturned
<1>5. holds'[g] = (Held(g))'
  <2>1. ~Inside(g, Top(g).pc)
    BY DEF Inside
  <2> QED
    BY <1>1, <1>2, <1>4, <2>1, HeldNow DEF LockInv
<1>6. \A h \in Goroutine : At(h, "assign") => holds'[g] = 0
  BY <1>1, <1>2 DEF LockInv
<1>7. writer' # g /\ g \notin waiting'
  BY <1>1, <1>2 DEF LockInv, At
<1>8. waiting' # {} => writer' # nil
  BY <1>1, <1>2 DEF LockInv
<1>9. ~(At(g, "writing"))' /\ ~(At(g, "assign"))'
  BY <1>4
<1> QED
  BY <1>1, <1>3, <1>4, <1>5, <1>6, <1>7, <1>8, <1>9, LockKept

\* The call of g ends and gives its read lock back, or goes on without it.
LEMMA LockGivenBack ==
    ASSUME CacheInv, NEW g \in Goroutine, ~Idle(g), RUnlock(g),
           Inside(g, Top(g).pc),
           \/ \E a : Return(g, a)
           \/ \E f : Moves(g, f) /\ f.pc = "check"
    PROVE  LockTypeOK' /\ LockInv'
<1>1. holds' = [holds EXCEPT ![g] = @ - 1] /\ waiting' = waiting /\ writer' = writer
  BY DEF RUnlock
<1>2. LockTypeOK /\ LockInv
  BY DEF CacheInv, TypeOK
<1>3. holds[g] = (IF Len(stack[g]) = 2 THEN 1 ELSE 0) + 1
  BY <1>2, HeldNow DEF LockInv
<1>4. /\ holds'[g] = IF Len(stack[g]) = 2 THEN 1 ELSE 0
      /\ \A h \in Goroutine \ {g} : holds'[h] = holds[h]
      /\ holds' \in [Goroutine -> Nat]
  <2>1. holds \in [Goroutine -> Nat] /\ holds[g] - 1 \in Nat
    BY <1>2, <1>3 DEF LockTypeOK
  <2> QED
    BY <1>1, <1>3, <2>1
<1>5. LockTypeOK'
  BY <1>1, <1>2, <1>4 DEF LockTypeOK
<1>6. \A h \in Goroutine : ~At(h, "assign")
  BY <1>2, <1>3 DEF LockInv
<1>7. /\ (Held(g))' = IF Len(stack[g]) = 2 THEN 1 ELSE 0
      /\ ~(At(g, "writing"))' /\ ~(At(g, "assign"))'
      /\ \A h \in Goroutine : h # g => stack'[h] = stack[h]
  <2>1. CASE \E a : Return(g, a)
    BY <2>1, HeldReturned
  <2>2. ASSUME NEW f, Moves(g, f), f.pc = "check"
        PROVE  /\ (Held(g))' = IF Len(stack[g]) = 2 THEN 1 ELSE 0
               /\ ~(At(g, "writing"))' /\ ~(At(g, "assign"))'
               /\ \A h \in Goroutine : h # g => stack'[h] = stack[h]
    <3>1. ~(Inside(g, f.pc))'
      BY <2>2 DEF Inside
    <3> QED
      BY <2>2, <3>1, HeldMoved
  <2> QED
    BY <2>1, <2>2
<1>8. writer' # g /\ g \notin waiting'
  <2>1. ~At(g, "writing") /\ ~At(g, "assign")
    BY DEF Inside, At
  <2>2. g \notin waiting
    BY <1>2 DEF Inside, LockInv, At, Granted
  <2> QED
    BY <1>1, <1>2, <2>1, <2>2 DEF LockInv
<1>9. waiting' # {} => writer' # nil
  BY <1>1, <1>2 DEF LockInv
<1> QED
  BY <1>1, <1>4, <1>5, <1>6, <1>7, <1>8, <1>9, LockKept

\* A writer that ends lets in the readers that wait.
LEMMA LockReleased ==
    ASSUME CacheInv, NEW g \in Goroutine, ~Idle(g), Unlock, \E a : Return(g, a),
           Top(g).pc \in {"writing", "assign"}
    PROVE  LockTypeOK' /\ LockInv'
<1>1. /\ writer' = nil /\ waiting' = {}
      /\ holds' = [h \in Goroutine |-> IF h \in waiting THEN holds[h] + 1 ELSE holds[h]]
  BY DEF Unlock
<1>2. LockTypeOK /\ LockInv
  BY DEF CacheInv, TypeOK
<1>3. LockTypeOK'
  BY <1>1, <1>2 DEF LockTypeOK
<1>4. writer = g
  BY <1>2 DEF LockInv, At
<1>5. /\ (Held(g))' = IF Len(stack[g]) = 2 THEN 1 ELSE 0
      /\ \A pc : (At(g, pc))' => pc = "next"
      /\ \A h \in Goroutine : h # g => stack'[h] = stack[h]
  BY HeldReturned
<1>6. \A h \in Goroutine \ {g} : \A pc : (At(h, pc))' <=> At(h, pc)
  BY <1>5 DEF At, Idle, Top
<1>7. \A h \in Goroutine \ {g} : ~At(h, "writing") /\ ~At(h, "assign")
  BY <1>2, <1>4 DEF LockInv
<1>8. ASSUME NEW h \in Goroutine
      PROVE  holds'[h] = (Held(h))'
  <2>1. CASE h = g
    <3>1. g \notin waiting /\ ~Inside(g, Top(g).pc)
      BY <1>2 DEF LockInv, At, Inside
    <3>2. holds[g] = IF Len(stack[g]) = 2 THEN 1 ELSE 0
      BY <1>2, <3>1, HeldNow DEF LockInv
    <3> QED
      BY <1>1, <1>5, <2>1, <3>1, <3>2
  <2>2. CASE h # g /\ h \notin waiting
    <3>1. (Held(h))' = Held(h)
      BY <1>1, <1>5, <2>2, HeldOther
    <3> QED
      BY <1>1, <1>2, <2>2, <3>1 DEF LockInv
  <2>3. CASE h # g /\ h \in waiting
    <3>1. At(h, "reading") /\ ~Granted(h)
      BY <1>2, <2>3 DEF LockInv, Granted
    <3>2. Top(h).pc = "reading"
      BY <3>1 DEF At
    <3>3. ~Reading(h)
      BY <3>1, <3>2 DEF Reading, At
    <3>4. (Reading(h))'
      BY <1>1, <1>6, <2>3, <3>1 DEF Reading, Granted
    <3>5. stack'[h] = stack[h] /\ holds'[h] = holds[h] + 1 /\ holds[h] = Held(h)
      BY <1>1, <1>2, <1>5, <2>3 DEF LockInv
    <3> QED
      BY <3>3, <3>4, <3>5 DEF Held
  <2> QED
    BY <2>1, <2>2, <2>3
<1>9. \A h \in Goroutine : ~(At(h, "writing"))' /\ ~(At(h, "assign"))'
  BY <1>5, <1>6, <1>7
<1>10. \A h \in Goroutine : writer' # h
  BY <1>1, Constants
<1> QED
  BY <1>1, <1>3, <1>8, <1>9, <1>10 DEF LockInv

\* What the lock knows after any step.
LEMMA LockStep ==
    ASSUME CacheInv, [Next]_vars
    PROVE  LockTypeOK' /\ LockInv'
<1>0. stack \in Stacks /\ LockTypeOK /\ LockInv /\ FrameInv
  BY Stacked DEF CacheInv, TypeOK
<1>1. ASSUME NEW g \in Goroutine, NEW op \in Operation, NEW c \in Call(op), Begin(g, c)
      PROVE  LockTypeOK' /\ LockInv'
  <2>1. c \in AnyCall
    BY Constants, Arguments
  <2>2. /\ Len(stack'[g]) = 1
        /\ \A pc : (At(g, pc))' <=> Frame(c).pc = pc
        /\ \A h \in Goroutine : h # g => stack'[h] = stack[h]
    BY <1>0, <1>1, <2>1, Begun
  <2>3. Frame(c).pc \in {"lock", "try", "rlock"}
    BY <2>1, NewFrame
  <2>4. holds' = holds /\ waiting' = waiting /\ writer' = writer /\ Idle(g)
    BY <1>1 DEF Begin, lockVars
  <2>5. Len(stack[g]) = 0 /\ \A pc : ~At(g, pc)
    BY <2>4 DEF Idle, At
  <2>6. holds[g] = 0
    BY <1>0, <2>5 DEF LockInv, Held, Reading
  <2>7. (Held(g))' = 0
    BY <2>2, <2>3 DEF Held, Reading
  <2>8. /\ ~(At(g, "reading"))' /\ ~(At(g, "writing"))' /\ ~(At(g, "assign"))'
        /\ g \notin waiting /\ writer # g
        /\ waiting # {} => writer # nil
    BY <1>0, <2>2, <2>3, <2>5 DEF LockInv
  <2>9. LockTypeOK'
    BY <1>0, <2>4 DEF LockTypeOK
  <2> QED
    BY <2>2, <2>4, <2>6, <2>7, <2>8, <2>9, LockKept
<1>2. ASSUME NEW g \in Goroutine, NEW op \in InLoop, NEW c \in Call(op), BodyCall(g, c)
      PROVE  LockTypeOK' /\ LockInv'
  <2>1. c \in AnyCall
    BY Constants, Arguments
  <2>2. /\ Len(stack'[g]) = 2 /\ Len(stack[g]) = 1
        /\ \A pc : (At(g, pc))' <=> Frame(c).pc = pc
        /\ \A h \in Goroutine : h # g => stack'[h] = stack[h]
    BY <1>0, <1>2, <2>1, BodyCalled
  <2>3. Frame(c).pc \in {"lock", "try", "rlock"}
    BY <2>1, NewFrame
  <2>4. holds' = holds /\ waiting' = waiting /\ writer' = writer /\ At(g, "yield")
    BY <1>2 DEF BodyCall, lockVars
  <2>5. ~At(g, "reading") /\ ~At(g, "writing") /\ ~At(g, "assign")
    BY <2>4 DEF At
  <2>6. holds[g] = 1
    BY <1>0, <2>2, <2>4 DEF LockInv, Held, Reading
  <2>7. (Held(g))' = 1
    BY <2>2, <2>3 DEF Held, Reading
  <2>8. /\ ~(At(g, "reading"))' /\ ~(At(g, "writing"))' /\ ~(At(g, "assign"))'
        /\ g \notin waiting /\ writer # g
        /\ waiting # {} => writer # nil
        /\ \A h \in Goroutine : ~At(h, "assign")
    BY <1>0, <2>2, <2>3, <2>5, <2>6 DEF LockInv
  <2>9. LockTypeOK'
    BY <1>0, <2>4 DEF LockTypeOK
  <2> QED
    BY <2>2, <2>4, <2>6, <2>7, <2>8, <2>9, LockKept
<1>3. ASSUME NEW g \in Goroutine, CallRLock(g)
      PROVE  LockTypeOK' /\ LockInv'
  <2>1. ~Idle(g) /\ Top(g).pc = "rlock"
    BY <1>3, CallRLockStep
  <2>2. PICK f : Moves(g, f) /\ f.pc = "reading"
    BY <1>3, CallRLockStep
  <2>3. /\ (Held(g))' = (IF Len(stack[g]) = 2 THEN 1 ELSE 0)
                            + (IF g \notin waiting' THEN 1 ELSE 0)
        /\ \A pc : (At(g, pc))' <=> f.pc = pc
        /\ \A h \in Goroutine : h # g => stack'[h] = stack[h]
    <3>1. (Inside(g, f.pc))' <=> g \notin waiting'
      BY <2>2 DEF Inside, Granted
    <3> QED
      BY <2>1, <2>2, <3>1, HeldMoved
  <2>4. g \notin waiting /\ holds[g] = IF Len(stack[g]) = 2 THEN 1 ELSE 0
    <3>1. g \notin waiting /\ ~Inside(g, Top(g).pc)
      BY <1>0, <2>1 DEF LockInv, At, Inside
    <3> QED
      BY <1>0, <2>1, <3>1, HeldNow DEF LockInv
  <2>5. writer' = writer /\ writer # g
    BY <1>0, <1>3, <2>1 DEF CallRLock, RLock, LockInv, At
  <2>6. CASE writer = nil
    <3>1. holds' = [holds EXCEPT ![g] = @ + 1] /\ waiting' = waiting
      BY <1>3, <2>6 DEF CallRLock, RLock
    <3>2. /\ holds'[g] = holds[g] + 1 /\ holds' \in [Goroutine -> Nat]
          /\ \A h \in Goroutine \ {g} : holds'[h] = holds[h]
      BY <1>0, <3>1 DEF LockTypeOK
    <3>3. LockTypeOK'
      BY <1>0, <2>5, <3>1, <3>2 DEF LockTypeOK
    <3>4. holds'[g] = (Held(g))'
      BY <2>3, <2>4, <3>1, <3>2
    <3>5. \A h \in Goroutine : ~At(h, "assign")
      BY <1>0, <2>6, Constants DEF LockInv
    <3>6. waiting = {}
      BY <1>0, <2>6 DEF LockInv
    <3> QED
      BY <2>2, <2>3, <2>5, <3>1, <3>2, <3>3, <3>4, <3>5, <3>6, LockKept
  <2>7. CASE writer # nil
    <3>1. holds' = holds /\ waiting' = waiting \cup {g}
      BY <1>3, <2>7 DEF CallRLock, RLock
    <3>2. LockTypeOK'
      BY <1>0, <2>5, <3>1 DEF LockTypeOK
    <3>3. holds'[g] = (Held(g))'
      BY <2>3, <2>4, <3>1
    <3>4. \A h \in Goroutine : At(h, "assign") => holds'[g] = 0
      BY <1>0, <3>1 DEF LockInv
    <3> QED
      BY <2>2, <2>3, <2>5, <2>7, <3>1, <3>2, <3>3, <3>4, LockKept
  <2> QED
    BY <2>6, <2>7
<1>4. ASSUME NEW g \in Goroutine, CallLock(g)
      PROVE  LockTypeOK' /\ LockInv'
  <2>1. ~Idle(g) /\ Top(g).pc = "lock"
    BY <1>4, CallLockStep
  <2>2. PICK f : Moves(g, f) /\ f.pc = "writing"
    BY <1>4, CallLockStep
  <2>3. writer = nil /\ writer' = g /\ holds' = holds /\ waiting' = waiting
    BY <1>4 DEF CallLock, Lock
  <2>4. /\ (Held(g))' = IF Len(stack[g]) = 2 THEN 1 ELSE 0
        /\ \A pc : (At(g, pc))' <=> f.pc = pc
        /\ \A h \in Goroutine : h # g => stack'[h] = stack[h]
    <3>1. ~(Inside(g, f.pc))'
      BY <2>2 DEF Inside
    <3> QED
      BY <2>1, <2>2, <3>1, HeldMoved
  <2>5. holds[g] = IF Len(stack[g]) = 2 THEN 1 ELSE 0
    <3>1. ~Inside(g, Top(g).pc)
      BY <2>1 DEF Inside
    <3> QED
      BY <1>0, <2>1, <3>1, HeldNow DEF LockInv
  <2>6. waiting = {} /\ \A h \in Goroutine : ~At(h, "assign") /\ writer # h
    BY <1>0, <2>3, Constants DEF LockInv
  <2>7. LockTypeOK'
    BY <1>0, <2>3 DEF LockTypeOK
  <2> QED
    BY <2>2, <2>3, <2>4, <2>5, <2>6, <2>7, LockKept
<1>5. ASSUME NEW g \in Goroutine, Lookup(g)
      PROVE  LockTypeOK' /\ LockInv'
  <2>1. /\ ~Idle(g) /\ Top(g).pc = "reading"
        /\ (\E a : Return(g, a)) \/ \E f : Moves(g, f) /\ f.pc = "check"
    BY <1>5, LookupStep
  <2>2. RUnlock(g) /\ Inside(g, Top(g).pc)
    BY <1>5, <2>1 DEF Lookup, Inside
  <2> QED
    BY <2>1, <2>2, LockGivenBack
<1>6. ASSUME NEW g \in Goroutine, CheckExpiry(g) \/ LoadValue(g) \/ TryContains(g)
      PROVE  LockTypeOK' /\ LockInv'
  <2>1. UNCHANGED lockVars
    BY <1>6 DEF CheckExpiry, LoadValue, TryContains
  <2>2. /\ ~Idle(g) /\ Top(g).pc \in {"check", "load", "try"}
        /\ (\E a : Return(g, a)) \/ \E f : Moves(g, f) /\ f.pc = "load"
    BY <1>6, CheckExpiryStep, LoadValueStep DEF TryContains, At
  <2>3. ASSUME NEW f, Moves(g, f), f.pc = "load"
        PROVE  LockTypeOK' /\ LockInv'
    <3>1. g \notin waiting
      BY <1>0, <2>2 DEF LockInv, At
    <3>2. Inside(g, f.pc) <=> Inside(g, Top(g).pc)
      BY <2>2, <2>3 DEF Inside
    <3> QED
      BY <2>1, <2>2, <2>3, <3>1, <3>2, LockMoved
  <2> QED
    BY <2>1, <2>2, <2>3, LockReturned
<1>7. ASSUME NEW g \in Goroutine,
             Set(g) \/ \E field \in {"expiresAt", "value"} : Assign(g, field)
      PROVE  LockTypeOK' /\ LockInv'
  <2>1. UNCHANGED lockVars
    BY <1>7 DEF Set, Assign
  <2>2. ~Idle(g) /\ Top(g).pc \in {"writing", "assign"}
    BY <1>7, SetStep, AssignStep
  <2>3. PICK f : Moves(g, f) /\ f.pc = "assign"
    BY <1>7, SetStep, AssignStep
  <2>4. g \notin waiting
    BY <1>0, <2>2 DEF LockInv, At
  <2>5. Inside(g, f.pc) <=> Inside(g, Top(g).pc)
    BY <2>2, <2>3 DEF Inside
  <2>6. \A h \in Goroutine : holds[h] = 0
    <3>1. Set(g) \/ At(g, "assign")
      BY <1>7 DEF Assign
    <3> QED
      BY <1>0, <3>1 DEF Set, Exclusive, LockInv
  <2> QED
    BY <2>1, <2>2, <2>3, <2>4, <2>5, <2>6, LockMoved
<1>8. ASSUME NEW g \in Goroutine, FinishSet(g) \/ RemoveKey(g) \/ Clear(g)
      PROVE  LockTypeOK' /\ LockInv'
  <2>1. /\ ~Idle(g) /\ Top(g).pc \in {"writing", "assign"}
        /\ Unlock /\ Return(g, nil)
    BY <1>8 DEF FinishSet, RemoveKey, Clear, At
  <2> QED
    BY <2>1, LockReleased
<1>9. ASSUME NEW g \in Goroutine, StartLoop(g) \/ Advance(g)
      PROVE  LockTypeOK' /\ LockInv'
  <2>1. /\ ~Idle(g) /\ LoopStep(g)
        /\ Top(g).pc = "next" \/ (Top(g).pc = "reading" /\ Granted(g))
    BY <1>9, StartLoopStep, AdvanceStep
  <2>2. Inside(g, Top(g).pc) /\ g \notin waiting
    BY <1>0, <2>1 DEF Inside, LockInv, At, Granted
  <2>3. CASE RUnlock(g) /\ Return(g, nil)
    BY <2>1, <2>2, <2>3, LockGivenBack
  <2>4. ASSUME UNCHANGED lockVars, NEW f, Moves(g, f), f.pc = "yield"
        PROVE  LockTypeOK' /\ LockInv'
    <3>1. Inside(g, f.pc)
      BY <2>4 DEF Inside
    <3> QED
      BY <2>1, <2>2, <2>4, <3>1, LockMoved
  <2> QED
    BY <2>1, <2>3, <2>4 DEF LoopStep
<1>10. ASSUME NEW g \in Goroutine, Body(g)
       PROVE  LockTypeOK' /\ LockInv'
  <2>1. ~Idle(g) /\ Top(g).pc = "yield" /\ UNCHANGED lockVars
    BY <1>10, BodyStep DEF Body
  <2>2. PICK f : Moves(g, f) /\ f.pc = "next"
    BY <1>10, BodyStep
  <2>3. Inside(g, Top(g).pc) /\ Inside(g, f.pc) /\ g \notin waiting
    BY <1>0, <2>1, <2>2 DEF Inside, LockInv, At
  <2> QED
    BY <2>1, <2>2, <2>3, LockMoved
<1>11. ASSUME NEW g \in Goroutine, Break(g)
       PROVE  LockTypeOK' /\ LockInv'
  <2>1. ~Idle(g) /\ Top(g).pc = "yield" /\ RUnlock(g) /\ Return(g, nil)
    BY <1>11 DEF Break, At
  <2>2. Inside(g, Top(g).pc)
    BY <2>1 DEF Inside
  <2> QED
    BY <2>1, <2>2, LockGivenBack
<1>12. CASE UNCHANGED vars
  <2>1. /\ holds' = holds /\ waiting' = waiting /\ writer' = writer /\ stack' = stack
    BY <1>12 DEF vars
  <2>2. \A h \in Goroutine : (Held(h))' = Held(h) /\ \A pc : (At(h, pc))' <=> At(h, pc)
    BY <2>1, HeldOther DEF At, Idle, Top
  <2> QED
    BY <1>0, <2>1, <2>2 DEF LockTypeOK, LockInv
<1> QED
  BY <1>1, <1>2, <1>3, <1>4, <1>5, <1>6, <1>7, <1>8, <1>9, <1>10, <1>11, <1>12
     DEF Next, Step

(***************************************************************************)
(* The list, the map and the nodes.                                        *)
(***************************************************************************)

\* A step of g.
Acts(g) ==
    \/ \E op \in Operation : \E call \in Call(op) : Begin(g, call)
    \/ Step(g)
    \/ CallLock(g)

Writes(g) ==
    \/ Set(g) \/ (\E field \in {"expiresAt", "value"} : Assign(g, field))
    \/ RemoveKey(g) \/ Clear(g)

\* Only four actions touch the cache.
LEMMA OnlyWriter ==
    ASSUME NEW g \in Goroutine, Acts(g), ~Writes(g)
    PROVE  UNCHANGED cacheVars
<1>1. ASSUME Step(g)
      PROVE  UNCHANGED cacheVars
  <2>1. \/ CallRLock(g) \/ Lookup(g) \/ CheckExpiry(g) \/ LoadValue(g) \/ TryContains(g)
        \/ FinishSet(g) \/ StartLoop(g) \/ Body(g) \/ Break(g) \/ Advance(g)
        \/ \E op \in InLoop : \E call \in Call(op) : BodyCall(g, call)
    BY <1>1 DEF Step, Writes
  <2> QED
    BY <2>1 DEF CallRLock, Lookup, CheckExpiry, LoadValue, TryContains, FinishSet,
                StartLoop, Body, Break, Advance, BodyCall
<1> QED
  BY <1>1 DEF Acts, Begin, CallLock

LEMMA OnlyWriters ==
    ASSUME [Next]_vars, \A g \in Goroutine : ~Writes(g)
    PROVE  UNCHANGED cacheVars
<1>1. CASE UNCHANGED vars
  BY <1>1 DEF vars, cacheVars
<1>2. CASE \E g \in Goroutine : Acts(g)
  BY <1>2, OnlyWriter
<1> QED
  BY <1>1, <1>2 DEF Next, Acts

Entries == [key : Key, value : Time, expiresAt : Time]

\* The types of the list, the map and the nodes.
DataOK ==
    /\ list \in Seq(Node)
    /\ nodeByKey \in [Key -> Node \cup {nil}]
    /\ DOMAIN heap \in SUBSET Node
    /\ heap \in [DOMAIN heap -> Entries]

LEMMA DataTyped == ASSUME TypeOK PROVE DataOK
BY DEF TypeOK, DataOK, Entries

\* Where a Set leaves its nodes.
LEMMA SetList ==
    ASSUME CacheInv, NEW g \in Goroutine, Set(g),
           NEW kept, kept = Kept(Top(g).call)
    PROVE  /\ list' \in Seq(Node) /\ DOMAIN list' = 1 .. Len(kept) + 1
           /\ SetPlace(g) \in DOMAIN list' /\ list'[SetPlace(g)] = SetNode(g)
           /\ \A i \in DOMAIN list' : i < SetPlace(g) =>
                 i \in 1 .. Len(kept) /\ list'[i] = kept[i]
           /\ \A i \in DOMAIN list' : i > SetPlace(g) =>
                 i - 1 \in 1 .. Len(kept) /\ list'[i] = kept[i - 1]
           /\ \A j \in 1 .. Len(kept) : \E i \in DOMAIN list' : list'[i] = kept[j]
<1> DEFINE p == SetPlace(g)
           n == SetNode(g)
<1>1. At(g, "writing") /\ Top(g).call.op \in Setters /\ Exclusive(g)
  BY DEF Set
<1>2. kept \in Seq(Node) /\ Len(kept) \in Nat
  BY <1>1, SetKept DEF CacheInv
<1>3. p \in 1 .. Len(kept) + 1
  BY <1>1, SetPlaces DEF CacheInv
<1>4. n \in Node /\ list' = InsertAt(kept, p, n)
  BY SetNodes DEF CacheInv
<1> HIDE DEF p, n
<1>5. /\ InsertAt(kept, p, n) \in Seq(Node)
      /\ Len(InsertAt(kept, p, n)) = Len(kept) + 1
      /\ \A i \in 1 .. Len(kept) + 1 :
            InsertAt(kept, p, n)[i] =
               IF i < p THEN kept[i] ELSE IF i = p THEN n ELSE kept[i - 1]
  <2>1. IsInserted(InsertAt(kept, p, n), kept, p, n)
    BY <1>2, <1>3, <1>4, Inserted
  <2> QED
    BY <2>1 DEF IsInserted
<1>6. /\ list' \in Seq(Node) /\ DOMAIN list' = 1 .. Len(kept) + 1
      /\ \A i \in 1 .. Len(kept) + 1 :
            list'[i] = IF i < p THEN kept[i] ELSE IF i = p THEN n ELSE kept[i - 1]
  BY <1>4, <1>5
<1>7. \A i \in 1 .. Len(kept) + 1 :
         /\ i < p => i \in 1 .. Len(kept)
         /\ i > p => i - 1 \in 1 .. Len(kept) /\ ~(i < p) /\ i # p
  BY <1>2, <1>3
<1>8. ASSUME NEW j \in 1 .. Len(kept)
      PROVE  \E i \in DOMAIN list' : list'[i] = kept[j]
  <2>1. CASE j < p
    BY <1>2, <1>6, <2>1
  <2>2. CASE ~(j < p)
    <3>1. /\ j + 1 \in 1 .. Len(kept) + 1 /\ ~(j + 1 < p) /\ j + 1 # p
          /\ (j + 1) - 1 = j
      BY <1>2, <1>3, <2>2
    <3>2. list'[j + 1] = kept[j]
      BY <1>6, <3>1
    <3> QED
      BY <1>6, <3>1, <3>2
  <2> QED
    BY <2>1, <2>2
<1> QED
  BY <1>3, <1>6, <1>7, <1>8 DEF p, n

LEMMA SetData ==
    ASSUME CacheInv, NEW g \in Goroutine, Set(g)
    PROVE  DataOK' /\ MapInv'
<1> DEFINE c == Top(g).call
           kept == Kept(c)
           n == SetNode(g)
<1>1. At(g, "writing") /\ c.op \in Setters /\ Exclusive(g) /\ c.key \in Key
  BY SetCall DEF Set, CacheInv
<1>2. /\ kept \in Seq(Node)
      /\ \A i \in 1 .. Len(kept) :
            /\ kept[i] \in DOMAIN heap /\ kept[i] # nodeByKey[c.key]
            /\ nodeByKey[heap[kept[i]].key] = kept[i]
      /\ \A i, j \in 1 .. Len(kept) : kept[i] = kept[j] => i = j
  BY <1>1, SetKept DEF CacheInv
<1>3. /\ n \in Node
      /\ \A i \in 1 .. Len(kept) : kept[i] # n
      /\ nodeByKey' = [j \in Key |->
                          IF j = c.key THEN n
                          ELSE IF \E i \in 1 .. Len(kept) : kept[i] = nodeByKey[j]
                                   THEN nodeByKey[j] ELSE nil]
      /\ DOMAIN heap' = (InUse(kept) \cup {n}) \ {nil}
      /\ DOMAIN heap' \subseteq Node
      /\ \A m \in InUse(kept) \ {nil} : m \in DOMAIN heap /\ heap'[m] = heap[m]
      /\ heap'[n].key = c.key
      /\ heap' \in [DOMAIN heap' -> Entries]
  <2>1. Renewed(c, kept, n)
    BY SetNodes DEF CacheInv
  <2> HIDE DEF c, kept, n
  <2> QED
    BY <2>1 DEF Renewed, Entries
<1>4. \A i \in 1 .. Len(kept) : kept[i] \in InUse(kept) \ {nil}
  <2>1. \A i \in 1 .. Len(kept) : kept[i] \in InUse(kept) /\ kept[i] \in Node
    BY <1>2, Used DEF CacheInv
  <2> QED
    BY <2>1, Constants
<1>5. /\ list' \in Seq(Node) /\ DOMAIN list' = 1 .. Len(kept) + 1
      /\ SetPlace(g) \in DOMAIN list' /\ list'[SetPlace(g)] = n
      /\ \A i \in DOMAIN list' : i < SetPlace(g) =>
            i \in 1 .. Len(kept) /\ list'[i] = kept[i]
      /\ \A i \in DOMAIN list' : i > SetPlace(g) =>
            i - 1 \in 1 .. Len(kept) /\ list'[i] = kept[i - 1]
      /\ \A j \in 1 .. Len(kept) : \E i \in DOMAIN list' : list'[i] = kept[j]
  BY SetList
<1>6. DataOK /\ MapInv /\ Len(kept) \in Nat
  BY <1>2, DataTyped DEF CacheInv
<1> HIDE DEF c, kept, n
<1>7. \A k \in Key : nodeByKey[k] \in Node \cup {nil}
  BY <1>6 DEF DataOK
<1>8. DataOK'
  <2>1. nodeByKey' \in [Key -> Node \cup {nil}]
    BY <1>3, <1>7
  <2> QED
    BY <1>3, <1>5, <2>1 DEF DataOK
<1>9. \A i \in DOMAIN list' :
         \/ i = SetPlace(g) /\ list'[i] = n
         \/ i < SetPlace(g) /\ i \in 1 .. Len(kept) /\ list'[i] = kept[i]
         \/ i > SetPlace(g) /\ i - 1 \in 1 .. Len(kept) /\ list'[i] = kept[i - 1]
  <2>1. \A i \in DOMAIN list' : i = SetPlace(g) \/ i < SetPlace(g) \/ i > SetPlace(g)
    BY <1>5, <1>6
  <2> QED
    BY <1>5, <2>1, Zenon
<1>10. \A j \in 1 .. Len(kept) :
          /\ kept[j] \in DOMAIN heap' /\ heap'[kept[j]] = heap[kept[j]]
          /\ heap[kept[j]].key \in Key
  <2>1. \A m \in DOMAIN heap : heap[m].key \in Key
    BY <1>6 DEF DataOK, Entries
  <2> QED
    BY <1>2, <1>3, <1>4, <2>1
<1>11. n \in DOMAIN heap' /\ nodeByKey'[c.key] = n
  BY <1>1, <1>3, Constants
<1>12. \A j \in 1 .. Len(kept) : nodeByKey'[heap'[kept[j]].key] = kept[j]
  <2>1. ASSUME NEW j \in 1 .. Len(kept)
        PROVE  nodeByKey'[heap'[kept[j]].key] = kept[j]
    <3>1. heap[kept[j]].key # c.key /\ heap[kept[j]].key \in Key
      BY <1>2, <1>10
    <3>2. nodeByKey'[heap[kept[j]].key] = kept[j]
      BY <1>2, <1>3, <3>1
    <3> QED
      BY <1>10, <3>2
  <2> QED
    BY <2>1
<1>13. ASSUME NEW i \in DOMAIN list'
       PROVE  list'[i] \in DOMAIN heap' /\ nodeByKey'[heap'[list'[i]].key] = list'[i]
  BY <1>3, <1>9, <1>10, <1>11, <1>12
<1>14. ASSUME NEW i \in DOMAIN list', NEW j \in DOMAIN list', list'[i] = list'[j]
       PROVE  i = j
  <2>1. i \in Nat /\ j \in Nat /\ SetPlace(g) \in Nat
    BY <1>5, <1>6
  <2>2. i = SetPlace(g) <=> list'[i] = n
    BY <1>3, <1>5, <1>9
  <2>3. j = SetPlace(g) <=> list'[j] = n
    BY <1>3, <1>5, <1>9
  <2>4. CASE i = SetPlace(g)
    BY <1>14, <2>2, <2>3, <2>4
  <2>5. CASE i # SetPlace(g) /\ j # SetPlace(g)
    <3> DEFINE a == IF i < SetPlace(g) THEN i ELSE i - 1
               b == IF j < SetPlace(g) THEN j ELSE j - 1
    <3>1. a \in 1 .. Len(kept) /\ list'[i] = kept[a]
      BY <1>9, <2>1, <2>5
    <3>2. b \in 1 .. Len(kept) /\ list'[j] = kept[b]
      BY <1>9, <2>1, <2>5
    <3>3. a = b
      <4> HIDE DEF a, b
      <4> QED
        BY <1>2, <1>14, <3>1, <3>2
    <3> QED
      BY <2>1, <2>5, <3>3
  <2> QED
    BY <1>14, <2>2, <2>3, <2>4, <2>5
<1>15. ASSUME NEW k \in Key, nodeByKey'[k] # nil
       PROVE  /\ \E i \in DOMAIN list' : list'[i] = nodeByKey'[k]
              /\ heap'[nodeByKey'[k]].key = k
  <2>1. CASE k = c.key
    BY <1>3, <1>5, <1>11, <2>1
  <2>2. CASE k # c.key
    <3>1. nodeByKey'[k] = nodeByKey[k] /\ \E j \in 1 .. Len(kept) : kept[j] = nodeByKey[k]
      BY <1>3, <1>15, <2>2
    <3>2. heap[nodeByKey[k]].key = k
      BY <1>6, <1>15, <3>1 DEF MapInv
    <3> QED
      BY <1>5, <1>10, <3>1, <3>2
  <2> QED
    BY <2>1, <2>2
<1> QED
  BY <1>8, <1>13, <1>14, <1>15 DEF MapInv

\* An assignment writes one field of the node of its Set.
LEMMA AssignHeap ==
    ASSUME CacheInv, NEW g \in Goroutine, NEW field \in {"expiresAt", "value"},
           Assign(g, field)
    PROVE  /\ list' = list /\ nodeByKey' = nodeByKey /\ DOMAIN heap' = DOMAIN heap
           /\ Top(g).node \in DOMAIN heap
           /\ heap' \in [DOMAIN heap -> Entries]
           /\ \A m \in DOMAIN heap :
                 heap'[m].key = heap[m].key /\ (m # Top(g).node => heap'[m] = heap[m])
           /\ heap'[Top(g).node][field] = Top(g).call.expiresAt
           /\ \A other \in {"expiresAt", "value"} : other # field =>
                 heap'[Top(g).node][other] = heap[Top(g).node][other]
<1> DEFINE n == Top(g).node
           e == Top(g).call.expiresAt
<1>1. ~Idle(g) /\ Top(g).pc = "assign" /\ e \in Time
  BY AssignStep
<1>2. n \in DOMAIN heap
  BY <1>1, TopFacts DEF PointerOK
<1>3. heap \in [DOMAIN heap -> Entries]
  BY DataTyped DEF CacheInv, DataOK
<1>4. /\ list' = list /\ nodeByKey' = nodeByKey
      /\ heap' = [heap EXCEPT ![n] = [heap[n] EXCEPT ![field] = e]]
  BY DEF Assign
<1> HIDE DEF n, e
<1> DEFINE r == [heap[n] EXCEPT ![field] = e]
<1>5. heap[n] \in Entries
  BY <1>2, <1>3
<1>6. /\ r \in Entries /\ r.key = heap[n].key /\ r[field] = e
      /\ \A other \in {"expiresAt", "value"} : other # field => r[other] = heap[n][other]
  BY <1>1, <1>5 DEF Entries
<1> HIDE DEF r
<1>7. heap' = [heap EXCEPT ![n] = r]
  BY <1>4 DEF r
<1> QED
  BY <1>2, <1>3, <1>4, <1>6, <1>7 DEF n, e

LEMMA AssignData ==
    ASSUME CacheInv, NEW g \in Goroutine, NEW field \in {"expiresAt", "value"},
           Assign(g, field)
    PROVE  DataOK' /\ MapInv'
<1>1. /\ list' = list /\ nodeByKey' = nodeByKey /\ DOMAIN heap' = DOMAIN heap
      /\ heap' \in [DOMAIN heap -> Entries]
      /\ \A m \in DOMAIN heap : heap'[m].key = heap[m].key
  BY AssignHeap
<1>2. DataOK /\ MapInv
  BY DataTyped DEF CacheInv
<1>3. DataOK'
  BY <1>1, <1>2 DEF DataOK
<1>4. \A k \in Key : nodeByKey[k] # nil => nodeByKey[k] \in DOMAIN heap
  BY <1>2 DEF MapInv
<1> QED
  BY <1>1, <1>2, <1>3, <1>4 DEF MapInv

\* What a Remove leaves: the other nodes, in their order.
LEMMA RemoveList ==
    ASSUME CacheInv, NEW g \in Goroutine, RemoveKey(g)
    PROVE  LET k == Top(g).call.key
           IN  /\ k \in Key /\ heap' = heap
               /\ nodeByKey' = [nodeByKey EXCEPT ![k] = nil]
               /\ list' \in Seq(Node)
               /\ \E e \in [DOMAIN list' -> DOMAIN list] :
                     /\ \A i \in DOMAIN list' :
                           list'[i] = list[e[i]] /\ heap[list[e[i]]].key # k
                     /\ \A i, j \in DOMAIN list' : i < j => e[i] < e[j]
                     /\ \A i, j \in DOMAIN list' : e[i] = e[j] => i = j
                     /\ \A j \in DOMAIN list : heap[list[j]].key # k =>
                           \E i \in DOMAIN list' : e[i] = j
<1> DEFINE k == Top(g).call.key
           n == nodeByKey[k]
           p == Where(list, n)
<1>1. At(g, "writing") /\ Top(g).call.op = "Remove" /\ ~Idle(g)
  BY DEF RemoveKey, At
<1>2. k \in Key
  <2>1. Top(g).call \in AnyCall
    BY <1>1, TopFacts
  <2> QED
    BY <1>1, <2>1, AnyArguments DEF Iterators
<1>3. /\ list' = IF n = nil THEN list ELSE RemoveAt(list, p)
      /\ nodeByKey' = [nodeByKey EXCEPT ![k] = nil] /\ heap' = heap
  BY DEF RemoveKey
<1>4. list \in Seq(Node) /\ Len(list) \in Nat /\ DOMAIN list = 1 .. Len(list)
  BY DEF CacheInv, TypeOK
<1>5. \A j \in DOMAIN list :
         heap[list[j]].key = k => n = list[j] /\ n \in Node /\ n # nil
  BY <1>4, Constants DEF CacheInv, MapInv
<1>6. n # nil => (\E i \in DOMAIN list : list[i] = n) /\ heap[n].key = k
  BY <1>2 DEF CacheInv, MapInv
<1>7. \A i, j \in DOMAIN list : list[i] = list[j] => i = j
  BY DEF CacheInv, MapInv
<1> HIDE DEF k, n
<1>8. CASE n = nil
  <2> DEFINE e == [i \in DOMAIN list |-> i]
  <2>1. list' = list /\ \A j \in DOMAIN list : heap[list[j]].key # k
    BY <1>3, <1>5, <1>8
  <2>2. e \in [DOMAIN list' -> DOMAIN list] /\ \A i \in DOMAIN list : e[i] = i
    BY <2>1
  <2> HIDE DEF e
  <2> QED
    BY <1>2, <1>3, <1>4, <2>1, <2>2 DEF k
<1>9. CASE n # nil
  <2>1. p \in 1 .. Len(list) /\ list[p] = n
    BY <1>4, <1>6, <1>9, Found
  <2> HIDE DEF p
  <2>2. /\ list' \in Seq(Node)
        /\ Len(list') = Len(list) - 1
        /\ \A i \in 1 .. Len(list) - 1 : list'[i] = IF i < p THEN list[i] ELSE list[i + 1]
    BY <1>3, <1>4, <1>9, <2>1, Removed
  <2>3. DOMAIN list' = 1 .. Len(list) - 1
    BY <2>2
  <2> DEFINE e == [i \in DOMAIN list' |-> IF i < p THEN i ELSE i + 1]
  <2>4. \A i \in DOMAIN list' :
           e[i] = (IF i < p THEN i ELSE i + 1) /\ e[i] \in DOMAIN list /\ e[i] # p
    BY <1>4, <2>1, <2>3
  <2>5. \A i \in DOMAIN list' : list'[i] = list[e[i]]
    BY <2>2, <2>3, <2>4
  <2>6. \A j \in DOMAIN list : heap[list[j]].key = k <=> j = p
    BY <1>4, <1>5, <1>6, <1>7, <1>9, <2>1
  <2>7. /\ \A i, j \in DOMAIN list' : i < j => e[i] < e[j]
        /\ \A i, j \in DOMAIN list' : e[i] = e[j] => i = j
    BY <1>4, <2>1, <2>3, <2>4
  <2>8. ASSUME NEW j \in DOMAIN list, j # p
        PROVE  \E i \in DOMAIN list' : e[i] = j
    <3>1. CASE j < p
      BY <1>4, <2>1, <2>3, <2>4, <3>1
    <3>2. CASE j > p
      <4>1. j - 1 \in DOMAIN list' /\ ~(j - 1 < p) /\ (j - 1) + 1 = j
        BY <1>4, <2>1, <2>3, <3>2
      <4> QED
        BY <2>4, <4>1
    <3> QED
      BY <1>4, <2>1, <2>8, <3>1, <3>2
  <2>9. e \in [DOMAIN list' -> DOMAIN list]
    BY <2>4
  <2> HIDE DEF e
  <2>10. /\ k \in Key /\ heap' = heap
         /\ nodeByKey' = [nodeByKey EXCEPT ![k] = nil]
         /\ list' \in Seq(Node)
    BY <1>2, <1>3, <2>2, Zenon
  <2>11. \A i \in DOMAIN list' : list'[i] = list[e[i]] /\ heap[list[e[i]]].key # k
    BY <2>4, <2>5, <2>6, Zenon
  <2>12. \A j \in DOMAIN list : heap[list[j]].key # k => \E i \in DOMAIN list' : e[i] = j
    BY <2>6, <2>8, Zenon
  <2> QED
    BY <2>7, <2>9, <2>10, <2>11, <2>12, Zenon DEF k
<1> QED
  BY <1>8, <1>9

LEMMA RemoveData ==
    ASSUME CacheInv, NEW g \in Goroutine, RemoveKey(g)
    PROVE  DataOK' /\ MapInv'
<1> DEFINE k == Top(g).call.key
<1>1. /\ k \in Key /\ heap' = heap
      /\ nodeByKey' = [nodeByKey EXCEPT ![k] = nil]
      /\ list' \in Seq(Node)
  BY RemoveList
<1>2. PICK e \in [DOMAIN list' -> DOMAIN list] :
         /\ \A i \in DOMAIN list' :
               list'[i] = list[e[i]] /\ heap[list[e[i]]].key # k
         /\ \A i, j \in DOMAIN list' : i < j => e[i] < e[j]
         /\ \A i, j \in DOMAIN list' : e[i] = e[j] => i = j
         /\ \A j \in DOMAIN list : heap[list[j]].key # k =>
               \E i \in DOMAIN list' : e[i] = j
  BY RemoveList
<1>3. DataOK /\ MapInv
  BY DataTyped DEF CacheInv
<1> HIDE DEF k
<1>4. /\ nodeByKey' \in [Key -> Node \cup {nil}] /\ nodeByKey'[k] = nil
      /\ \A j \in Key : j # k => nodeByKey'[j] = nodeByKey[j]
  BY <1>1, <1>3 DEF DataOK
<1>5. DataOK'
  BY <1>1, <1>3, <1>4 DEF DataOK
<1>6. ASSUME NEW i \in DOMAIN list'
      PROVE  list'[i] \in DOMAIN heap' /\ nodeByKey'[heap'[list'[i]].key] = list'[i]
  <2>1. e[i] \in DOMAIN list /\ list'[i] = list[e[i]] /\ heap[list[e[i]]].key # k
    BY <1>2
  <2>2. list[e[i]] \in DOMAIN heap /\ nodeByKey[heap[list[e[i]]].key] = list[e[i]]
    BY <1>3, <2>1 DEF MapInv
  <2>3. heap[list[e[i]]].key \in Key
    BY <1>3, <2>2 DEF DataOK, Entries
  <2> QED
    BY <1>1, <1>4, <2>1, <2>2, <2>3
<1>7. ASSUME NEW i \in DOMAIN list', NEW j \in DOMAIN list', list'[i] = list'[j]
      PROVE  i = j
  BY <1>2, <1>3, <1>7 DEF MapInv
<1>8. ASSUME NEW l \in Key, nodeByKey'[l] # nil
      PROVE  (\E i \in DOMAIN list' : list'[i] = nodeByKey'[l]) /\ heap'[nodeByKey'[l]].key = l
  <2>1. l # k /\ nodeByKey'[l] = nodeByKey[l]
    BY <1>4, <1>8
  <2>2. PICK j \in DOMAIN list : list[j] = nodeByKey[l] /\ heap[list[j]].key = l
    BY <1>3, <1>8, <2>1 DEF MapInv
  <2>3. \E i \in DOMAIN list' : list'[i] = list[j]
    BY <1>2, <2>1, <2>2
  <2> QED
    BY <1>1, <2>1, <2>2, <2>3
<1> QED
  BY <1>5, <1>6, <1>7, <1>8 DEF MapInv

\* The list, the map and the nodes after any step.
LEMMA DataStep ==
    ASSUME CacheInv, [Next]_vars
    PROVE  DataOK' /\ MapInv'
<1>0. DataOK /\ MapInv
  BY DataTyped DEF CacheInv
<1>1. ASSUME NEW g \in Goroutine, Clear(g)
      PROVE  DataOK' /\ MapInv'
  <2>1. list' = <<>> /\ nodeByKey' = [k \in Key |-> nil] /\ heap' = heap
    BY <1>1 DEF Clear
  <2> QED
    BY <1>0, <2>1 DEF DataOK, MapInv
<1>2. CASE UNCHANGED cacheVars
  BY <1>0, <1>2 DEF cacheVars, DataOK, MapInv
<1>3. CASE \E g \in Goroutine : Writes(g)
  BY <1>1, <1>3, SetData, AssignData, RemoveData DEF Writes
<1> QED
  BY <1>2, <1>3, OnlyWriters

(***************************************************************************)
(* What calls and answers point to.                                        *)
(***************************************************************************)

\* Nothing writes while a read lock is held,
LEMMA ReadersProtect ==
    ASSUME CacheInv, [Next]_vars, NEW h \in Goroutine, holds[h] > 0
    PROVE  UNCHANGED cacheVars
<1>1. holds[h] # 0
  BY DEF CacheInv, TypeOK, LockTypeOK
<1>2. \A g \in Goroutine : ~Writes(g)
  BY <1>1 DEF Writes, Set, Assign, RemoveKey, Clear, Exclusive, CacheInv, LockInv
<1> QED
  BY <1>2, OnlyWriters

\* and a loop holds one.
LEMMA LoopsHold ==
    ASSUME CacheInv, NEW h \in Goroutine, NEW i \in 1 .. Len(stack[h]),
           stack[h][i].pc \in {"yield", "next"}
    PROVE  holds[h] > 0
<1>1. Len(stack[h]) \in 0 .. 2 /\ holds[h] = Held(h)
  BY DEF CacheInv, FrameInv, LockInv
<1>2. CASE Len(stack[h]) = 2
  BY <1>1, <1>2 DEF Held
<1>3. CASE Len(stack[h]) = 1
  <2>1. stack[h] \in Seq(AnyFrame)
    BY DEF CacheInv, TypeOK
  <2>2. stack[h] # <<>> /\ Top(h) = stack[h][i]
    BY <1>3, <2>1 DEF Top, Last
  <2>3. Reading(h)
    BY <2>2 DEF Reading, At, Idle
  <2> QED
    BY <1>1, <1>3, <2>3 DEF Held
<1> QED
  BY <1>1, <1>2, <1>3

\* A node that exists stays, and keeps its key.
Stays(m) == m \in DOMAIN heap => m \in DOMAIN heap' /\ heap'[m].key = heap[m].key

LEMMA NodesStay ==
    ASSUME CacheInv, [Next]_vars
    PROVE  /\ \A h \in Goroutine : \A i \in 1 .. Len(stack[h]) : Stays(stack[h][i].node)
           /\ \A h \in Goroutine : answer[h] # nil => Stays(answer[h].node)
<1>1. ASSUME \A m \in DOMAIN heap : m \in DOMAIN heap' /\ heap'[m].key = heap[m].key
      PROVE  \A m : Stays(m)
  BY <1>1 DEF Stays
<1>2. CASE UNCHANGED heap
  BY <1>1, <1>2
<1>3. ASSUME NEW g \in Goroutine, NEW field \in {"expiresAt", "value"}, Assign(g, field)
      PROVE  \A m : Stays(m)
  BY <1>1, <1>3, AssignHeap
<1>4. ASSUME NEW g \in Goroutine, Set(g)
      PROVE  /\ \A h \in Goroutine : \A i \in 1 .. Len(stack[h]) : Stays(stack[h][i].node)
             /\ \A h \in Goroutine : answer[h] # nil => Stays(answer[h].node)
  <2> DEFINE kept == Kept(Top(g).call)
             n == SetNode(g)
  <2>1. Renewed(Top(g).call, kept, n)
    BY <1>4, SetNodes DEF CacheInv
  <2>2. /\ kept \in Seq(Node)
        /\ \A i \in 1 .. Len(kept) : kept[i] \in DOMAIN heap
    BY <1>4, SetKept DEF CacheInv, Set
  <2> HIDE DEF kept, n
  <2>3. /\ \A h \in Goroutine : answer[h] # nil => answer[h].node \in InUse(kept)
        /\ \A h \in Goroutine : \A i \in 1 .. Len(stack[h]) :
              stack[h][i].node \in InUse(kept)
        /\ DOMAIN heap \subseteq Node
    BY <2>2, Used DEF CacheInv
  <2>4. nil \notin DOMAIN heap
    BY <2>3, Constants
  <2>5. \A m \in InUse(kept) \ {nil} : m \in DOMAIN heap' /\ heap'[m] = heap[m]
    BY <2>1 DEF Renewed
  <2>6. \A m \in InUse(kept) : Stays(m)
    BY <2>4, <2>5 DEF Stays
  <2> QED
    BY <2>3, <2>6
<1>5. CASE \E g \in Goroutine : RemoveKey(g) \/ Clear(g)
  BY <1>2, <1>5 DEF RemoveKey, Clear
<1>6. CASE UNCHANGED cacheVars
  BY <1>2, <1>6 DEF cacheVars
<1> QED
  BY <1>3, <1>4, <1>5, <1>6, OnlyWriters DEF Writes

\* A frame that a step leaves alone still points where it should.
LEMMA FramesStay ==
    ASSUME CacheInv, [Next]_vars, NEW h \in Goroutine, NEW i \in 1 .. Len(stack[h]),
           NEW f, f = stack[h][i],
           f.pc = "assign" => UNCHANGED cacheVars
    PROVE  (PointerOK(f))'
<1>1. PointerOK(f)
  BY DEF CacheInv, PointerInv
<1>2. CASE UNCHANGED cacheVars
  BY <1>1, <1>2 DEF PointerOK, PointsTo, cacheVars
<1>3. CASE f.pc \in {"yield", "next"}
  BY <1>2, <1>3, LoopsHold, ReadersProtect
<1>4. CASE f.pc \notin {"yield", "next", "assign"}
  <2>1. Stays(f.node)
    BY NodesStay
  <2> QED
    BY <1>1, <1>4, <2>1 DEF PointerOK, PointsTo, Stays
<1> QED
  BY <1>2, <1>3, <1>4

\* A Set is at the bottom of its stack, and at the top.
LEMMA SetIsTop ==
    ASSUME CacheInv, NEW h \in Goroutine, NEW i \in 1 .. Len(stack[h]),
           stack[h][i].pc = "assign"
    PROVE  At(h, "assign") /\ Len(stack[h]) = 1
<1>1. /\ Len(stack[h]) \in 0 .. 2 /\ FrameOK(stack[h][i])
      /\ Len(stack[h]) = 2 => stack[h][1].pc = "next" /\ stack[h][2].call.op \notin Writers
  BY DEF CacheInv, FrameInv
<1>2. stack[h][i].call.op \in Writers
  BY <1>1 DEF FrameOK
<1>3. Len(stack[h]) = 1 /\ i = 1
  BY <1>1, <1>2
<1>4. stack[h] \in Seq(AnyFrame)
  BY DEF CacheInv, TypeOK
<1>5. stack[h] # <<>> /\ Top(h) = stack[h][1]
  BY <1>3, <1>4 DEF Top, Last
<1> QED
  BY <1>3, <1>5 DEF At, Idle

\* The frames of the other goroutines: while one of them is at a Set, nobody
\* else writes.
LEMMA OthersFrames ==
    ASSUME CacheInv, NEW g \in Goroutine, Acts(g), NEW h \in Goroutine, h # g,
           NEW i \in 1 .. Len(stack[h]), NEW f, f = stack[h][i]
    PROVE  (PointerOK(f))'
<1>1. [Next]_vars
  BY DEF Next, Acts
<1>2. ASSUME f.pc = "assign"
      PROVE  UNCHANGED cacheVars
  <2>1. writer = h
    BY <1>2, SetIsTop DEF CacheInv, LockInv
  <2>2. ~Writes(g)
    <3>1. Writes(g) => At(g, "writing") \/ At(g, "assign")
      BY DEF Writes, Set, Assign, RemoveKey, Clear
    <3> QED
      BY <2>1, <3>1 DEF CacheInv, LockInv
  <2> QED
    BY <2>2, OnlyWriter
<1> QED
  BY <1>1, <1>2, FramesStay

\* Where a step of a call leads: to a frame, or to an answer, that points where
\* it should.
LEMMA PointerKinds ==
    ASSUME CacheInv, NEW g \in Goroutine, Step(g) \/ CallLock(g)
    PROVE  \/ \E f : Moves(g, f) /\ (PointerOK(f))'
           \/ \E a : /\ Return(g, a)
                     /\ a # nil =>
                           \/ a.node = nil
                           \/ a.node \in DOMAIN heap' /\ heap'[a.node].key = a.call.key
           \/ \E op \in InLoop : \E c \in Call(op) : BodyCall(g, c)
<1>0. MapInv /\ [Next]_vars /\ Acts(g) /\ DataOK
  BY DataTyped DEF CacheInv, Next, Acts
<1>1. ASSUME UNCHANGED cacheVars, NEW f, PointerOK(f)
      PROVE  (PointerOK(f))'
  BY <1>1 DEF cacheVars, PointerOK, PointsTo
<1>2. CASE CallRLock(g) \/ CallLock(g)
  <2>1. UNCHANGED cacheVars
    BY <1>2 DEF CallRLock, CallLock
  <2>2. ~Idle(g)
    BY <1>2, CallRLockStep, CallLockStep
  <2>3. PICK f : Moves(g, f) /\ f.pc \in {"reading", "writing"} /\ f.node = Top(g).node
    BY <1>2, CallRLockStep, CallLockStep
  <2>4. PointerOK(f)
    BY <2>2, <2>3, TopFacts DEF PointerOK
  <2> QED
    BY <1>1, <2>1, <2>3, <2>4
<1>3. CASE Lookup(g)
  <2>1. UNCHANGED cacheVars
    BY <1>3 DEF Lookup
  <2>2. ~Idle(g) /\ Top(g).call.key \in Key
    BY <1>3, LookupStep
  <2>3. ASSUME NEW f, Moves(g, f), f.pc = "check", f.node = nodeByKey[f.call.key],
               f.node \in Node, nodeByKey[Top(g).call.key] # nil
        PROVE  (PointerOK(f))'
    <3>1. f.call = Top(g).call
      BY <2>3 DEF Moves
    <3>2. (\E j \in DOMAIN list : list[j] = f.node) /\ heap[f.node].key = f.call.key
      BY <1>0, <2>2, <2>3, <3>1 DEF MapInv
    <3>3. f.node \in DOMAIN heap
      BY <1>0, <3>2 DEF MapInv
    <3>4. PointerOK(f)
      BY <2>3, <3>1, <3>2, <3>3 DEF PointerOK, PointsTo
    <3> QED
      BY <1>1, <2>1, <3>4
  <2>4. LET a == Answer(g, nodeByKey[Top(g).call.key] # nil, nil, nil) IN a.node = nil
    BY DEF Answer
  <2> QED
    BY <1>3, <2>3, <2>4, LookupStep
<1>4. CASE CheckExpiry(g)
  <2>1. UNCHANGED cacheVars
    BY <1>4 DEF CheckExpiry
  <2>2. ~Idle(g) /\ Top(g).pc = "check"
    BY <1>4, CheckExpiryStep
  <2>3. PointerOK(Top(g)) /\ Top(g).node \in Node \cup {nil}
    BY <2>2, TopFacts
  <2>4. Top(g).node # nil /\ PointsTo(Top(g).node, Top(g).call.key)
    BY <2>2, <2>3 DEF PointerOK
  <2>5. ASSUME NEW f, Moves(g, f), f.pc = "load", f.node = Top(g).node
        PROVE  (PointerOK(f))'
    <3>1. f.call = Top(g).call
      BY <2>5 DEF Moves
    <3>2. PointerOK(f)
      BY <2>3, <2>4, <2>5, <3>1 DEF PointerOK
    <3> QED
      BY <1>1, <2>1, <3>2
  <2>6. /\ Answer(g, FALSE, nil, nil).node = nil
        /\ Answer(g, TRUE, nil, Top(g).node).node = Top(g).node
        /\ Answer(g, TRUE, nil, Top(g).node).call = Top(g).call
    BY DEF Answer
  <2>7. Top(g).node \in DOMAIN heap' /\ heap'[Top(g).node].key = Top(g).call.key
    BY <2>1, <2>4 DEF PointsTo, cacheVars
  <2> QED
    BY <1>4, <2>5, <2>6, <2>7, CheckExpiryStep
<1>5. CASE LoadValue(g)
  <2>1. Answer(g, TRUE, heap[Top(g).node].value, nil).node = nil
    BY DEF Answer
  <2> QED
    BY <1>5, <2>1, LoadValueStep
<1>6. CASE TryContains(g)
  <2> DEFINE a == Answer(g, writer = nil /\ nodeByKey[Top(g).call.key] # nil, nil, nil)
  <2>1. Return(g, a) /\ a.node = nil
    BY <1>6 DEF TryContains, Answer
  <2> QED
    BY <2>1
<1>7. CASE Set(g)
  <2>1. PICK f : /\ Moves(g, f) /\ f.pc = "assign" /\ f.node = SetNode(g)
    BY <1>7, SetStep
  <2> DEFINE kept == Kept(Top(g).call)
  <2>2. Renewed(Top(g).call, kept, SetNode(g)) /\ Top(g).call.key \in Key
    BY <1>7, SetNodes, SetCall DEF CacheInv, Set
  <2> HIDE DEF kept
  <2>3. f.node \in Node /\ f.node \in DOMAIN heap' /\ nodeByKey'[f.call.key] = f.node
    BY <2>1, <2>2, Constants DEF Renewed, Moves
  <2>4. (PointerOK(f))'
    BY <2>1, <2>3, Constants DEF PointerOK
  <2> QED
    BY <2>1, <2>4
<1>8. ASSUME NEW field \in {"expiresAt", "value"}, Assign(g, field)
      PROVE  \E f : Moves(g, f) /\ (PointerOK(f))'
  <2>1. ~Idle(g) /\ Top(g).pc = "assign"
    BY <1>8, AssignStep
  <2>2. PICK f : Moves(g, f) /\ f.pc = "assign" /\ f.node = Top(g).node
    BY <1>8, AssignStep
  <2>3. nodeByKey' = nodeByKey /\ DOMAIN heap' = DOMAIN heap
    BY <1>8, AssignHeap
  <2>4. PointerOK(Top(g)) /\ f.call = Top(g).call
    BY <2>1, <2>2, TopFacts DEF Moves
  <2>5. (PointerOK(f))'
    BY <2>1, <2>2, <2>3, <2>4 DEF PointerOK
  <2> QED
    BY <2>2, <2>5
<1>9. CASE FinishSet(g) \/ RemoveKey(g) \/ Clear(g) \/ Break(g)
  BY <1>9 DEF FinishSet, RemoveKey, Clear, Break
<1>10. CASE StartLoop(g) \/ Advance(g)
  <2>1. UNCHANGED cacheVars /\ LoopStep(g)
    BY <1>10, StartLoopStep, AdvanceStep DEF StartLoop, Advance
  <2>2. ASSUME NEW f, Moves(g, f), f.pc = "yield", NEW j \in DOMAIN list, list[j] = f.node
        PROVE  (PointerOK(f))'
    <3>1. f.node \in DOMAIN heap
      BY <1>0, <2>2 DEF MapInv
    <3>2. PointerOK(f)
      BY <2>2, <3>1 DEF PointerOK
    <3> QED
      BY <1>1, <2>1, <3>2
  <2> QED
    BY <2>1, <2>2 DEF LoopStep
<1>11. CASE Body(g)
  <2>1. UNCHANGED cacheVars /\ ~Idle(g) /\ Top(g).pc = "yield"
    BY <1>11, BodyStep DEF Body
  <2>2. PICK f : Moves(g, f) /\ f.pc = "next" /\ f.node = Top(g).node
    BY <1>11, BodyStep
  <2>3. PointerOK(f)
    BY <2>1, <2>2, TopFacts DEF PointerOK
  <2> QED
    BY <1>1, <2>1, <2>2, <2>3
<1> QED
  BY <1>2, <1>3, <1>4, <1>5, <1>6, <1>7, <1>8, <1>9, <1>10, <1>11 DEF Step

LEMMA PointerStep ==
    ASSUME CacheInv, [Next]_vars
    PROVE  PointerInv'
<1>0. stack \in Stacks /\ FrameInv /\ answer \in [Goroutine -> AnyAnswer \cup {nil}]
  BY Stacked DEF CacheInv, TypeOK
<1>1. CASE UNCHANGED vars
  <2>1. stack' = stack /\ answer' = answer /\ UNCHANGED cacheVars
    BY <1>1 DEF vars, cacheVars
  <2> QED
    BY <2>1 DEF CacheInv, PointerInv, PointerOK, PointsTo, cacheVars
<1>2. ASSUME NEW g \in Goroutine, Acts(g),
             \A h \in Goroutine : h # g => stack'[h] = stack[h] /\ answer'[h] = answer[h],
             \A i \in 1 .. Len(stack'[g]) : (PointerOK(stack[g][i]))',
             (answer[g] # nil => PointsTo(answer[g].node, answer[g].call.key))'
      PROVE  PointerInv'
  <2>1. [Next]_vars
    BY <1>2 DEF Next, Acts
  <2>2. ASSUME NEW h \in Goroutine, h # g
        PROVE  /\ \A i \in 1 .. Len(stack'[h]) : (PointerOK(stack[h][i]))'
               /\ (answer[h] # nil => PointsTo(answer[h].node, answer[h].call.key))'
    <3>1. stack'[h] = stack[h] /\ answer'[h] = answer[h]
      BY <1>2, <2>2
    <3>2. ASSUME NEW i \in 1 .. Len(stack'[h])
          PROVE  (PointerOK(stack[h][i]))'
      <4>1. i \in 1 .. Len(stack[h])
        BY <3>1
      <4>2. PICK f : f = stack[h][i]
        OBVIOUS
      <4>3. (PointerOK(f))' /\ f = stack'[h][i]
        BY <1>2, <2>2, <3>1, <4>1, <4>2, OthersFrames
      <4> QED
        BY <4>3
    <3>3. answer[h] # nil => Stays(answer[h].node) /\ PointsTo(answer[h].node, answer[h].call.key)
      BY <2>1, NodesStay DEF CacheInv, PointerInv
    <3>4. (answer[h] # nil => PointsTo(answer[h].node, answer[h].call.key))'
      BY <3>1, <3>3 DEF PointsTo, Stays
    <3> QED
      BY <3>2, <3>4
  <2> QED
    BY <1>2, <2>2 DEF PointerInv
<1>3. ASSUME NEW g \in Goroutine, NEW op \in Operation, NEW c \in Call(op), Begin(g, c)
      PROVE  PointerInv'
  <2>1. c \in AnyCall /\ Acts(g)
    BY <1>3, Constants, Arguments DEF Acts
  <2>2. /\ Len(stack'[g]) = 1 /\ stack'[g][1] = Frame(c)
        /\ \A h \in Goroutine : h # g => stack'[h] = stack[h]
    BY <1>0, <1>3, <2>1, Begun
  <2>3. answer' = [answer EXCEPT ![g] = nil]
    BY <1>3 DEF Begin
  <2>4. answer'[g] = nil /\ \A h \in Goroutine : h # g => answer'[h] = answer[h]
    BY <1>0, <2>3
  <2>5. Frame(c).node = nil /\ Frame(c).pc \in {"lock", "try", "rlock"}
    BY <2>1, NewFrame
  <2>6. ASSUME NEW i \in 1 .. Len(stack'[g])
        PROVE  (PointerOK(stack[g][i]))'
    <3>1. i = 1
      BY <2>2
    <3> QED
      BY <2>2, <2>5, <3>1 DEF PointerOK
  <2> QED
    BY <1>2, <2>1, <2>2, <2>4, <2>6
<1>4. ASSUME NEW g \in Goroutine, Step(g) \/ CallLock(g)
      PROVE  PointerInv'
  <2>1. ~Idle(g) /\ Acts(g) /\ [Next]_vars
    BY <1>4, StepKinds DEF Acts, Next
  <2>2. /\ Len(stack[g]) \in 1 .. 2 /\ answer[g] = nil
        /\ Len(stack[g]) = 2 => stack[g][1].pc = "next"
    BY <1>0, <2>1, TopFacts DEF FrameInv
  <2>3. Len(stack[g]) = 2 /\ stack'[g][1] = stack[g][1] => (PointerOK(stack[g][1]))'
    <3>1. SUFFICES ASSUME Len(stack[g]) = 2, stack'[g][1] = stack[g][1]
                   PROVE  (PointerOK(stack[g][1]))'
      OBVIOUS
    <3>2. PICK f : f = stack[g][1]
      OBVIOUS
    <3>3. 1 \in 1 .. Len(stack[g]) /\ f.pc # "assign"
      BY <2>2, <3>1, <3>2
    <3>4. (PointerOK(f))' /\ f = stack'[g][1]
      BY <2>1, <3>1, <3>2, <3>3, FramesStay
    <3> QED
      BY <3>4
  <2>4. ASSUME NEW f, Moves(g, f), (PointerOK(f))'
        PROVE  PointerInv'
    <3>1. f \in AnyFrame /\ Update(g, f) /\ answer' = answer
      BY <2>4 DEF Moves
    <3>2. /\ Len(stack'[g]) = Len(stack[g])
          /\ stack'[g][Len(stack[g])] = f
          /\ \A i \in 1 .. Len(stack[g]) - 1 : stack'[g][i] = stack[g][i]
          /\ \A h \in Goroutine : h # g => stack'[h] = stack[h]
      BY <1>0, <2>1, <3>1, Updated
    <3>3. ASSUME NEW i \in 1 .. Len(stack'[g])
          PROVE  (PointerOK(stack[g][i]))'
      <4>1. i = Len(stack[g]) \/ (i = 1 /\ Len(stack[g]) = 2 /\ stack'[g][1] = stack[g][1])
        BY <2>2, <3>2
      <4>2. CASE i = Len(stack[g])
        <5>1. stack'[g][i] = f
          BY <3>2, <4>2
        <5> QED
          BY <2>4, <5>1
      <4> QED
        BY <2>3, <4>1, <4>2
    <3> QED
      BY <1>2, <2>1, <2>2, <3>1, <3>2, <3>3
  <2>5. ASSUME NEW a, Return(g, a),
               a # nil => \/ a.node = nil
                          \/ a.node \in DOMAIN heap' /\ heap'[a.node].key = a.call.key
        PROVE  PointerInv'
    <3>1. /\ Len(stack'[g]) = Len(stack[g]) - 1
          /\ \A i \in 1 .. Len(stack[g]) - 1 : stack'[g][i] = stack[g][i]
          /\ \A h \in Goroutine : h # g => stack'[h] = stack[h]
          /\ answer' = IF Len(stack[g]) = 1 THEN [answer EXCEPT ![g] = a] ELSE answer
      BY <1>0, <2>1, <2>5, Returned
    <3>2. /\ \A h \in Goroutine : h # g => answer'[h] = answer[h]
          /\ answer'[g] = a \/ answer'[g] = nil
      BY <1>0, <2>2, <3>1
    <3>3. (answer[g] # nil => PointsTo(answer[g].node, answer[g].call.key))'
      BY <2>5, <3>2 DEF PointsTo
    <3>4. ASSUME NEW i \in 1 .. Len(stack'[g])
          PROVE  (PointerOK(stack[g][i]))'
      <4>1. i = 1 /\ Len(stack[g]) = 2 /\ stack'[g][1] = stack[g][1]
        <5>1. \A l \in 1 .. 2 : \A j \in 1 .. l - 1 : j = 1 /\ l = 2 /\ j \in 1 .. 2 - 1
          OBVIOUS
        <5>2. i \in 1 .. Len(stack[g]) - 1
          BY <3>1
        <5> QED
          BY <2>2, <3>1, <5>1, <5>2
      <4> QED
        BY <2>3, <4>1
    <3> QED
      BY <1>2, <2>1, <3>1, <3>2, <3>3, <3>4
  <2>6. ASSUME NEW op \in InLoop, NEW c \in Call(op), BodyCall(g, c)
        PROVE  PointerInv'
    <3>1. c \in AnyCall
      BY Constants, Arguments
    <3>2. /\ Len(stack[g]) = 1 /\ stack[g][1] = Top(g)
          /\ Len(stack'[g]) = 2
          /\ stack'[g][1] = [Top(g) EXCEPT !.pc = "next"]
          /\ stack'[g][2] = Frame(c)
          /\ \A h \in Goroutine : h # g => stack'[h] = stack[h]
      BY <1>0, <2>6, <3>1, BodyCalled
    <3>3. answer' = answer /\ UNCHANGED cacheVars /\ Top(g).pc = "yield"
      BY <2>6 DEF BodyCall, At
    <3>4. Top(g) \in AnyFrame /\ PointerOK(Top(g))
      BY <2>1, TopFacts
    <3>5. /\ stack'[g][1].pc = "next" /\ stack'[g][1].node = Top(g).node
          /\ stack'[g][1].call = Top(g).call
      BY <3>2, <3>4, MovedPc DEF Places
    <3>6. /\ Top(g).node \in DOMAIN heap' \cup {nil}
          /\ \E j \in DOMAIN list' : list'[j] = Top(g).node
      BY <3>3, <3>4 DEF PointerOK, cacheVars
    <3>7. (PointerOK(stack[g][1]))'
      BY <3>5, <3>6 DEF PointerOK
    <3>8. Frame(c).node = nil /\ Frame(c).pc \in {"lock", "try", "rlock"}
      BY <3>1, NewFrame
    <3>9. (PointerOK(stack[g][2]))'
      BY <3>2, <3>8 DEF PointerOK
    <3>10. ASSUME NEW i \in 1 .. Len(stack'[g])
           PROVE  (PointerOK(stack[g][i]))'
      <4>1. i = 1 \/ i = 2
        BY <3>2
      <4> QED
        BY <3>7, <3>9, <4>1
    <3> QED
      BY <1>2, <2>1, <2>2, <3>2, <3>3, <3>10
  <2> QED
    BY <1>4, <2>4, <2>5, <2>6, PointerKinds
<1> QED
  BY <1>1, <1>3, <1>4 DEF Next

(***************************************************************************)
(* The order of the list.                                                  *)
(***************************************************************************)

Fields == {"expiresAt", "value"}

\* Fields that nobody is writing are settled, and those of the Set under way
\* are what it writes.
LEMMA SettledNow ==
    ASSUME CacheInv, NEW m, NEW field
    PROVE  /\ (\A h \in Goroutine : ~At(h, "assign")) => Settled(m, field) = heap[m][field]
           /\ \A h \in Goroutine : At(h, "assign") =>
                 Settled(m, field) = IF Top(h).node = m
                                         THEN Top(h).call.expiresAt ELSE heap[m][field]
<1>1. writer \in Goroutine \cup {nil} /\ LockInv
  BY DEF CacheInv, TypeOK, LockTypeOK
<1>2. ASSUME NEW h \in Goroutine, At(h, "assign")
      PROVE  writer = h /\ writer # nil
  BY <1>1, <1>2, Constants DEF LockInv
<1> QED
  BY <1>1, <1>2 DEF Settled

LEMMA SettledNext ==
    ASSUME CacheInv, [Next]_vars, NEW m, NEW field
    PROVE  /\ (\A h \in Goroutine : ~(At(h, "assign"))') =>
                 (Settled(m, field))' = heap'[m][field]
           /\ \A h \in Goroutine : (At(h, "assign"))' =>
                 (Settled(m, field))' =
                    IF (Top(h))'.node = m
                        THEN (Top(h))'.call.expiresAt ELSE heap'[m][field]
<1>1. writer' \in Goroutine \cup {nil} /\ LockInv'
  BY LockStep DEF LockTypeOK
<1>2. ASSUME NEW h \in Goroutine, (At(h, "assign"))'
      PROVE  writer' = h /\ writer' # nil
  BY <1>1, <1>2, Constants DEF LockInv
<1> QED
  BY <1>1, <1>2 DEF Settled

\* A step of g leaves the calls of the others where they are.
LEMMA OthersStay ==
    ASSUME CacheInv, NEW g \in Goroutine, Acts(g), NEW h \in Goroutine, h # g
    PROVE  stack'[h] = stack[h] /\ (Top(h))' = Top(h) /\ \A pc : (At(h, pc))' <=> At(h, pc)
<1>0. stack \in Stacks
  BY Stacked DEF CacheInv
<1>1. ASSUME NEW op \in Operation, NEW c \in Call(op), Begin(g, c)
      PROVE  stack'[h] = stack[h]
  BY <1>0, <1>1 DEF Begin, Stacks
<1>2. ASSUME Step(g) \/ CallLock(g)
      PROVE  stack'[h] = stack[h]
  <2>1. ASSUME NEW f, Update(g, f)
        PROVE  stack'[h] = stack[h]
    BY <1>0, <2>1 DEF Update, Stacks
  <2>2. ASSUME NEW a, Return(g, a)
        PROVE  stack'[h] = stack[h]
    BY <1>0, <2>2 DEF Return, Stacks
  <2>3. ASSUME NEW op \in InLoop, NEW c \in Call(op), BodyCall(g, c)
        PROVE  stack'[h] = stack[h]
    BY <1>0, <2>3 DEF BodyCall, Stacks
  <2> QED
    BY <1>2, <2>1, <2>2, <2>3, StepKinds DEF Moves
<1>3. stack'[h] = stack[h]
  BY <1>1, <1>2 DEF Acts
<1> QED
  BY <1>3 DEF At, Idle, Top

\* Only a Set and its assignments lead to an assignment.
LEMMA NotAtAssign ==
    ASSUME CacheInv, NEW g \in Goroutine, Acts(g), ~Set(g),
           \A field \in Fields : ~Assign(g, field)
    PROVE  ~(At(g, "assign"))'
<1>0. stack \in Stacks /\ FrameInv
  BY Stacked DEF CacheInv
<1>1. ASSUME NEW op \in Operation, NEW c \in Call(op), Begin(g, c)
      PROVE  ~(At(g, "assign"))'
  <2>1. c \in AnyCall
    BY Constants, Arguments
  <2> QED
    BY <1>0, <1>1, <2>1, Begun, NewFrame
<1>2. ASSUME NEW op \in InLoop, NEW c \in Call(op), BodyCall(g, c)
      PROVE  ~(At(g, "assign"))'
  <2>1. c \in AnyCall
    BY Constants, Arguments
  <2>2. Frame(c).pc # "assign"
    BY <2>1, NewFrame
  <2> QED
    BY <1>0, <1>2, <2>1, <2>2, BodyCalled
<1>3. ASSUME ~Idle(g), NEW f, Moves(g, f), f.pc # "assign"
      PROVE  ~(At(g, "assign"))'
  BY <1>3, HeldMoved
<1>4. ASSUME ~Idle(g), NEW a, Return(g, a)
      PROVE  ~(At(g, "assign"))'
  BY <1>4, HeldReturned
<1>5. CASE Step(g) \/ CallLock(g)
  <2>1. ~Idle(g)
    BY <1>5, StepKinds
  <2>2. CASE CallRLock(g) \/ CallLock(g) \/ Body(g)
    BY <1>3, <2>1, <2>2, CallRLockStep, CallLockStep, BodyStep
  <2>3. CASE Lookup(g)
    BY <1>3, <1>4, <2>1, <2>3, LookupStep
  <2>4. CASE CheckExpiry(g)
    BY <1>3, <1>4, <2>1, <2>4, CheckExpiryStep
  <2>5. CASE LoadValue(g)
    BY <1>4, <2>1, <2>5, LoadValueStep
  <2>6. CASE TryContains(g)
    BY <1>4, <2>1, <2>6 DEF TryContains
  <2>7. CASE FinishSet(g) \/ RemoveKey(g) \/ Clear(g) \/ Break(g)
    BY <1>4, <2>1, <2>7 DEF FinishSet, RemoveKey, Clear, Break
  <2>8. CASE StartLoop(g) \/ Advance(g)
    BY <1>3, <1>4, <2>1, <2>8, StartLoopStep, AdvanceStep DEF LoopStep
  <2> QED
    BY <1>2, <1>5, <2>2, <2>3, <2>4, <2>5, <2>6, <2>7, <2>8 DEF Step, Fields
<1> QED
  BY <1>1, <1>5 DEF Acts

\* A step that writes nothing unsettles nothing: a Set ends when it has
\* written both fields.
LEMMA SettledStays ==
    ASSUME CacheInv, NEW g \in Goroutine, Acts(g), ~Writes(g), NEW m, NEW field \in Fields
    PROVE  (Settled(m, field))' = Settled(m, field)
<1>0. [Next]_vars /\ heap' = heap
  BY OnlyWriter DEF Next, Acts, cacheVars
<1>1. ~(At(g, "assign"))'
  BY NotAtAssign DEF Writes, Fields
<1>2. \A h \in Goroutine : h # g =>
         (Top(h))' = Top(h) /\ ((At(h, "assign"))' <=> At(h, "assign"))
  BY OthersStay
<1>3. CASE \A h \in Goroutine : ~At(h, "assign")
  <2>1. \A h \in Goroutine : ~(At(h, "assign"))'
    BY <1>1, <1>2, <1>3
  <2> QED
    BY <1>0, <1>3, <2>1, SettledNow, SettledNext
<1>4. ASSUME NEW h \in Goroutine, At(h, "assign"), h # g
      PROVE  (Settled(m, field))' = Settled(m, field)
  <2>1. (At(h, "assign"))' /\ (Top(h))' = Top(h)
    BY <1>2, <1>4
  <2>2. Settled(m, field) = IF Top(h).node = m
                                THEN Top(h).call.expiresAt ELSE heap[m][field]
    BY <1>4, SettledNow
  <2>3. (Settled(m, field))' =
           IF (Top(h))'.node = m THEN (Top(h))'.call.expiresAt ELSE heap'[m][field]
    BY <1>0, <2>1, SettledNext
  <2> QED
    BY <1>0, <2>1, <2>2, <2>3
<1>5. CASE At(g, "assign")
  <2>1. FinishSet(g)
    <3>1. ~Idle(g) /\ Top(g).pc = "assign"
      BY <1>5 DEF At
    <3>2. Step(g)
      BY <3>1, CallLockStep DEF Acts, Begin
    <3> QED
      BY <3>1, <3>2, CallRLockStep, LookupStep, CheckExpiryStep, LoadValueStep,
         StartLoopStep, AdvanceStep, BodyStep
         DEF Step, Writes, TryContains, BodyCall, Break, At
  <2>2. Top(g).todo = {}
    BY <2>1 DEF FinishSet
  <2>3. heap[Top(g).node][field] = Top(g).call.expiresAt
    BY <1>5, <2>2 DEF CacheInv, OrderInv, Fields
  <2>4. Settled(m, field) = heap[m][field]
    BY <1>5, <2>3, SettledNow
  <2>5. \A h \in Goroutine : ~At(h, "assign") \/ h = g
    BY <1>5 DEF CacheInv, LockInv
  <2>6. \A h \in Goroutine : ~(At(h, "assign"))'
    BY <1>1, <1>2, <2>5
  <2> QED
    BY <1>0, <2>4, <2>6, SettledNext
<1> QED
  BY <1>3, <1>4, <1>5

\* The order of the list in terms of what is settled, and the calls that are
\* writing.
Sorted ==
    /\ \A i, j \in DOMAIN list :
          i < j => Settled(list[i], "expiresAt") <= Settled(list[j], "expiresAt")
    /\ \A i \in DOMAIN list : Settled(list[i], "value") = Settled(list[i], "expiresAt")

Written(h) ==
    At(h, "assign") =>
        \A field \in Fields \ Top(h).todo :
            heap[Top(h).node][field] = Top(h).call.expiresAt

LEMMA OrderParts == OrderInv <=> Sorted /\ \A h \in Goroutine : Written(h)
BY DEF OrderInv, Sorted, Written, Fields

\* A list none of whose nodes are unsettled stays in order.
LEMMA SortedStays ==
    ASSUME CacheInv, list' = list,
           \A i \in DOMAIN list : \A field \in Fields :
              (Settled(list[i], field))' = Settled(list[i], field)
    PROVE  Sorted'
<1>1. Sorted
  BY OrderParts DEF CacheInv
<1>2. \A i \in DOMAIN list' : \A field \in Fields :
         (Settled(list[i], field))' = Settled(list[i], field)
  BY Zenon
<1> QED
  BY <1>1, <1>2 DEF Sorted, Fields

LEMMA OrderReads ==
    ASSUME CacheInv, NEW g \in Goroutine, Acts(g), ~Writes(g)
    PROVE  OrderInv'
<1>1. UNCHANGED cacheVars
  BY OnlyWriter
<1>2. list' = list /\ heap' = heap
  BY <1>1 DEF cacheVars
<1>3. ASSUME NEW i \in DOMAIN list, NEW field \in Fields
      PROVE  (Settled(list[i], field))' = Settled(list[i], field)
  <2>1. PICK m : m = list[i]
    OBVIOUS
  <2>2. (Settled(m, field))' = Settled(m, field) /\ m = list'[i]
    BY <1>2, <2>1, SettledStays
  <2> QED
    BY <2>1, <2>2
<1>4. Sorted'
  BY <1>2, <1>3, SortedStays
<1>5. ASSUME NEW h \in Goroutine
      PROVE  (Written(h))'
  <2>1. CASE h = g
    BY <2>1, NotAtAssign DEF Written, Writes, Fields
  <2>2. CASE h # g
    <3>1. Written(h)
      BY OrderParts DEF CacheInv
    <3> QED
      BY <1>2, <2>2, <3>1, OthersStay DEF Written
  <2> QED
    BY <2>1, <2>2
<1>6. (OrderInv <=> Sorted /\ \A h \in Goroutine : Written(h))'
  BY OrderParts, PTL
<1> QED
  BY <1>4, <1>5, <1>6

\* The other calls are not writing while g is.
LEMMA OthersWait ==
    ASSUME CacheInv, NEW g \in Goroutine, Acts(g),
           At(g, "writing") \/ At(g, "assign")
    PROVE  \A h \in Goroutine : h # g => ~At(h, "assign") /\ ~(At(h, "assign"))'
<1>1. \A h \in Goroutine : h # g => ~At(h, "assign")
  BY DEF CacheInv, LockInv
<1> QED
  BY <1>1, OthersStay

\* An assignment writes what was already settled.
LEMMA AssignSettled ==
    ASSUME CacheInv, NEW g \in Goroutine, NEW field \in Fields, Assign(g, field),
           NEW m \in DOMAIN heap, NEW other \in Fields
    PROVE  (Settled(m, other))' = Settled(m, other)
<1>1. Acts(g) /\ [Next]_vars /\ At(g, "assign") /\ ~Idle(g)
  BY DEF Acts, Step, Next, Fields, Assign, At
<1>2. m # Top(g).node => heap'[m] = heap[m]
  BY AssignHeap DEF Fields
<1>3. PICK f : Moves(g, f) /\ f.pc = "assign" /\ f.node = Top(g).node
  BY AssignStep
<1>4. (At(g, "assign"))' /\ (Top(g))' = f /\ f.call = Top(g).call
  <2>1. stack \in Stacks /\ f \in AnyFrame /\ Update(g, f) /\ f.call = Top(g).call
    BY <1>3, Stacked DEF CacheInv, Moves
  <2> QED
    BY <1>1, <1>3, <2>1, Updated DEF At
<1>5. Settled(m, other) = IF Top(g).node = m
                              THEN Top(g).call.expiresAt ELSE heap[m][other]
  BY <1>1, SettledNow
<1>6. (Settled(m, other))' =
         IF (Top(g))'.node = m THEN (Top(g))'.call.expiresAt ELSE heap'[m][other]
  BY <1>1, <1>4, SettledNext
<1> QED
  BY <1>2, <1>3, <1>4, <1>5, <1>6

LEMMA OrderAssign ==
    ASSUME CacheInv, NEW g \in Goroutine, NEW field \in Fields, Assign(g, field)
    PROVE  OrderInv'
<1>1. Acts(g) /\ [Next]_vars
  BY DEF Acts, Step, Next, Fields
<1>2. /\ list' = list /\ Top(g).node \in DOMAIN heap
      /\ heap'[Top(g).node][field] = Top(g).call.expiresAt
      /\ \A other \in Fields : other # field =>
            heap'[Top(g).node][other] = heap[Top(g).node][other]
  BY AssignHeap DEF Fields
<1>3. At(g, "assign") /\ ~Idle(g)
  BY DEF Assign, At
<1>4. PICK f : /\ Moves(g, f) /\ f.pc = "assign" /\ f.node = Top(g).node
               /\ f.todo = Top(g).todo \ {field}
  BY AssignStep
<1>5. (At(g, "assign"))' /\ (Top(g))' = f /\ f.call = Top(g).call
  <2>1. stack \in Stacks /\ f \in AnyFrame /\ Update(g, f) /\ f.call = Top(g).call
    BY <1>4, Stacked DEF CacheInv, Moves
  <2> QED
    BY <1>3, <1>4, <2>1, Updated DEF At
<1>6. ASSUME NEW i \in DOMAIN list, NEW other \in Fields
      PROVE  (Settled(list[i], other))' = Settled(list[i], other)
  <2>1. PICK m : m = list[i]
    OBVIOUS
  <2>2. m \in DOMAIN heap /\ m = list'[i]
    BY <1>2, <2>1 DEF CacheInv, MapInv
  <2>3. (Settled(m, other))' = Settled(m, other)
    BY <2>2, AssignSettled
  <2> QED
    BY <2>1, <2>2, <2>3
<1>7. Sorted'
  BY <1>2, <1>6, SortedStays
<1>8. ASSUME NEW h \in Goroutine
      PROVE  (Written(h))'
  <2>1. CASE h # g
    BY <1>1, <1>3, <2>1, OthersWait DEF Written
  <2>2. CASE h = g
    <3>1. \A other \in Fields \ Top(g).todo :
             heap[Top(g).node][other] = Top(g).call.expiresAt
      BY <1>3, OrderParts DEF CacheInv, Written
    <3>2. \A other \in Fields \ f.todo : heap'[f.node][other] = f.call.expiresAt
      BY <1>2, <1>4, <1>5, <3>1
    <3> QED
      BY <1>5, <2>2, <3>2 DEF Written
  <2> QED
    BY <2>1, <2>2
<1>9. (OrderInv <=> Sorted /\ \A h \in Goroutine : Written(h))'
  BY OrderParts, PTL
<1> QED
  BY <1>7, <1>8, <1>9

\* Once nobody is writing, fields are what they are.
LEMMA NobodyWrites ==
    ASSUME CacheInv, NEW g \in Goroutine, RemoveKey(g) \/ Clear(g)
    PROVE  /\ \A h \in Goroutine : ~(At(h, "assign"))'
           /\ \A m, field : Settled(m, field) = heap[m][field]
           /\ \A m, field : (Settled(m, field))' = heap'[m][field]
           /\ heap' = heap
<1>1. At(g, "writing") /\ Top(g).pc = "writing" /\ Step(g) /\ heap' = heap
  BY DEF RemoveKey, Clear, At, Step
<1>2. Acts(g) /\ [Next]_vars
  BY <1>1 DEF Acts, Next
<1>3. ~Set(g) /\ \A field \in Fields : ~Assign(g, field)
  BY <1>1 DEF RemoveKey, Clear, Set, Assign, At, Setters
<1>4. \A h \in Goroutine : ~(At(h, "assign"))'
  BY <1>1, <1>2, <1>3, NotAtAssign, OthersWait
<1>5. \A h \in Goroutine : ~At(h, "assign")
  BY <1>1, <1>2, OthersWait DEF At
<1> QED
  BY <1>1, <1>2, <1>4, <1>5, SettledNow, SettledNext

LEMMA OrderRemove ==
    ASSUME CacheInv, NEW g \in Goroutine, RemoveKey(g) \/ Clear(g)
    PROVE  OrderInv'
<1>1. /\ \A h \in Goroutine : ~(At(h, "assign"))'
      /\ \A m, field : Settled(m, field) = heap[m][field]
      /\ \A m, field : (Settled(m, field))' = heap'[m][field]
      /\ heap' = heap
  BY NobodyWrites
<1>2. /\ \A i, j \in DOMAIN list :
            i < j => heap[list[i]].expiresAt <= heap[list[j]].expiresAt
      /\ \A i \in DOMAIN list : heap[list[i]].value = heap[list[i]].expiresAt
  <2>1. OrderInv
    BY DEF CacheInv
  <2> QED
    BY <1>1, <2>1 DEF OrderInv
<1>3. /\ \A i, j \in DOMAIN list' :
            i < j => heap[list'[i]].expiresAt <= heap[list'[j]].expiresAt
      /\ \A i \in DOMAIN list' : heap[list'[i]].value = heap[list'[i]].expiresAt
  <2>1. CASE Clear(g)
    <3>1. list' = <<>>
      BY <2>1 DEF Clear
    <3> QED
      BY <3>1
  <2>2. CASE RemoveKey(g)
    <3>1. \E e \in [DOMAIN list' -> DOMAIN list] :
             /\ \A i \in DOMAIN list' : list'[i] = list[e[i]]
             /\ \A i, j \in DOMAIN list' : i < j => e[i] < e[j]
      BY <2>2, RemoveList
    <3>2. PICK e \in [DOMAIN list' -> DOMAIN list] :
             /\ \A i \in DOMAIN list' : list'[i] = list[e[i]]
             /\ \A i, j \in DOMAIN list' : i < j => e[i] < e[j]
      BY <3>1
    <3>3. \A i \in DOMAIN list' : e[i] \in DOMAIN list
      BY <3>2
    <3> QED
      BY <1>2, <3>2, <3>3
  <2> QED
    BY <2>1, <2>2
<1>4. Sorted'
  BY <1>1, <1>3 DEF Sorted
<1>5. ASSUME NEW h \in Goroutine
      PROVE  (Written(h))'
  BY <1>1 DEF Written
<1>6. (OrderInv <=> Sorted /\ \A h \in Goroutine : Written(h))'
  BY OrderParts, PTL
<1> QED
  BY <1>4, <1>5, <1>6

\* What is settled once a Set is at its assignments.
LEMMA SetSettled ==
    ASSUME CacheInv, NEW g \in Goroutine, Set(g), NEW m, NEW field
    PROVE  (Settled(m, field))' =
              IF SetNode(g) = m THEN Top(g).call.expiresAt ELSE heap'[m][field]
<1>1. ~Idle(g) /\ [Next]_vars
  BY DEF Set, At, Step, Next
<1>2. PICK f : Moves(g, f) /\ f.pc = "assign" /\ f.node = SetNode(g)
  BY SetStep
<1>3. (At(g, "assign"))' /\ (Top(g))' = f /\ f.call = Top(g).call
  <2>1. stack \in Stacks /\ f \in AnyFrame /\ Update(g, f) /\ f.call = Top(g).call
    BY <1>2, Stacked DEF CacheInv, Moves
  <2> QED
    BY <1>1, <1>2, <2>1, Updated DEF At
<1>4. (Settled(m, field))' =
         IF (Top(g))'.node = m THEN (Top(g))'.call.expiresAt ELSE heap'[m][field]
  BY <1>1, <1>3, SettledNext
<1> QED
  BY <1>2, <1>3, <1>4

\* A Set puts its node where it belongs.
LEMMA OrderSet ==
    ASSUME CacheInv, NEW g \in Goroutine, Set(g)
    PROVE  OrderInv'
<1> DEFINE c == Top(g).call
           kept == Kept(c)
           n == SetNode(g)
           p == SetPlace(g)
<1>1. At(g, "writing") /\ c.op \in Setters /\ Exclusive(g) /\ ~Idle(g)
  BY DEF Set, At
<1>2. Acts(g) /\ [Next]_vars
  BY DEF Acts, Step, Next
<1>3. /\ kept \in Seq(Node) /\ Len(kept) \in Nat
      /\ \A i \in 1 .. Len(kept) :
            kept[i] \in DOMAIN heap /\ heap[kept[i]].value = heap[kept[i]].expiresAt
      /\ \A i, j \in 1 .. Len(kept) :
            i < j => heap[kept[i]].expiresAt <= heap[kept[j]].expiresAt
  BY <1>1, SetKept DEF CacheInv
<1>4. /\ p \in 1 .. Len(kept) + 1
      /\ \A i \in 1 .. Len(kept) :
            /\ i < p => heap[kept[i]].expiresAt <= c.expiresAt
            /\ i >= p => c.expiresAt <= heap[kept[i]].expiresAt
  BY <1>1, SetPlaces DEF CacheInv
<1>5. c.expiresAt \in Int
  BY <1>1, SetCall, Constants DEF CacheInv
<1>6. /\ DOMAIN list' = 1 .. Len(kept) + 1 /\ list'[p] = n
      /\ \A i \in DOMAIN list' : i < p => i \in 1 .. Len(kept) /\ list'[i] = kept[i]
      /\ \A i \in DOMAIN list' : i > p => i - 1 \in 1 .. Len(kept) /\ list'[i] = kept[i - 1]
  BY SetList
<1>7. Renewed(c, kept, n)
  BY SetNodes DEF CacheInv
<1>8. \A i \in 1 .. Len(kept) :
         kept[i] # n /\ heap'[kept[i]] = heap[kept[i]]
  <2>1. \A i \in 1 .. Len(kept) : kept[i] \in InUse(kept) /\ kept[i] \in Node
    BY <1>3, Used DEF CacheInv
  <2> HIDE DEF c, kept, n
  <2> QED
    BY <1>7, <2>1, Constants DEF Renewed
<1>9. PICK f : /\ Moves(g, f) /\ f.pc = "assign" /\ f.node = n
               /\ f.todo = IF Known(c) THEN Fields ELSE {}
  BY SetStep DEF Fields
<1>10. (At(g, "assign"))' /\ (Top(g))' = f /\ f.call = c
  <2>1. stack \in Stacks /\ f \in AnyFrame /\ Update(g, f) /\ f.call = c
    BY <1>9, Stacked DEF CacheInv, Moves
  <2> QED
    BY <1>1, <1>9, <2>1, Updated DEF At
<1>11. \A i \in 1 .. Len(kept) : heap[kept[i]].expiresAt \in Int
  <2>1. \A m \in DOMAIN heap : heap[m].expiresAt \in Int
    BY Constants DEF CacheInv, TypeOK
  <2> QED
    BY <1>3, <2>1
<1>12. \A m, field : (Settled(m, field))' = IF n = m THEN c.expiresAt ELSE heap'[m][field]
  BY SetSettled
<1> HIDE DEF c, kept, n, p
<1> DEFINE when(i) == IF i < p THEN heap[kept[i]].expiresAt
                      ELSE IF i = p THEN c.expiresAt ELSE heap[kept[i - 1]].expiresAt
<1>13. ASSUME NEW i \in DOMAIN list'
       PROVE  /\ (Settled(list[i], "expiresAt"))' = when(i)
              /\ (Settled(list[i], "value"))' = when(i)
  <2>1. PICK m : m = list'[i]
    OBVIOUS
  <2>2. \A field \in Fields :
           (Settled(m, field))' = IF n = m THEN c.expiresAt ELSE heap'[m][field]
    BY <1>12
  <2>3. i < p \/ i = p \/ i > p
    BY <1>3, <1>4, <1>6
  <2>4. CASE i < p
    <3>1. m = kept[i] /\ i \in 1 .. Len(kept)
      BY <1>6, <2>1, <2>4
    <3> QED
      BY <1>3, <1>8, <2>1, <2>2, <2>4, <3>1 DEF Fields
  <2>5. CASE i = p
    <3>1. m = n /\ when(i) = c.expiresAt
      BY <1>4, <1>6, <2>1, <2>5
    <3> HIDE DEF when
    <3> QED
      BY <2>1, <2>2, <3>1 DEF Fields
  <2>6. CASE i > p
    <3>1. m = kept[i - 1] /\ i - 1 \in 1 .. Len(kept) /\ ~(i < p) /\ i # p
      BY <1>3, <1>4, <1>6, <2>1, <2>6
    <3> QED
      BY <1>3, <1>8, <2>1, <2>2, <3>1 DEF Fields
  <2> QED
    BY <2>3, <2>4, <2>5, <2>6
<1>14. ASSUME NEW i \in DOMAIN list', NEW j \in DOMAIN list', i < j
       PROVE  when(i) <= when(j)
  <2>1. i \in Nat /\ j \in Nat /\ p \in Nat
    BY <1>3, <1>4, <1>6
  <2>2. CASE j < p
    <3>1. i < p /\ i \in 1 .. Len(kept) /\ j \in 1 .. Len(kept)
      BY <1>6, <1>14, <2>1, <2>2
    <3> QED
      BY <1>3, <1>14, <2>2, <3>1
  <2>3. CASE j = p
    <3>1. i < p /\ i \in 1 .. Len(kept) /\ ~(j < p)
      BY <1>6, <1>14, <2>1, <2>3
    <3> QED
      BY <1>4, <2>3, <3>1
  <2>4. CASE j > p /\ i < p
    <3>1. /\ i \in 1 .. Len(kept) /\ j - 1 \in 1 .. Len(kept)
          /\ ~(j < p) /\ j # p /\ j - 1 >= p
      BY <1>6, <2>1, <2>4
    <3>2. heap[kept[i]].expiresAt <= c.expiresAt /\ c.expiresAt <= heap[kept[j - 1]].expiresAt
      BY <1>4, <2>4, <3>1
    <3>3. when(i) = heap[kept[i]].expiresAt /\ when(j) = heap[kept[j - 1]].expiresAt
      BY <2>4, <3>1
    <3> HIDE DEF when
    <3> QED
      BY <1>5, <1>11, <3>1, <3>2, <3>3
  <2>5. CASE j > p /\ i = p
    <3>1. /\ j - 1 \in 1 .. Len(kept) /\ ~(j < p) /\ j # p /\ j - 1 >= p /\ ~(i < p)
      BY <1>6, <2>1, <2>5
    <3> QED
      BY <1>4, <2>5, <3>1
  <2>6. CASE i > p
    <3>1. /\ i - 1 \in 1 .. Len(kept) /\ ~(i < p) /\ i # p
          /\ j - 1 \in 1 .. Len(kept) /\ ~(j < p) /\ j # p /\ i - 1 < j - 1
      BY <1>6, <1>14, <2>1, <2>6
    <3> QED
      BY <1>3, <3>1
  <2> QED
    BY <2>1, <1>14, <2>2, <2>3, <2>4, <2>5, <2>6
<1>15. Sorted'
  <2> HIDE DEF when
  <2>1. \A i, j \in DOMAIN list' :
           i < j => (Settled(list[i], "expiresAt"))' <= (Settled(list[j], "expiresAt"))'
    BY <1>13, <1>14
  <2>2. \A i \in DOMAIN list' : (Settled(list[i], "value"))' = (Settled(list[i], "expiresAt"))'
    BY <1>13
  <2> QED
    BY <2>1, <2>2 DEF Sorted
<1>16. ASSUME NEW h \in Goroutine
       PROVE  (Written(h))'
  <2>1. CASE h # g
    BY <1>1, <1>2, <2>1, OthersWait DEF Written
  <2>2. CASE h = g
    <3>1. ASSUME NEW field \in Fields \ f.todo
          PROVE  heap'[f.node][field] = f.call.expiresAt
      <4>1. ~Known(c)
        BY <1>9, <3>1
      <4>2. heap'[n] = [key |-> c.key, value |-> c.expiresAt, expiresAt |-> c.expiresAt]
        BY <1>7, <4>1 DEF Renewed
      <4> QED
        BY <1>9, <1>10, <4>2 DEF Fields
    <3> QED
      BY <1>10, <2>2, <3>1 DEF Written
  <2> QED
    BY <2>1, <2>2
<1>17. (OrderInv <=> Sorted /\ \A h \in Goroutine : Written(h))'
  BY OrderParts, PTL
<1> QED
  BY <1>15, <1>16, <1>17

LEMMA OrderStep ==
    ASSUME CacheInv, [Next]_vars
    PROVE  OrderInv'
<1>1. CASE UNCHANGED vars
  <2>1. OrderInv
    BY DEF CacheInv
  <2> QED
    BY <1>1, <2>1 DEF OrderInv, Settled, At, Idle, Top, vars
<1>2. ASSUME NEW g \in Goroutine, Acts(g)
      PROVE  OrderInv'
  BY <1>2, OrderReads, OrderSet, OrderAssign, OrderRemove DEF Writes, Fields
<1> QED
  BY <1>1, <1>2 DEF Next, Acts

(***************************************************************************)
(* The invariant.                                                          *)
(***************************************************************************)

\* The entry of a key is an instant, or nil.
LEMMA LatestTyped ==
    stack \in Stacks /\ FrameInv /\ DataOK /\ MapInv =>
        \A k \in Key : Latest(k) \in Time \cup {nil}
<1> SUFFICES ASSUME stack \in Stacks, FrameInv, DataOK, MapInv, NEW k \in Key
             PROVE  Latest(k) \in Time \cup {nil}
  OBVIOUS
<1> DEFINE setting == {g \in Goroutine : At(g, "assign") /\ Top(g).call.key = k}
<1>1. Latest(k) = CASE nodeByKey[k] = nil -> nil
                    [] setting # {} -> Top(CHOOSE g \in setting : TRUE).call.expiresAt
                    [] OTHER -> heap[nodeByKey[k]].expiresAt
  BY DEF Latest
<1>2. ASSUME NEW g \in setting
      PROVE  Top(g).call.expiresAt \in Time
  <2>1. ~Idle(g) /\ Top(g).pc = "assign"
    BY DEF At
  <2>2. Len(stack[g]) \in 1 .. 2 /\ Top(g) = stack[g][Len(stack[g])] /\ Top(g) \in AnyFrame
    BY <2>1, TopFrame DEF FrameInv
  <2>3. FrameOK(Top(g)) /\ Top(g).call \in AnyCall
    BY <2>2 DEF FrameInv, AnyFrame
  <2> QED
    BY <2>1, <2>3, AnyArguments DEF FrameOK
<1> HIDE DEF setting
<1>3. nodeByKey[k] # nil => heap[nodeByKey[k]].expiresAt \in Time
  <2>1. nodeByKey[k] # nil => nodeByKey[k] \in DOMAIN heap
    BY DEF MapInv
  <2> QED
    BY <2>1 DEF DataOK, Entries
<1>4. setting # {} => (CHOOSE g \in setting : TRUE) \in setting
  OBVIOUS
<1> QED
  BY <1>1, <1>2, <1>3, <1>4

LEMMA SeenTyped ==
    ASSUME CacheInv, [Next]_vars
    PROVE  seen' \in [Goroutine -> SUBSET (Time \cup {nil})]
<1>0. seen \in [Goroutine -> SUBSET (Time \cup {nil})]
  BY DEF CacheInv, TypeOK
<1>1. (stack \in Stacks /\ FrameInv /\ DataOK /\ MapInv)'
  BY StackStep, DataStep DEF Stacks
<1>2. \A k \in Key : (Latest(k))' \in Time \cup {nil}
  <2>1. (stack \in Stacks /\ FrameInv /\ DataOK /\ MapInv =>
            \A k \in Key : Latest(k) \in Time \cup {nil})'
    BY LatestTyped, PTL
  <2> QED
    BY <1>1, <2>1
<1>3. \A k \in Key : Latest(k) \in Time \cup {nil}
  BY LatestTyped, Stacked, DataTyped DEF CacheInv
<1>4. ASSUME Witness
      PROVE  seen' \in [Goroutine -> SUBSET (Time \cup {nil})]
  <2>1. \A g \in Goroutine :
           ~Idle(g) /\ stack[g][1].call.key # nil => stack[g][1].call.key \in Key
    <3>1. ASSUME NEW g \in Goroutine, ~Idle(g)
          PROVE  stack[g][1].call.key \in Key \cup {nil}
      <4>1. Len(stack[g]) \in 1 .. 2 /\ stack[g] \in Seq(AnyFrame)
        BY <3>1, TopFacts DEF CacheInv, TypeOK
      <4>2. stack[g][1] \in AnyFrame
        BY <4>1
      <4>3. stack[g][1].call \in AnyCall
        BY <4>2 DEF AnyFrame
      <4> QED
        BY <4>3, AnyArguments
    <3> QED
      BY <3>1
  <2> DEFINE latest == [k \in Key |-> (Latest(k))']
  <2>2. \A k \in Key : latest[k] \in Time \cup {nil}
    BY <1>2
  <2>3. seen' = [g \in Goroutine |->
                    IF Idle(g) \/ stack[g][1].call.key = nil
                        THEN seen[g]
                        ELSE seen[g] \cup {latest[stack[g][1].call.key]}]
    BY <1>4 DEF Witness
  <2> HIDE DEF latest
  <2> QED
    BY <1>0, <2>1, <2>2, <2>3
<1>5. ASSUME NEW g \in Goroutine, NEW op \in Operation, NEW c \in Call(op), Begin(g, c)
      PROVE  seen' \in [Goroutine -> SUBSET (Time \cup {nil})]
  <2>1. c \in AnyCall
    BY Constants, Arguments
  <2>2. c.key # nil => Latest(c.key) \in Time \cup {nil}
    BY <1>3, <2>1, AnyArguments
  <2>3. seen' = [seen EXCEPT ![g] = IF c.key = nil THEN {} ELSE {Latest(c.key)}]
    BY <1>5 DEF Begin
  <2> QED
    BY <1>0, <2>2, <2>3
<1>6. CASE UNCHANGED seen
  BY <1>0, <1>6
<1>7. ASSUME NEW g \in Goroutine, Step(g)
      PROVE  Witness \/ UNCHANGED seen
  BY <1>7 DEF Step, CallRLock, Lookup, CheckExpiry, LoadValue, TryContains, Set, Assign,
              FinishSet, RemoveKey, Clear, StartLoop, Body, Break, Advance, BodyCall
<1>8. ASSUME NEW g \in Goroutine, CallLock(g)
      PROVE  UNCHANGED seen
  BY <1>8 DEF CallLock
<1>9. CASE UNCHANGED vars
  BY <1>6, <1>9 DEF vars
<1> QED
  BY <1>4, <1>5, <1>6, <1>7, <1>8, <1>9 DEF Next

LEMMA CacheStep ==
    ASSUME CacheInv, [Next]_vars
    PROVE  CacheInv'
<1>1. DataOK' /\ MapInv'
  BY DataStep
<1>2. /\ stack' \in [Goroutine -> Seq(AnyFrame)]
      /\ answer' \in [Goroutine -> AnyAnswer \cup {nil}]
      /\ FrameInv'
  BY StackStep
<1>3. LockTypeOK' /\ LockInv'
  BY LockStep
<1>4. TypeOK'
  BY <1>1, <1>2, <1>3, SeenTyped DEF TypeOK, DataOK, Entries
<1> QED
  BY <1>1, <1>2, <1>3, <1>4, PointerStep, OrderStep DEF CacheInv

LEMMA CacheInit == Init => CacheInv
<1> SUFFICES ASSUME Init PROVE CacheInv
  OBVIOUS
<1>1. \A g \in Goroutine :
         /\ stack[g] = <<>> /\ Idle(g) /\ answer[g] = nil
         /\ Len(stack[g]) = 0 /\ 1 .. Len(stack[g]) = {}
  <2>1. Len(<<>>) = 0 /\ 1 .. 0 = {}
    OBVIOUS
  <2> QED
    BY <2>1 DEF Init, Idle
<1>2. \A g \in Goroutine : \A pc : ~At(g, pc)
  BY <1>1 DEF At
<1>3. TypeOK
  BY DEF Init, LockInit, TypeOK, LockTypeOK
<1>4. FrameInv
  <2>1. ASSUME NEW g \in Goroutine
        PROVE  /\ Len(stack[g]) \in 0 .. 2 /\ Len(stack[g]) # 2
               /\ \A i \in 1 .. Len(stack[g]) : FrameOK(stack[g][i])
    <3>1. 0 \in 0 .. 2 /\ 0 # 2
      OBVIOUS
    <3> QED
      BY <1>1, <3>1, Zenon
  <2> QED
    BY <1>1, <2>1 DEF FrameInv
<1>5. LockInv
  BY <1>1, <1>2, Constants DEF LockInv, Init, LockInit, Held, Reading
<1>6. MapInv
  BY DEF MapInv, Init
<1>7. PointerInv
  BY <1>1 DEF PointerInv
<1>8. OrderInv
  BY <1>2 DEF OrderInv, Init
<1> QED
  BY <1>3, <1>4, <1>5, <1>6, <1>7, <1>8 DEF CacheInv

\* In every state a program can reach, the lock knows its holders, the map has
\* the nodes of the list, and the list is in order as far as it is written.
THEOREM Invariance == Spec => []CacheInv
<1>1. CacheInv /\ [Next]_vars => CacheInv'
  BY CacheStep
<1> QED
  BY <1>1, CacheInit, PTL DEF Spec

\* Every variable has its type: the fields of the cache (cache.go:16-35), its
\* lock, and the calls in progress.
THEOREM TypeCorrect == Spec => []TypeOK
<1>1. CacheInv => TypeOK
  BY DEF CacheInv
<1> QED
  BY <1>1, Invariance, PTL

\* While a loop over All or Backward is at a node or in its body, no goroutine
\* moves, changes or removes a node (cache.go:203, 219).
THEOREM IterationStable == Spec => IterationIsStable
<1>1. CacheInv /\ [Next]_vars =>
         [(\E g \in Goroutine : InLoopOf(g)) => UNCHANGED cacheVars]_vars
  <2> SUFFICES ASSUME CacheInv, [Next]_vars, NEW g \in Goroutine, InLoopOf(g)
               PROVE  UNCHANGED cacheVars
    OBVIOUS
  <2>1. ~Idle(g) /\ stack[g][1].pc \in {"yield", "next"}
    BY DEF InLoopOf
  <2>2. Len(stack[g]) \in 1 .. 2 /\ \A k \in 1 .. 2 : 1 \in 1 .. k
    <3>1. \A k \in 1 .. 2 : 1 \in 1 .. k
      OBVIOUS
    <3> QED
      BY <2>1, <3>1, TopFacts
  <2>3. 1 \in 1 .. Len(stack[g])
    BY <2>2, Zenon
  <2> QED
    BY <2>1, <2>3, LoopsHold, ReadersProtect
<1> QED
  BY <1>1, Invariance, PTL DEF Spec, IterationIsStable

\* The entry that GetEntry hands out is one of the key it was asked for, and
\* stays so whatever happens to the cache after the call (cache.go:91-100).
THEOREM KeyKept == Spec => []EntryKeepsKey
<1>1. CacheInv => EntryKeepsKey
  BY DEF CacheInv, PointerInv, PointsTo, EntryKeepsKey
<1> QED
  BY <1>1, Invariance, PTL

\* Whoever holds a read lock sees a list in order, of the nodes of the map,
\* each under its own key and with both fields of the same Set (cache.go:114-176).
THEOREM LockedReads == Spec => []LockedReadsAreWhole
<1>1. CacheInv => LockedReadsAreWhole
  <2> SUFFICES ASSUME CacheInv, NEW g \in Goroutine, holds[g] > 0
               PROVE  LockedReadsAreWhole
    BY DEF LockedReadsAreWhole
  <2>1. \A h \in Goroutine : ~At(h, "assign")
    <3>1. holds[g] # 0
      BY DEF CacheInv, TypeOK, LockTypeOK
    <3> QED
      BY <3>1 DEF CacheInv, LockInv
  <2>2. \A m, field : Settled(m, field) = heap[m][field]
    BY <2>1, SettledNow
  <2>3. OrderInv /\ MapInv
    BY DEF CacheInv
  <2>4. \A i, j \in DOMAIN list :
           /\ i < j => heap[list[i]].expiresAt <= heap[list[j]].expiresAt
           /\ list[i] = list[j] => i = j
    BY <2>2, <2>3 DEF OrderInv, MapInv
  <2>5. \A i \in DOMAIN list :
           nodeByKey[heap[list[i]].key] = list[i] /\ heap[list[i]].value = heap[list[i]].expiresAt
    BY <2>2, <2>3 DEF OrderInv, MapInv
  <2>6. ToSet(list) = {list[i] : i \in DOMAIN list}
    BY DEF ToSet
  <2>7. \A n \in ToSet(list) :
           nodeByKey[heap[n].key] = n /\ heap[n].value = heap[n].expiresAt
    BY <2>5, <2>6
  <2>8. \A k \in Key : nodeByKey[k] # nil => nodeByKey[k] \in ToSet(list)
    BY <2>3, <2>6 DEF MapInv
  <2> QED
    BY <2>4, <2>7, <2>8 DEF LockedReadsAreWhole
<1> QED
  BY <1>1, Invariance, PTL

(***************************************************************************)
(* Entries in the caller's hands.                                          *)
(***************************************************************************)

\* Every node has both fields of the same Set once they are settled, also one
\* that has left the list.
WholeInv == \A m \in DOMAIN heap : Settled(m, "value") = Settled(m, "expiresAt")

LEMMA WholeSet ==
    ASSUME CacheInv, WholeInv, NEW g \in Goroutine, Set(g)
    PROVE  WholeInv'
<1> DEFINE c == Top(g).call
           n == SetNode(g)
<1>1. Renewed(c, Kept(c), n)
  BY SetNodes DEF CacheInv
<1>2. \A m, field : Settled(m, field) = heap[m][field]
  BY SetCall DEF CacheInv, Set
<1>3. \A m, field : (Settled(m, field))' = IF n = m THEN c.expiresAt ELSE heap'[m][field]
  BY SetSettled
<1> HIDE DEF c, n
<1>4. ASSUME NEW m \in DOMAIN heap', m # n
      PROVE  m \in DOMAIN heap /\ heap'[m] = heap[m]
  BY <1>1, <1>4 DEF Renewed
<1>5. ASSUME NEW m \in DOMAIN heap'
      PROVE  (Settled(m, "value"))' = (Settled(m, "expiresAt"))'
  <2>1. CASE m = n
    BY <1>3, <2>1
  <2>2. CASE m # n
    <3>1. m \in DOMAIN heap /\ heap'[m] = heap[m]
      BY <1>4, <2>2
    <3>2. heap[m].value = heap[m].expiresAt
      BY <1>2, <3>1 DEF WholeInv
    <3> QED
      BY <1>3, <2>2, <3>1, <3>2
  <2> QED
    BY <2>1, <2>2
<1> QED
  BY <1>5 DEF WholeInv

LEMMA WholeStep ==
    ASSUME CacheInv, WholeInv, [Next]_vars
    PROVE  WholeInv'
<1>1. CASE UNCHANGED vars
  BY <1>1 DEF WholeInv, Settled, At, Idle, Top, vars
<1>2. ASSUME NEW g \in Goroutine, Acts(g)
      PROVE  WholeInv'
  <2>1. CASE ~Writes(g)
    <3>1. heap' = heap
      BY <1>2, <2>1, OnlyWriter DEF cacheVars
    <3>2. \A m : \A field \in Fields : (Settled(m, field))' = Settled(m, field)
      BY <1>2, <2>1, SettledStays
    <3> QED
      BY <3>1, <3>2 DEF WholeInv, Fields
  <2>2. CASE Set(g)
    BY <2>2, WholeSet
  <2>3. ASSUME NEW field \in Fields, Assign(g, field)
        PROVE  WholeInv'
    <3>1. DOMAIN heap' = DOMAIN heap
      BY <2>3, AssignHeap DEF Fields
    <3>2. \A m \in DOMAIN heap : \A other \in Fields :
             (Settled(m, other))' = Settled(m, other)
      BY <2>3, AssignSettled
    <3> QED
      BY <3>1, <3>2 DEF WholeInv, Fields
  <2>4. CASE RemoveKey(g) \/ Clear(g)
    <3>1. /\ heap' = heap
          /\ \A m, field : (Settled(m, field))' = Settled(m, field)
      BY <2>4, NobodyWrites
    <3> QED
      BY <3>1 DEF WholeInv
  <2> QED
    BY <2>1, <2>2, <2>3, <2>4 DEF Writes, Fields
<1> QED
  BY <1>1, <1>2 DEF Next, Acts

\* What the caller of GetEntry sees later is what one Set stored, except while a
\* Set of the same key is between its two assignments to the node
\* (cache.go:91-100 against 246-247), whatever else happens to the entry.
THEOREM EntryWhole == Spec => []EntryIsWhole
<1>1. Init => CacheInv /\ WholeInv
  BY CacheInit DEF Init, WholeInv
<1>2. CacheInv /\ WholeInv /\ [Next]_vars => (CacheInv /\ WholeInv)'
  BY CacheStep, WholeStep
<1>3. CacheInv /\ WholeInv => EntryIsWhole
  <2> SUFFICES ASSUME CacheInv, WholeInv, NEW g \in Goroutine,
                      answer[g] # nil, answer[g].node # nil,
                      NEW m, m = answer[g].node
               PROVE  \/ heap[m].value = heap[m].expiresAt
                      \/ \E h \in Goroutine :
                            /\ At(h, "assign") /\ Top(h).todo # {}
                            /\ Top(h).node = m /\ Top(h).call.key = answer[g].call.key
    BY DEF EntryIsWhole
  <2>1. m \in DOMAIN heap /\ heap[m].key = answer[g].call.key
    BY DEF CacheInv, PointerInv, PointsTo
  <2>2. Settled(m, "value") = Settled(m, "expiresAt")
    BY <2>1 DEF WholeInv
  <2>3. CASE \A h \in Goroutine : ~At(h, "assign")
    BY <2>2, <2>3, SettledNow
  <2>4. ASSUME NEW h \in Goroutine, At(h, "assign"), Top(h).node # m
        PROVE  heap[m].value = heap[m].expiresAt
    BY <2>2, <2>4, SettledNow
  <2>5. ASSUME NEW h \in Goroutine, At(h, "assign"), Top(h).node = m
        PROVE  \/ heap[m].value = heap[m].expiresAt
               \/ Top(h).todo # {} /\ Top(h).call.key = answer[g].call.key
    <3>1. CASE Top(h).todo = {}
      BY <2>5, <3>1 DEF CacheInv, OrderInv
    <3>2. Top(h).call.key = answer[g].call.key
      <4>1. ~Idle(h) /\ Top(h).pc = "assign"
        BY <2>5 DEF At
      <4>2. /\ Top(h).node # nil /\ Top(h).node = nodeByKey[Top(h).call.key]
            /\ FrameOK(Top(h)) /\ Top(h).call \in AnyCall
        BY <4>1, TopFacts DEF PointerOK
      <4>3. Top(h).call.key \in Key
        <5>1. Top(h).call.op \in Setters
          BY <4>1, <4>2 DEF FrameOK
        <5> QED
          BY <4>2, <5>1, AnyArguments DEF Setters, Iterators
      <4> QED
        BY <2>1, <2>5, <4>2, <4>3 DEF CacheInv, MapInv
    <3> QED
      BY <3>1, <3>2
  <2> QED
    BY <2>3, <2>4, <2>5
<1> QED
  BY <1>1, <1>2, <1>3, PTL DEF Spec

(***************************************************************************)
(* What lookups have seen.                                                 *)
(***************************************************************************)

\* The entry of a key is what its node has once settled.
LatestIsSettled ==
    \A k \in Key :
        Latest(k) = IF nodeByKey[k] = nil THEN nil
                    ELSE Settled(nodeByKey[k], "expiresAt")

LEMMA LatestSettled == CacheInv => LatestIsSettled
<1> SUFFICES ASSUME CacheInv, NEW k \in Key
             PROVE  Latest(k) = IF nodeByKey[k] = nil THEN nil
                                ELSE Settled(nodeByKey[k], "expiresAt")
  BY DEF LatestIsSettled
<1> DEFINE setting == {g \in Goroutine : At(g, "assign") /\ Top(g).call.key = k}
<1>1. Latest(k) = CASE nodeByKey[k] = nil -> nil
                    [] setting # {} -> Top(CHOOSE g \in setting : TRUE).call.expiresAt
                    [] OTHER -> heap[nodeByKey[k]].expiresAt
  BY DEF Latest
<1>2. CASE nodeByKey[k] = nil
  <2>1. ASSUME NEW g \in setting
        PROVE  FALSE
    <3>1. ~Idle(g) /\ Top(g).pc = "assign" /\ Top(g).call.key = k
      BY DEF At
    <3>2. PointerOK(Top(g))
      BY <3>1, TopFacts
    <3> QED
      BY <1>2, <3>1, <3>2 DEF PointerOK
  <2>2. setting = {}
    BY <2>1
  <2> HIDE DEF setting
  <2> QED
    BY <1>1, <1>2, <2>2
<1>3. CASE nodeByKey[k] # nil /\ setting # {}
  <2>1. PICK g \in setting : g = CHOOSE h \in setting : TRUE
    BY <1>3
  <2>2. At(g, "assign") /\ Top(g).call.key = k /\ g \in Goroutine
    BY <2>1
  <2>3. PointerOK(Top(g)) /\ Top(g).pc = "assign"
    BY <2>2, TopFacts DEF At
  <2>4. Top(g).node = nodeByKey[k]
    BY <2>2, <2>3 DEF PointerOK
  <2>5. Latest(k) = Top(g).call.expiresAt
    <3> HIDE DEF setting
    <3> QED
      BY <1>1, <1>3, <2>1
  <2> QED
    BY <1>3, <2>2, <2>4, <2>5, SettledNow
<1>4. CASE nodeByKey[k] # nil /\ setting = {}
  <2>1. Latest(k) = heap[nodeByKey[k]].expiresAt
    <3> HIDE DEF setting
    <3> QED
      BY <1>1, <1>4
  <2>2. ASSUME NEW h \in Goroutine, At(h, "assign")
        PROVE  Top(h).node # nodeByKey[k]
    <3>1. Top(h).call.key # k
      BY <1>4, <2>2
    <3>2. ~Idle(h) /\ Top(h).pc = "assign"
      BY <2>2 DEF At
    <3>3. PointerOK(Top(h)) /\ FrameOK(Top(h)) /\ Top(h).call \in AnyCall
      BY <3>2, TopFacts
    <3>4. Top(h).call.key \in Key
      <4>1. Top(h).call.op \notin Iterators \cup {"Clear"}
        BY <3>2, <3>3 DEF FrameOK, Setters, Iterators
      <4> QED
        BY <3>3, <4>1, AnyArguments
    <3>5. Top(h).node = nodeByKey[Top(h).call.key] /\ Top(h).node # nil
      BY <3>2, <3>3 DEF PointerOK
    <3>6. heap[Top(h).node].key = Top(h).call.key /\ heap[nodeByKey[k]].key = k
      BY <1>4, <3>4, <3>5 DEF CacheInv, MapInv
    <3> QED
      BY <3>1, <3>6
  <2>3. Settled(nodeByKey[k], "expiresAt") = heap[nodeByKey[k]].expiresAt
    <3>1. CASE \E h \in Goroutine : At(h, "assign")
      BY <2>2, <3>1, SettledNow
    <3>2. CASE \A h \in Goroutine : ~At(h, "assign")
      BY <3>2, SettledNow
    <3> QED
      BY <3>1, <3>2
  <2> QED
    BY <1>4, <2>1, <2>3
<1> QED
  BY <1>2, <1>3, <1>4

LEMMA LatestNext ==
    ASSUME CacheInv, [Next]_vars
    PROVE  LatestIsSettled /\ LatestIsSettled'
<1>1. CacheInv'
  BY CacheStep
<1>2. (CacheInv => LatestIsSettled)'
  BY LatestSettled, PTL
<1> QED
  BY <1>1, <1>2, LatestSettled

\* A step other than a Set, a Remove or a Clear changes no entry, and what it
\* writes was already settled.
LEMMA EntriesStay ==
    ASSUME CacheInv, NEW g \in Goroutine, Acts(g), ~Set(g), ~RemoveKey(g), ~Clear(g)
    PROVE  /\ nodeByKey' = nodeByKey
           /\ \A m \in DOMAIN heap : \A field \in Fields :
                 /\ (Settled(m, field))' = Settled(m, field)
                 /\ heap'[m][field] \in {heap[m][field], Settled(m, field)}
           /\ \A k \in Key : (Latest(k))' = Latest(k)
<1>0. [Next]_vars
  BY DEF Next, Acts
<1>1. ASSUME NEW other \in Fields, Assign(g, other), NEW m \in DOMAIN heap, NEW field \in Fields
      PROVE  heap'[m][field] \in {heap[m][field], Settled(m, field)}
  <2>1. At(g, "assign")
    BY <1>1 DEF Assign
  <2>2. Settled(m, field) = IF Top(g).node = m
                                THEN Top(g).call.expiresAt ELSE heap[m][field]
    BY <2>1, SettledNow
  <2>3. /\ m # Top(g).node => heap'[m] = heap[m]
        /\ heap'[Top(g).node][other] = Top(g).call.expiresAt
        /\ field # other => heap'[Top(g).node][field] = heap[Top(g).node][field]
    BY <1>1, AssignHeap DEF Fields
  <2> QED
    BY <2>2, <2>3
<1>2. ASSUME \E other \in Fields : Assign(g, other)
      PROVE  /\ nodeByKey' = nodeByKey
             /\ \A m \in DOMAIN heap : \A field \in Fields :
                   /\ (Settled(m, field))' = Settled(m, field)
                   /\ heap'[m][field] \in {heap[m][field], Settled(m, field)}
  <2>1. PICK other \in Fields : Assign(g, other)
    BY <1>2
  <2>2. nodeByKey' = nodeByKey
    BY <2>1, AssignHeap DEF Fields
  <2>3. ASSUME NEW m \in DOMAIN heap, NEW field \in Fields
        PROVE  /\ (Settled(m, field))' = Settled(m, field)
               /\ heap'[m][field] \in {heap[m][field], Settled(m, field)}
    BY <1>1, <2>1, AssignSettled
  <2> QED
    BY <2>2, <2>3
<1>3. ASSUME ~Writes(g)
      PROVE  /\ nodeByKey' = nodeByKey
             /\ \A m \in DOMAIN heap : \A field \in Fields :
                   /\ (Settled(m, field))' = Settled(m, field)
                   /\ heap'[m][field] \in {heap[m][field], Settled(m, field)}
  <2>1. nodeByKey' = nodeByKey /\ heap' = heap
    BY <1>3, OnlyWriter DEF cacheVars
  <2>2. ASSUME NEW m \in DOMAIN heap, NEW field \in Fields
        PROVE  (Settled(m, field))' = Settled(m, field)
    BY <1>3, SettledStays
  <2> QED
    BY <2>1, <2>2
<1>4. /\ nodeByKey' = nodeByKey
      /\ \A m \in DOMAIN heap : \A field \in Fields :
            /\ (Settled(m, field))' = Settled(m, field)
            /\ heap'[m][field] \in {heap[m][field], Settled(m, field)}
  BY <1>2, <1>3 DEF Writes, Fields
<1>5. ASSUME NEW k \in Key
      PROVE  (Latest(k))' = Latest(k)
  <2>1. LatestIsSettled /\ LatestIsSettled'
    BY <1>0, LatestNext
  <2>2. /\ Latest(k) = IF nodeByKey[k] = nil THEN nil
                       ELSE Settled(nodeByKey[k], "expiresAt")
        /\ (Latest(k))' = IF nodeByKey'[k] = nil THEN nil
                          ELSE (Settled(nodeByKey[k], "expiresAt"))'
    BY <2>1 DEF LatestIsSettled
  <2>3. CASE nodeByKey[k] = nil
    BY <1>4, <2>2, <2>3
  <2>4. CASE nodeByKey[k] # nil
    <3>1. PICK m : m = nodeByKey[k]
      OBVIOUS
    <3>2. m \in DOMAIN heap /\ m = nodeByKey'[k]
      BY <1>4, <2>4, <3>1 DEF CacheInv, MapInv
    <3>3. (Settled(m, "expiresAt"))' = Settled(m, "expiresAt")
      BY <1>4, <3>2 DEF Fields
    <3>4. Latest(k) = Settled(m, "expiresAt") /\ (Latest(k))' = (Settled(m, "expiresAt"))'
      BY <1>4, <2>2, <2>4, <3>1, <3>2
    <3> QED
      BY <3>3, <3>4
  <2> QED
    BY <2>3, <2>4
<1> QED
  BY <1>4, <1>5

\* A goroutine whose call is of a key: nothing is below that call.
Watched(g) == ~Idle(g) /\ Len(stack[g]) = 1 /\ Top(g).call.key # nil

\* What an unlocked reader may find in its node is in the history of its call.
FrameSeen(f, history) ==
    /\ f.pc \in {"check", "load"} =>
          \A field \in Fields :
              heap[f.node][field] \in history /\ Settled(f.node, field) \in history
    /\ f.pc = "load" => \E e \in history : e # nil /\ e > f.call.now

SeenInv ==
    \A g \in Goroutine :
        /\ IsFiniteSet(seen[g])
        /\ Watched(g) => /\ Latest(Top(g).call.key) \in seen[g]
                         /\ FrameSeen(Top(g), seen[g])

\* The history of the call at the bottom is that of a watched goroutine.
LEMMA Watching ==
    ASSUME CacheInv, NEW g \in Goroutine, ~Idle(g)
    PROVE  /\ stack[g][1].call.key # nil <=> Watched(g)
           /\ Watched(g) => stack[g][1] = Top(g) /\ Top(g).call.key \in Key
<1>1. Len(stack[g]) \in 1 .. 2 /\ Top(g) = stack[g][Len(stack[g])]
  BY TopFacts
<1>2. CASE Len(stack[g]) = 1
  <2>1. Top(g) = stack[g][1] /\ Top(g).call \in AnyCall
    BY <1>1, <1>2, TopFacts
  <2> QED
    BY <1>2, <2>1, AnyArguments DEF Watched
<1>3. CASE Len(stack[g]) = 2
  <2>1. stack[g] \in Seq(AnyFrame)
    BY DEF CacheInv, TypeOK
  <2>2. stack[g][1] \in AnyFrame
    BY <1>3, <2>1
  <2>3. stack[g][1].call \in AnyCall
    BY <2>2 DEF AnyFrame
  <2>4. stack[g][1].pc = "next" /\ FrameOK(stack[g][1])
    <3>1. 1 \in 1 .. 2
      OBVIOUS
    <3> QED
      BY <1>3, <3>1 DEF CacheInv, FrameInv
  <2>5. stack[g][1].call.key = nil
    BY <2>3, <2>4, AnyArguments DEF FrameOK
  <2> QED
    BY <1>3, <2>5 DEF Watched
<1> QED
  BY <1>1, <1>2, <1>3

\* A Set, a Remove or a Clear adds the new entry of its key to the history of
\* each watched goroutine.
LEMMA Witnessed ==
    ASSUME CacheInv, Witness, NEW h \in Goroutine
    PROVE  /\ \A k \in Key : Watched(h) /\ k = Top(h).call.key =>
                 seen'[h] = seen[h] \cup {(Latest(k))'}
           /\ ~Watched(h) => seen'[h] = seen[h]
<1> DEFINE latest == [k \in Key |-> (Latest(k))']
<1>1. seen' = [g \in Goroutine |->
                  IF Idle(g) \/ stack[g][1].call.key = nil
                      THEN seen[g]
                      ELSE seen[g] \cup {latest[stack[g][1].call.key]}]
  BY DEF Witness
<1>2. \A k \in Key : latest[k] = (Latest(k))'
  OBVIOUS
<1> HIDE DEF latest
<1>3. CASE Idle(h)
  BY <1>1, <1>3 DEF Watched
<1>4. CASE ~Idle(h)
  <2>1. /\ stack[h][1].call.key # nil <=> Watched(h)
        /\ Watched(h) => stack[h][1] = Top(h) /\ Top(h).call.key \in Key
    BY <1>4, Watching
  <2> QED
    BY <1>1, <1>2, <1>4, <2>1
<1> QED
  BY <1>3, <1>4

\* What a step does to the history of a goroutine.
LEMMA SeenKinds ==
    ASSUME CacheInv, NEW g \in Goroutine, Acts(g)
    PROVE  \/ (Set(g) \/ RemoveKey(g) \/ Clear(g)) /\ Witness
           \/ /\ ~Set(g) /\ ~RemoveKey(g) /\ ~Clear(g)
              /\ \/ UNCHANGED seen
                 \/ Idle(g) /\ \A h \in Goroutine : h # g => seen'[h] = seen[h]
<1>1. CASE Set(g) \/ RemoveKey(g) \/ Clear(g)
  BY <1>1 DEF Set, RemoveKey, Clear
<1>2. CASE ~Set(g) /\ ~RemoveKey(g) /\ ~Clear(g)
  <2>1. CASE Step(g) \/ CallLock(g)
    BY <1>2, <2>1 DEF Step, CallLock, CallRLock, Lookup, CheckExpiry, LoadValue,
                      TryContains, Assign, FinishSet, StartLoop, Body, Break, Advance,
                      BodyCall
  <2>2. ASSUME NEW op \in Operation, NEW c \in Call(op), Begin(g, c)
        PROVE  Idle(g) /\ \A h \in Goroutine : h # g => seen'[h] = seen[h]
    <3>1. /\ Idle(g)
          /\ seen' = [seen EXCEPT ![g] = IF c.key = nil THEN {} ELSE {Latest(c.key)}]
      BY <2>2 DEF Begin
    <3>2. seen \in [Goroutine -> SUBSET (Time \cup {nil})]
      BY DEF CacheInv, TypeOK
    <3> QED
      BY <3>1, <3>2
  <2> QED
    BY <1>2, <2>1, <2>2 DEF Acts
<1> QED
  BY <1>1, <1>2

LEMMA SeenGrows ==
    ASSUME CacheInv, SeenInv, NEW g \in Goroutine, Acts(g),
           NEW h \in Goroutine, Watched(h), NEW k \in Key, k = Top(h).call.key
    PROVE  seen[h] \subseteq seen'[h] /\ (Latest(k))' \in seen'[h]
<1>1. Latest(k) \in seen[h] /\ ~Idle(h)
  BY DEF SeenInv, Watched
<1>2. CASE Witness
  BY <1>2, Witnessed
<1>3. CASE ~Set(g) /\ ~RemoveKey(g) /\ ~Clear(g) /\ seen'[h] = seen[h]
  <2>1. (Latest(k))' = Latest(k)
    BY <1>3, EntriesStay
  <2> QED
    BY <1>1, <1>3, <2>1
<1> QED
  BY <1>1, <1>2, <1>3, SeenKinds

\* The history of an idle goroutine stays, until its next call.
LEMMA SeenStays ==
    ASSUME CacheInv, NEW g \in Goroutine, Acts(g), NEW h \in Goroutine, Idle(h), h # g
    PROVE  seen'[h] = seen[h]
<1>1. ~Watched(h)
  BY DEF Watched
<1> QED
  BY <1>1, SeenKinds, Witnessed

LEMMA SeenFinite ==
    ASSUME CacheInv, SeenInv, NEW g \in Goroutine, Acts(g), NEW h \in Goroutine
    PROVE  IsFiniteSet(seen'[h])
<1>1. IsFiniteSet(seen[h])
  BY DEF SeenInv
<1>2. CASE Witness
  <2>1. CASE Watched(h)
    <3>1. ~Idle(h)
      BY <2>1 DEF Watched
    <3>2. PICK k \in Key : k = Top(h).call.key
      BY <2>1, <3>1, Watching
    <3>3. seen'[h] = seen[h] \cup {(Latest(k))'}
      BY <1>2, <2>1, <3>2, Witnessed
    <3> QED
      BY <1>1, <3>3, FS_AddElement
  <2>2. CASE ~Watched(h)
    BY <1>1, <1>2, <2>2, Witnessed
  <2> QED
    BY <2>1, <2>2
<1>3. CASE seen'[h] = seen[h]
  BY <1>1, <1>3
<1>4. ASSUME NEW op \in Operation, NEW c \in Call(op), Begin(g, c), h = g
      PROVE  IsFiniteSet(seen'[h])
  <2>1. seen' = [seen EXCEPT ![g] = IF c.key = nil THEN {} ELSE {Latest(c.key)}]
    BY <1>4 DEF Begin
  <2>2. seen \in [Goroutine -> SUBSET (Time \cup {nil})]
    BY DEF CacheInv, TypeOK
  <2>3. seen'[h] = IF c.key = nil THEN {} ELSE {Latest(c.key)}
    BY <1>4, <2>1, <2>2
  <2>4. IsFiniteSet({}) /\ IsFiniteSet({Latest(c.key)})
    BY FS_EmptySet, FS_Singleton
  <2> QED
    BY <2>3, <2>4
<1>5. CASE h = g /\ Idle(g)
  <2>1. ~Step(g) /\ ~CallLock(g)
    BY <1>5, StepKinds
  <2> QED
    BY <1>4, <1>5, <2>1 DEF Acts
<1> QED
  BY <1>2, <1>3, <1>5, SeenKinds

\* What a reader has in its node stays in its history: the fields, and what
\* the Set under way writes to them.
LEMMA FieldsStay ==
    ASSUME CacheInv, SeenInv, NEW g \in Goroutine, Acts(g),
           NEW h \in Goroutine, Watched(h), Top(h).pc \in {"check", "load"},
           NEW m, m = Top(h).node, NEW field \in Fields
    PROVE  heap'[m][field] \in seen'[h] /\ (Settled(m, field))' \in seen'[h]
<1>1. ~Idle(h) /\ Len(stack[h]) = 1 /\ Top(h) = stack[h][Len(stack[h])]
  BY TopFacts DEF Watched
<1>2. PICK k \in Key : k = Top(h).call.key
  BY <1>1, Watching
<1>3. seen[h] \subseteq seen'[h] /\ (Latest(k))' \in seen'[h]
  BY <1>2, SeenGrows
<1>4. heap[m][field] \in seen[h] /\ Settled(m, field) \in seen[h]
  BY DEF SeenInv, FrameSeen
<1>5. m # nil /\ m \in DOMAIN heap /\ heap[m].key = k
  <2>1. PointerOK(Top(h))
    BY <1>1, TopFacts
  <2> QED
    BY <1>2, <2>1 DEF PointerOK, PointsTo
<1>6. CASE ~Set(g) /\ ~RemoveKey(g) /\ ~Clear(g)
  <2>1. /\ (Settled(m, field))' = Settled(m, field)
        /\ heap'[m][field] \in {heap[m][field], Settled(m, field)}
    BY <1>5, <1>6, EntriesStay
  <2> QED
    BY <1>3, <1>4, <2>1
<1>7. CASE RemoveKey(g) \/ Clear(g)
  <2>1. heap' = heap /\ (Settled(m, field))' = heap'[m][field]
    BY <1>7, NobodyWrites
  <2> QED
    BY <1>3, <1>4, <2>1
<1>8. CASE Set(g)
  <2> DEFINE c == Top(g).call
             kept == Kept(c)
             n == SetNode(g)
  <2>1. Renewed(c, kept, n) /\ c.key \in Key
    BY <1>8, SetNodes, SetCall DEF CacheInv, Set
  <2>2. m \in InUse(kept)
    <3>1. /\ kept \in Seq(Node)
          /\ \A i \in 1 .. Len(kept) : kept[i] \in DOMAIN heap
      BY <1>8, SetKept DEF CacheInv, Set
    <3> HIDE DEF kept
    <3>2. \A i \in 1 .. Len(stack[h]) : stack[h][i].node \in InUse(kept)
      BY <3>1, Used DEF CacheInv
    <3>3. 1 \in 1 .. Len(stack[h]) /\ m = stack[h][1].node
      BY <1>1
    <3> QED
      BY <3>2, <3>3
  <2>3. \A x : (Settled(x, field))' = IF n = x THEN c.expiresAt ELSE heap'[x][field]
    BY <1>8, SetSettled
  <2>4. [Next]_vars
    BY DEF Next, Acts
  <2> HIDE DEF c, kept, n
  <2>5. heap'[m] = heap[m]
    BY <1>5, <2>1, <2>2 DEF Renewed
  <2>6. CASE m # n
    BY <1>3, <1>4, <2>3, <2>5, <2>6
  <2>7. CASE m = n
    <3>1. n = nodeByKey[c.key] /\ nodeByKey'[c.key] = n
      BY <2>1, <2>2, <2>7 DEF Renewed
    <3>2. c.key = k
      BY <1>5, <2>1, <2>7, <3>1 DEF CacheInv, MapInv
    <3>3. (Latest(k))' = (Settled(nodeByKey[k], "expiresAt"))'
      BY <1>5, <2>4, <2>7, <3>1, <3>2, LatestNext DEF LatestIsSettled
    <3>4. (Settled(nodeByKey[k], "expiresAt"))' = c.expiresAt
      <4>1. PICK x : x = nodeByKey'[k]
        OBVIOUS
      <4>2. (Settled(x, "expiresAt"))' =
               IF SetNode(g) = x THEN Top(g).call.expiresAt ELSE heap'[x]["expiresAt"]
        BY <1>8, SetSettled
      <4>3. x = n
        BY <3>1, <3>2, <4>1
      <4> QED
        BY <4>1, <4>2, <4>3 DEF c, n
    <3>5. (Settled(m, field))' = c.expiresAt
      BY <2>3, <2>7
    <3> QED
      BY <1>3, <1>4, <2>5, <3>3, <3>4, <3>5
  <2> QED
    BY <2>6, <2>7
<1> QED
  BY <1>6, <1>7, <1>8

\* Only Lookup leads to the check of a node, and only the check to its value.
LEMMA ChecksFrom ==
    ASSUME CacheInv, NEW g \in Goroutine, Acts(g), ~Lookup(g), ~CheckExpiry(g)
    PROVE  ~(At(g, "check"))' /\ ~(At(g, "load"))'
<1>0. stack \in Stacks /\ FrameInv
  BY Stacked DEF CacheInv
<1>1. ASSUME NEW op \in Operation, NEW c \in Call(op), Begin(g, c)
      PROVE  ~(At(g, "check"))' /\ ~(At(g, "load"))'
  <2>1. c \in AnyCall
    BY Constants, Arguments
  <2> QED
    BY <1>0, <1>1, <2>1, Begun, NewFrame
<1>2. ASSUME NEW op \in InLoop, NEW c \in Call(op), BodyCall(g, c)
      PROVE  ~(At(g, "check"))' /\ ~(At(g, "load"))'
  <2>1. c \in AnyCall
    BY Constants, Arguments
  <2>2. Frame(c).pc \notin {"check", "load"}
    BY <2>1, NewFrame
  <2> QED
    BY <1>0, <1>2, <2>1, <2>2, BodyCalled
<1>3. ASSUME ~Idle(g), NEW f, Moves(g, f), f.pc \notin {"check", "load"}
      PROVE  ~(At(g, "check"))' /\ ~(At(g, "load"))'
  BY <1>3, HeldMoved
<1>4. ASSUME ~Idle(g), NEW a, Return(g, a)
      PROVE  ~(At(g, "check"))' /\ ~(At(g, "load"))'
  BY <1>4, HeldReturned
<1>5. CASE Step(g) \/ CallLock(g)
  <2>1. ~Idle(g)
    BY <1>5, StepKinds
  <2>2. CASE CallRLock(g) \/ CallLock(g) \/ Body(g)
    BY <1>3, <2>1, <2>2, CallRLockStep, CallLockStep, BodyStep
  <2>3. CASE Set(g) \/ \E field \in {"expiresAt", "value"} : Assign(g, field)
    BY <1>3, <2>1, <2>3, SetStep, AssignStep
  <2>4. CASE LoadValue(g) \/ TryContains(g)
    BY <1>4, <2>1, <2>4, LoadValueStep DEF TryContains
  <2>5. CASE FinishSet(g) \/ RemoveKey(g) \/ Clear(g) \/ Break(g)
    BY <1>4, <2>1, <2>5 DEF FinishSet, RemoveKey, Clear, Break
  <2>6. CASE StartLoop(g) \/ Advance(g)
    BY <1>3, <1>4, <2>1, <2>6, StartLoopStep, AdvanceStep DEF LoopStep
  <2> QED
    BY <1>2, <1>5, <2>2, <2>3, <2>4, <2>5, <2>6 DEF Step
<1> QED
  BY <1>1, <1>5 DEF Acts

\* A goroutine that is watched after its step was so before, and is at the same
\* call, or begins one.
LEMMA WatchedNext ==
    ASSUME CacheInv, NEW g \in Goroutine, Step(g) \/ CallLock(g), (Watched(g))'
    PROVE  Watched(g) /\ \E f : Moves(g, f) /\ (Top(g))' = f /\ f.call = Top(g).call
<1>0. stack \in Stacks /\ FrameInv /\ ~Idle(g)
  BY Stacked, StepKinds DEF CacheInv
<1>1. ASSUME NEW a, Return(g, a)
      PROVE  FALSE
  <2>1. /\ stack' \in Stacks
        /\ Len(stack'[g]) = Len(stack[g]) - 1
        /\ \A i \in 1 .. Len(stack[g]) - 1 : stack'[g][i] = stack[g][i]
    BY <1>0, <1>1, Returned
  <2>2. Len(stack[g]) \in 1 .. 2
    BY <1>0, TopFacts
  <2>3. ~(Idle(g))' /\ Len(stack'[g]) = 1 /\ (Top(g))'.call.key # nil
    BY DEF Watched
  <2>4. Len(stack[g]) = 2
    <3>1. \A l \in 1 .. 2 : l - 1 = 1 => l = 2
      OBVIOUS
    <3> QED
      BY <2>1, <2>2, <2>3, <3>1
  <2>5. stack'[g][1] = stack[g][1]
    <3>1. 1 \in 1 .. 2 - 1
      OBVIOUS
    <3> QED
      BY <2>1, <2>4, <3>1
  <2>6. (Top(g))' = stack[g][1]
    <3>1. stack'[g] \in Seq(AnyFrame)
      BY <2>1 DEF Stacks
    <3> QED
      BY <2>3, <2>5, <3>1 DEF Top, Last
  <2>7. ~Watched(g)
    BY <2>4 DEF Watched
  <2> QED
    BY <1>0, <2>3, <2>6, <2>7, Watching
<1>2. ASSUME NEW op \in InLoop, NEW c \in Call(op), BodyCall(g, c)
      PROVE  FALSE
  <2>1. c \in AnyCall
    BY Constants, Arguments
  <2>2. Len(stack'[g]) = 2
    BY <1>0, <1>2, <2>1, BodyCalled
  <2> QED
    BY <2>2 DEF Watched
<1>3. PICK f : Moves(g, f)
  BY <1>1, <1>2, StepKinds
<1>4. f \in AnyFrame /\ Update(g, f) /\ f.call = Top(g).call
  BY <1>3 DEF Moves
<1>5. Len(stack'[g]) = Len(stack[g]) /\ (Top(g))' = f
  BY <1>0, <1>4, Updated
<1> QED
  BY <1>0, <1>3, <1>4, <1>5 DEF Watched

\* Under the read lock a node has one entry, the latest of its key.
LEMMA LockedEntry ==
    ASSUME CacheInv, NEW h \in Goroutine, holds[h] > 0 \/ writer = nil,
           NEW k \in Key, nodeByKey[k] # nil
    PROVE  /\ Latest(k) \in Time
           /\ \A field \in Fields : /\ heap[nodeByKey[k]][field] = Latest(k)
                                    /\ Settled(nodeByKey[k], field) = Latest(k)
<1>1. \A g \in Goroutine : ~At(g, "assign")
  <2>1. holds[h] \in Nat
    BY DEF CacheInv, TypeOK, LockTypeOK
  <2>2. holds[h] # 0 \/ writer = nil
    BY <2>1
  <2> QED
    BY <2>2, Constants DEF CacheInv, LockInv
<1>2. \A m, field : Settled(m, field) = heap[m][field]
  BY <1>1, SettledNow
<1>3. PICK i \in DOMAIN list : list[i] = nodeByKey[k]
  BY DEF CacheInv, MapInv
<1>4. heap[nodeByKey[k]].value = heap[nodeByKey[k]].expiresAt
  BY <1>2, <1>3 DEF CacheInv, OrderInv
<1>5. Latest(k) = heap[nodeByKey[k]].expiresAt
  BY <1>2, LatestSettled DEF LatestIsSettled
<1>6. Latest(k) \in Time
  <2>1. nodeByKey[k] \in DOMAIN heap
    BY <1>3 DEF CacheInv, MapInv
  <2> QED
    BY <1>5, <2>1 DEF CacheInv, TypeOK
<1> QED
  BY <1>2, <1>4, <1>5, <1>6 DEF Fields

LEMMA LookupHolds ==
    ASSUME CacheInv, NEW g \in Goroutine, Lookup(g)
    PROVE  holds[g] > 0
<1>1. At(g, "reading") /\ Granted(g) /\ ~Idle(g)
  BY DEF Lookup, At
<1>2. Len(stack[g]) \in 1 .. 2
  BY <1>1, TopFacts
<1>3. holds[g] = Held(g)
  BY DEF CacheInv, LockInv
<1> QED
  BY <1>1, <1>2, <1>3 DEF Held, Reading

\* A node that is checked has an instant, later than now unless it has expired.
LEMMA CheckedNode ==
    ASSUME CacheInv, NEW g \in Goroutine, ~Idle(g), Top(g).pc \in {"check", "load"}
    PROVE  /\ heap[Top(g).node].expiresAt \in Time /\ heap[Top(g).node].expiresAt # nil
           /\ heap[Top(g).node].value \in Time /\ heap[Top(g).node].value # nil
           /\ Top(g).call.now \in Time
           /\ Expired(Top(g).node, Top(g).call.now) <=>
                 ~(heap[Top(g).node].expiresAt > Top(g).call.now)
<1>1. PointerOK(Top(g)) /\ FrameOK(Top(g)) /\ Top(g).call \in AnyCall
  BY TopFacts
<1>2. Top(g).node \in DOMAIN heap /\ Top(g).call.op \in Getters
  BY <1>1 DEF PointerOK, PointsTo, FrameOK
<1>3. heap[Top(g).node].expiresAt \in Time /\ heap[Top(g).node].value \in Time
  BY <1>2 DEF CacheInv, TypeOK
<1>4. Top(g).call.now \in Time
  BY <1>1, <1>2, AnyArguments
<1>5. \A a, b \in Time : a <= b <=> ~(a > b)
  BY Constants
<1> QED
  BY <1>3, <1>4, <1>5, Constants DEF Expired

LEMMA SeenStep ==
    ASSUME CacheInv, SeenInv, [Next]_vars
    PROVE  SeenInv'
<1>1. CASE UNCHANGED vars
  BY <1>1 DEF vars, SeenInv, FrameSeen, Watched, Latest, Settled, At, Idle, Top
<1>2. ASSUME NEW g \in Goroutine, Acts(g), NEW h \in Goroutine, (Watched(h))',
             Watched(h), (Top(h))' = Top(h) \/ (Top(h))'.pc \notin {"check", "load"},
             (Top(h))'.call = Top(h).call
      PROVE  (Latest(Top(h).call.key) \in seen[h] /\ FrameSeen(Top(h), seen[h]))'
  <2>1. ~Idle(h)
    BY <1>2 DEF Watched
  <2>2. PICK k \in Key : k = Top(h).call.key
    BY <1>2, <2>1, Watching
  <2>3. seen[h] \subseteq seen'[h] /\ (Latest(k))' \in seen'[h]
    BY <1>2, <2>2, SeenGrows
  <2>4. (Latest(Top(h).call.key))' = (Latest(k))'
    BY <1>2, <2>2
  <2>5. CASE (Top(h))'.pc \notin {"check", "load"}
    BY <2>3, <2>4, <2>5 DEF FrameSeen
  <2>6. CASE (Top(h))'.pc \in {"check", "load"}
    <3>1. (Top(h))' = Top(h) /\ Top(h).pc \in {"check", "load"}
      BY <1>2, <2>6
    <3>2. PICK m : m = Top(h).node
      OBVIOUS
    <3>3. \A field \in Fields :
             heap'[m][field] \in seen'[h] /\ (Settled(m, field))' \in seen'[h]
      BY <1>2, <3>1, <3>2, FieldsStay
    <3>4. m = (Top(h))'.node
      BY <3>1, <3>2
    <3>5. Top(h).pc = "load" => \E e \in seen'[h] : e # nil /\ e > Top(h).call.now
      BY <1>2, <2>3 DEF SeenInv, FrameSeen
    <3>6. (FrameSeen(Top(h), seen[h]))'
      BY <3>1, <3>3, <3>4, <3>5 DEF FrameSeen
    <3> QED
      BY <2>3, <2>4, <3>6
  <2> QED
    BY <2>5, <2>6
<1>3. ASSUME NEW g \in Goroutine, Acts(g), NEW h \in Goroutine, h # g, (Watched(h))'
      PROVE  (Latest(Top(h).call.key) \in seen[h] /\ FrameSeen(Top(h), seen[h]))'
  <2>1. stack'[h] = stack[h] /\ (Top(h))' = Top(h)
    BY <1>3, OthersStay
  <2>2. Watched(h)
    BY <1>3, <2>1 DEF Watched, Idle
  <2> QED
    BY <1>2, <1>3, <2>1, <2>2
<1>4. ASSUME NEW g \in Goroutine, NEW op \in Operation, NEW c \in Call(op), Begin(g, c),
             (Watched(g))'
      PROVE  (Latest(Top(g).call.key) \in seen[g] /\ FrameSeen(Top(g), seen[g]))'
  <2>1. c \in AnyCall /\ Acts(g) /\ stack \in Stacks
    BY <1>4, Constants, Arguments, Stacked DEF Acts, CacheInv
  <2>2. (Top(g))' = Frame(c) /\ Frame(c).call = c /\ Frame(c).pc \notin {"check", "load"}
    BY <1>4, <2>1, Begun, NewFrame
  <2>3. c.key # nil
    BY <1>4, <2>2 DEF Watched
  <2>4. PICK k \in Key : k = c.key
    BY <2>1, <2>3, AnyArguments
  <2>5. ~Set(g) /\ ~RemoveKey(g) /\ ~Clear(g)
    BY <1>4 DEF Begin, Set, RemoveKey, Clear, At
  <2>6. (Latest(k))' = Latest(k)
    BY <2>1, <2>5, EntriesStay
  <2>7. seen' = [seen EXCEPT ![g] = {Latest(k)}]
    BY <1>4, <2>3, <2>4 DEF Begin
  <2>8. (Latest(k))' \in seen'[g]
    BY <2>6, <2>7 DEF CacheInv, TypeOK
  <2> QED
    BY <2>2, <2>4, <2>8 DEF FrameSeen
<1>5. ASSUME NEW g \in Goroutine, Step(g) \/ CallLock(g), (Watched(g))'
      PROVE  (Latest(Top(g).call.key) \in seen[g] /\ FrameSeen(Top(g), seen[g]))'
  <2>1. Acts(g) /\ Watched(g) /\ ~Idle(g)
    BY <1>5, WatchedNext DEF Acts, Watched
  <2>2. PICK f : Moves(g, f) /\ (Top(g))' = f /\ f.call = Top(g).call
    BY <1>5, WatchedNext
  <2>3. CASE f.pc \notin {"check", "load"}
    BY <1>2, <1>5, <2>1, <2>2, <2>3
  <2>4. CASE f.pc \in {"check", "load"}
    <3>1. PICK k \in Key : k = Top(g).call.key
      BY <2>1, Watching
    <3>2. (At(g, "check"))' \/ (At(g, "load"))'
      BY <1>5, <2>2, <2>4 DEF At, Watched
    <3>3. Lookup(g) \/ CheckExpiry(g)
      BY <2>1, <3>2, ChecksFrom
    <3>4. UNCHANGED cacheVars /\ UNCHANGED seen /\ ~Writes(g)
      BY <3>3 DEF Lookup, CheckExpiry, Writes, Set, Assign, RemoveKey, Clear, At
    <3>5. heap' = heap /\ seen' = seen /\ Latest(k) \in seen[g] /\ (Latest(k))' \in seen'[g]
      BY <2>1, <3>1, <3>4, SeenGrows DEF SeenInv, cacheVars
    <3>6. \A m : \A field \in Fields : (Settled(m, field))' = Settled(m, field)
      BY <2>1, <3>4, SettledStays
    <3>7. ASSUME NEW m, m = f.node,
                 \A field \in Fields :
                    heap[m][field] \in seen[g] /\ Settled(m, field) \in seen[g],
                 f.pc = "load" => \E e \in seen[g] : e # nil /\ e > f.call.now
          PROVE  (FrameSeen(Top(g), seen[g]))'
      <4>1. \A field \in Fields : heap'[m][field] \in seen'[g] /\ (Settled(m, field))' \in seen'[g]
        BY <3>5, <3>6, <3>7
      <4> QED
        BY <2>2, <3>5, <3>7, <4>1 DEF FrameSeen
    <3>8. CASE Lookup(g)
      <4>1. nodeByKey[k] # nil /\ f.pc = "check" /\ f.node = nodeByKey[k]
        <5>1. ~Return(g, Answer(g, nodeByKey[k] # nil, nil, nil))
          <6>1. ASSUME NEW a, Return(g, a)
                PROVE  FALSE
            <7>1. \A pc : (At(g, pc))' => pc = "next"
              BY <2>1, <6>1, HeldReturned
            <7> QED
              BY <3>2, <7>1
          <6> QED
            BY <6>1
        <5>2. PICK e : /\ nodeByKey[k] # nil
                       /\ Moves(g, e) /\ e.pc = "check" /\ e.node = nodeByKey[e.call.key]
          BY <3>1, <3>8, <5>1, LookupStep
        <5>3. (Top(g))' = e /\ e.call = Top(g).call
          BY <2>1, <5>2, Updated, Stacked DEF Moves, CacheInv
        <5> QED
          BY <2>2, <3>1, <5>2, <5>3
      <4>2. \A field \in Fields : /\ heap[nodeByKey[k]][field] = Latest(k)
                                  /\ Settled(nodeByKey[k], field) = Latest(k)
        BY <3>8, <4>1, LookupHolds, LockedEntry
      <4>3. (FrameSeen(Top(g), seen[g]))'
        BY <3>5, <3>7, <4>1, <4>2
      <4> QED
        BY <2>2, <3>1, <3>5, <4>3
    <3>9. CASE CheckExpiry(g)
      <4>1. Top(g).pc = "check" /\ FrameSeen(Top(g), seen[g]) /\ Top(g) \in AnyFrame
        BY <2>1, <3>9, CheckExpiryStep, TopFacts DEF SeenInv
      <4>2. \A field \in Fields :
               heap[Top(g).node][field] \in seen[g] /\ Settled(Top(g).node, field) \in seen[g]
        BY <4>1 DEF FrameSeen
      <4>3. f.node = Top(g).node /\ ~Expired(Top(g).node, Top(g).call.now)
        <5>1. ASSUME NEW a, Return(g, a)
              PROVE  FALSE
          <6>1. \A pc : (At(g, pc))' => pc = "next"
            BY <2>1, <5>1, HeldReturned
          <6> QED
            BY <3>2, <6>1
        <5>2. PICK e : /\ ~Expired(Top(g).node, Top(g).call.now)
                       /\ Moves(g, e) /\ e.node = Top(g).node
          BY <3>9, <5>1, CheckExpiryStep
        <5>3. (Top(g))' = e
          BY <2>1, <5>2, Updated, Stacked DEF Moves, CacheInv
        <5> QED
          BY <2>2, <5>2, <5>3
      <4>4. \E e \in seen[g] : e # nil /\ e > f.call.now
        BY <2>1, <2>2, <4>1, <4>2, <4>3, CheckedNode DEF Fields
      <4>5. (FrameSeen(Top(g), seen[g]))'
        BY <3>7, <4>2, <4>3, <4>4
      <4> QED
        BY <2>2, <3>1, <3>5, <4>5
    <3> QED
      BY <3>3, <3>8, <3>9
  <2> QED
    BY <2>3, <2>4
<1>6. ASSUME NEW g \in Goroutine, Acts(g), NEW h \in Goroutine
      PROVE  /\ IsFiniteSet(seen'[h])
             /\ (Watched(h))' =>
                   (Latest(Top(h).call.key) \in seen[h] /\ FrameSeen(Top(h), seen[h]))'
  BY <1>3, <1>4, <1>5, <1>6, SeenFinite DEF Acts
<1>7. ASSUME NEW g \in Goroutine, Acts(g)
      PROVE  SeenInv'
  BY <1>6, <1>7 DEF SeenInv
<1> QED
  BY <1>1, <1>7 DEF Next, Acts

(***************************************************************************)
(* What lookups answer.                                                    *)
(***************************************************************************)

\* An entry that a lookup should find, and an answer that a history bears out.
Fresh(a, e) == e # nil /\ (a.call.op \in Getters => e > a.call.now)

BorneOut(a, history) ==
    /\ a.ok /\ a.call.op = "Get" => a.value \in history
    /\ a.ok => \E e \in history : e # nil
    /\ ~a.ok /\ a.call.op # "TryContains" => \E e \in history : ~Fresh(a, e)
    /\ a.ok /\ Cardinality(history) = 1 => \A e \in history : Fresh(a, e)

LEMMA AnswerParts ==
    AnswersAreCurrent <=> \A g \in Goroutine : answer[g] # nil => BorneOut(answer[g], seen[g])
BY DEF AnswersAreCurrent, BorneOut, Fresh

\* A hit is borne out by one fresh entry: if that is all there was, then the
\* entry has been fresh throughout.
LEMMA HitBorneOut ==
    ASSUME NEW a, NEW history, IsFiniteSet(history), NEW e \in history, Fresh(a, e),
           a.ok, a.call.op = "Get" => a.value \in history
    PROVE  BorneOut(a, history)
<1>1. ASSUME Cardinality(history) = 1
      PROVE  \A d \in history : d = e
  <2>1. PICK d : history = {d}
    BY <1>1, FS_Singleton
  <2> QED
    BY <2>1
<1> QED
  BY <1>1 DEF BorneOut, Fresh

LEMMA MissBorneOut ==
    ASSUME NEW a, NEW history, ~a.ok,
           a.call.op # "TryContains" => \E e \in history : ~Fresh(a, e)
    PROVE  BorneOut(a, history)
BY DEF BorneOut

\* The answer of a call that a goroutine, not a loop, has made.
LEMMA NewAnswers ==
    ASSUME CacheInv, SeenInv, NEW g \in Goroutine, Step(g) \/ CallLock(g),
           Len(stack[g]) = 1, NEW a, Return(g, a), a # nil
    PROVE  BorneOut(a, seen[g]) /\ seen'[g] = seen[g]
<1>0. ~Idle(g) /\ Acts(g)
  BY StepKinds DEF Acts
<1>1. answer'[g] = a
  <2>1. answer' = [answer EXCEPT ![g] = a]
    BY DEF Return
  <2> QED
    BY <2>1 DEF CacheInv, TypeOK
<1>2. ASSUME NEW b, Return(g, b)
      PROVE  b = a
  <2>1. answer' = [answer EXCEPT ![g] = b]
    BY <1>2 DEF Return
  <2> QED
    BY <1>1, <2>1 DEF CacheInv, TypeOK
<1>3. ASSUME answer' = answer
      PROVE  FALSE
  BY <1>0, <1>1, <1>3, TopFacts
<1>4. Watched(g) => /\ Latest(Top(g).call.key) \in seen[g] /\ FrameSeen(Top(g), seen[g])
                    /\ IsFiniteSet(seen[g])
  BY DEF SeenInv
<1>5. Top(g).call \in AnyCall /\ FrameOK(Top(g))
  BY <1>0, TopFacts
<1>6. Top(g).call.key \in Key => Watched(g)
  BY <1>0, Constants DEF Watched
<1>7. CASE Lookup(g)
  <2> DEFINE k == Top(g).call.key
  <2>1. k \in Key /\ Top(g).pc = "reading" /\ seen' = seen
    BY <1>7, LookupStep DEF Lookup
  <2>2. /\ Top(g).call.op = "Contains" \/ nodeByKey[k] = nil
        /\ a = Answer(g, nodeByKey[k] # nil, nil, nil)
    BY <1>2, <1>3, <1>7, LookupStep DEF Moves
  <2>3. /\ a.call = Top(g).call /\ a.ok = (nodeByKey[k] # nil)
    BY <2>2 DEF Answer
  <2>4. Watched(g)
    BY <1>6, <2>1
  <2>5. CASE nodeByKey[k] = nil
    <3>1. Latest(k) = nil
      BY <2>1, <2>5, LatestSettled DEF LatestIsSettled
    <3>2. ~Fresh(a, Latest(k)) /\ ~a.ok
      BY <2>3, <2>5, <3>1 DEF Fresh
    <3> QED
      BY <1>4, <2>1, <2>4, <3>2, MissBorneOut
  <2>6. CASE nodeByKey[k] # nil
    <3>1. Latest(k) \in Time
      BY <1>7, <2>1, <2>6, LookupHolds, LockedEntry
    <3>2. Fresh(a, Latest(k)) /\ a.ok /\ a.call.op = "Contains"
      BY <2>2, <2>3, <2>6, <3>1, Constants DEF Fresh, Getters
    <3> QED
      BY <1>4, <2>1, <2>4, <3>2, HitBorneOut
  <2> QED
    BY <2>5, <2>6
<1>8. CASE CheckExpiry(g)
  <2> DEFINE e == heap[Top(g).node].expiresAt
             now == Top(g).call.now
  <2>1. Top(g).pc = "check" /\ seen' = seen
    BY <1>8, CheckExpiryStep DEF CheckExpiry
  <2>2. Top(g).call.op \in Getters
    BY <1>5, <2>1 DEF FrameOK
  <2>3. Top(g).call.key \in Key
    <3>1. Top(g).call.op \notin Iterators \cup {"Clear"}
      BY <2>2 DEF Getters, Iterators
    <3> QED
      BY <1>5, <3>1, AnyArguments
  <2>4. e \in seen[g] /\ IsFiniteSet(seen[g])
    BY <1>4, <1>6, <2>1, <2>3 DEF FrameSeen, Fields
  <2>5. e # nil /\ (Expired(Top(g).node, now) <=> ~(e > now))
    BY <1>0, <2>1, CheckedNode
  <2>6. \/ Expired(Top(g).node, now) /\ a = Answer(g, FALSE, nil, nil)
        \/ /\ ~Expired(Top(g).node, now) /\ Top(g).call.op = "GetEntry"
           /\ a = Answer(g, TRUE, nil, Top(g).node)
    BY <1>2, <1>3, <1>8, CheckExpiryStep DEF Moves
  <2> HIDE DEF e, now
  <2>7. CASE Expired(Top(g).node, now) /\ a = Answer(g, FALSE, nil, nil)
    <3>1. ~a.ok /\ a.call = Top(g).call
      BY <2>7 DEF Answer
    <3>2. ~Fresh(a, e)
      BY <2>2, <2>5, <2>7, <3>1 DEF Fresh, now
    <3> QED
      BY <2>1, <2>4, <3>1, <3>2, MissBorneOut
  <2>8. CASE /\ ~Expired(Top(g).node, now) /\ Top(g).call.op = "GetEntry"
             /\ a = Answer(g, TRUE, nil, Top(g).node)
    <3>1. a.ok /\ a.call = Top(g).call
      BY <2>8 DEF Answer
    <3>2. Fresh(a, e) /\ a.call.op # "Get"
      BY <2>5, <2>8, <3>1 DEF Fresh, now
    <3> QED
      BY <2>1, <2>4, <3>1, <3>2, HitBorneOut
  <2> QED
    BY <2>6, <2>7, <2>8
<1>9. CASE LoadValue(g)
  <2>1. Top(g).pc = "load" /\ seen' = seen
    BY <1>9, LoadValueStep DEF LoadValue
  <2>2. Top(g).call.op = "Get"
    BY <1>5, <2>1 DEF FrameOK
  <2>3. Top(g).call.key \in Key
    <3>1. Top(g).call.op \notin Iterators \cup {"Clear"}
      BY <2>2 DEF Iterators
    <3> QED
      BY <1>5, <3>1, AnyArguments
  <2>4. /\ heap[Top(g).node].value \in seen[g] /\ IsFiniteSet(seen[g])
        /\ \E e \in seen[g] : e # nil /\ e > Top(g).call.now
    BY <1>4, <1>6, <2>1, <2>3 DEF FrameSeen, Fields
  <2>5. a = Answer(g, TRUE, heap[Top(g).node].value, nil)
    BY <1>2, <1>9, LoadValueStep
  <2>6. a.ok /\ a.call = Top(g).call /\ a.value \in seen[g]
    BY <2>4, <2>5 DEF Answer
  <2>7. PICK e \in seen[g] : Fresh(a, e)
    BY <2>4, <2>6 DEF Fresh
  <2> QED
    BY <2>1, <2>4, <2>6, <2>7, HitBorneOut
<1>10. CASE TryContains(g)
  <2> DEFINE k == Top(g).call.key
             ok == writer = nil /\ nodeByKey[k] # nil
  <2>1. Top(g).pc = "try" /\ seen' = seen /\ Return(g, Answer(g, ok, nil, nil))
    BY <1>10 DEF TryContains, At
  <2>2. a = Answer(g, ok, nil, nil)
    BY <1>2, <2>1
  <2>3. Top(g).call.op = "TryContains"
    BY <1>5, <2>1 DEF FrameOK
  <2>4. k \in Key
    <3>1. Top(g).call.op \notin Iterators \cup {"Clear"}
      BY <2>3 DEF Iterators
    <3> QED
      BY <1>5, <3>1, AnyArguments
  <2>5. a.call = Top(g).call /\ a.ok = ok
    BY <2>2 DEF Answer
  <2>6. CASE ~ok
    BY <2>1, <2>3, <2>5, <2>6, MissBorneOut
  <2>7. CASE ok
    <3>1. Latest(k) \in Time
      BY <2>4, <2>7, LockedEntry
    <3>2. Fresh(a, Latest(k)) /\ a.call.op # "Get" /\ a.ok
      BY <2>3, <2>5, <2>7, <3>1, Constants DEF Fresh, Getters
    <3> QED
      BY <1>4, <1>6, <2>1, <2>4, <3>2, HitBorneOut
  <2> QED
    BY <2>6, <2>7
<1>11. ~CallLock(g) /\ ~CallRLock(g) /\ ~Set(g) /\ ~Body(g)
  BY <1>3 DEF CallLock, CallRLock, Set, Body
<1>12. ~(\E field \in {"expiresAt", "value"} : Assign(g, field))
  BY <1>3 DEF Assign
<1>13. ~FinishSet(g) /\ ~RemoveKey(g) /\ ~Clear(g) /\ ~Break(g)
  BY <1>2 DEF FinishSet, RemoveKey, Clear, Break
<1>14. ~StartLoop(g) /\ ~Advance(g)
  <2>1. ~LoopStep(g)
    BY <1>2, <1>3 DEF LoopStep, Moves
  <2> QED
    BY <2>1, StartLoopStep, AdvanceStep
<1>15. ~(\E op \in InLoop : \E c \in Call(op) : BodyCall(g, c))
  BY <1>3 DEF BodyCall
<1> QED
  BY <1>7, <1>8, <1>9, <1>10, <1>11, <1>12, <1>13, <1>14, <1>15 DEF Step

LEMMA AnswersStep ==
    ASSUME CacheInv, SeenInv, AnswersAreCurrent, [Next]_vars
    PROVE  AnswersAreCurrent'
<1>0. /\ answer \in [Goroutine -> AnyAnswer \cup {nil}]
      /\ \A g \in Goroutine : answer[g] # nil => BorneOut(answer[g], seen[g]) /\ Idle(g)
  BY AnswerParts DEF CacheInv, TypeOK, FrameInv
<1>1. CASE UNCHANGED vars
  BY <1>1 DEF vars, AnswersAreCurrent
<1>2. ASSUME NEW g \in Goroutine, NEW op \in Operation, NEW c \in Call(op), Begin(g, c),
             NEW h \in Goroutine, answer'[h] # nil
      PROVE  BorneOut(answer'[h], seen'[h])
  <2>1. answer' = [answer EXCEPT ![g] = nil] /\ Acts(g)
    BY <1>2 DEF Begin, Acts
  <2>2. h # g /\ answer'[h] = answer[h]
    BY <1>0, <1>2, <2>1
  <2> QED
    BY <1>0, <1>2, <2>1, <2>2, SeenStays
<1>3. ASSUME NEW g \in Goroutine, Step(g) \/ CallLock(g),
             NEW h \in Goroutine, answer'[h] # nil
      PROVE  BorneOut(answer'[h], seen'[h])
  <2>1. ~Idle(g) /\ Acts(g) /\ answer[g] = nil /\ Len(stack[g]) \in 1 .. 2
    BY <1>3, StepKinds, TopFacts DEF Acts
  <2>2. CASE answer' = answer
    <3>1. h # g /\ Idle(h) /\ BorneOut(answer[h], seen[h])
      BY <1>0, <1>3, <2>1, <2>2
    <3> QED
      BY <2>1, <2>2, <3>1, SeenStays
  <2>3. ASSUME NEW a, Return(g, a), Len(stack[g]) = 1
        PROVE  BorneOut(answer'[h], seen'[h])
    <3>1. answer' = [answer EXCEPT ![g] = a]
      BY <2>3 DEF Return
    <3>2. CASE h = g
      <4>1. answer'[h] = a /\ a # nil
        BY <1>0, <1>3, <3>1, <3>2
      <4> QED
        BY <1>3, <2>3, <3>2, <4>1, NewAnswers
    <3>3. CASE h # g
      <4>1. answer'[h] = answer[h]
        BY <1>0, <3>1, <3>3
      <4> QED
        BY <1>0, <1>3, <2>1, <3>3, <4>1, SeenStays
    <3> QED
      BY <3>2, <3>3
  <2>4. ASSUME answer' # answer
        PROVE  \E a : Return(g, a) /\ Len(stack[g]) = 1
    <3>1. ASSUME NEW op \in InLoop, NEW c \in Call(op), BodyCall(g, c)
          PROVE  FALSE
      BY <2>4, <3>1 DEF BodyCall
    <3>2. PICK a : Return(g, a)
      BY <1>3, <2>4, <3>1, StepKinds DEF Moves
    <3> QED
      BY <2>4, <3>2 DEF Return
  <2> QED
    BY <2>2, <2>3, <2>4
<1>4. ASSUME NEW g \in Goroutine, Acts(g)
      PROVE  \A h \in Goroutine : answer'[h] # nil => BorneOut(answer'[h], seen'[h])
  BY <1>2, <1>3, <1>4 DEF Acts
<1>5. (AnswersAreCurrent <=>
          \A g \in Goroutine : answer[g] # nil => BorneOut(answer[g], seen[g]))'
  BY AnswerParts, PTL
<1>6. ASSUME NEW g \in Goroutine, Acts(g)
      PROVE  AnswersAreCurrent'
  BY <1>4, <1>5, <1>6 DEF BorneOut
<1> QED
  BY <1>1, <1>6 DEF Next, Acts

\* What a lookup answers was so at some moment of the call, whatever the other
\* goroutines do between its steps: the value that Get returns was that of the
\* key, a miss means that the key was absent or expired, and an entry that
\* stayed the same throughout gets the answer it should (cache.go:63-100).
THEOREM AnswersCurrent == Spec => []AnswersAreCurrent
<1>1. Init => CacheInv /\ SeenInv /\ AnswersAreCurrent
  <2> SUFFICES ASSUME Init PROVE CacheInv /\ SeenInv /\ AnswersAreCurrent
    OBVIOUS
  <2>1. \A g \in Goroutine : Idle(g) /\ answer[g] = nil /\ seen[g] = {}
    BY DEF Init, Idle
  <2>2. SeenInv
    BY <2>1, FS_EmptySet DEF SeenInv, Watched
  <2> QED
    BY <2>1, <2>2, CacheInit DEF AnswersAreCurrent
<1>2. CacheInv /\ SeenInv /\ AnswersAreCurrent /\ [Next]_vars
         => (CacheInv /\ SeenInv /\ AnswersAreCurrent)'
  BY CacheStep, SeenStep, AnswersStep
<1> QED
  BY <1>1, <1>2, PTL DEF Spec
=============================================================================
