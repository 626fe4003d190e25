----------------------- MODULE RoutingMessagesProofs -----------------------
(***************************************************************************)
(* What parseAndLogMsgs and ParseAddrs keep true of every buffer that the  *)
(* kernel may write, on every platform.                                    *)
(***************************************************************************)
EXTENDS RoutingMessages, ArithmeticTheorems, SequenceTheorems

-----------------------------------------------------------------------------
(* The inductive invariant.                                                *)

\* The log ought to tell of message k.
Due(k) == Reached(k) /\ Told(k)

\* What the log may say.
Entries == {Entry(messages[j]) : j \in 1 .. Len(messages)}

\* The loop has come to message k, or to the end of all.
Behind(k) ==
    /\ k \in 1 .. Len(messages) + 1
    /\ at = Start(k)
    /\ at <= size
    /\ platform.current => Reached(k - 1)

\* The log l tells of those before message k that are due, in their order: its
\* entries are those of the messages e[1], e[2], ...
DueBefore(e, n, k) ==
    /\ e \in [1 .. n -> 1 .. k - 1]
    /\ \A i, j \in 1 .. n : i < j => e[i] < e[j]
    /\ \A j \in 1 .. k - 1 : Due(j) <=> \E i \in 1 .. n : e[i] = j

Tells(l, k) ==
    /\ l \in Seq(Entries)
    /\ Len(l) <= k - 1
    /\ \E e : /\ DueBefore(e, Len(l), k)
             /\ \A n \in 1 .. Len(l) : l[n] = Entry(messages[e[n]])

\* There is a usable interface with the index of message j up to message j.
UsableUpTo(j) ==
    \E i \in 1 .. j : /\ messages[i].type = "interface"
                      /\ messages[i].index = messages[j].index
                      /\ Usable(messages[i])

\* The filter remembers index x of k - 1 messages: it is that of one of their
\* interfaces, and that of the last one exactly if the filter has kept it.
Remembers(x, k) ==
    /\ \/ x = 0
       \/ \E j \in 1 .. k - 1 : messages[j].type = "interface" /\ messages[j].index = x
    /\ k > 1 /\ messages[k - 1].type \in {"interface", "address"} =>
           (x = messages[k - 1].index <=> UsableUpTo(k - 1))

\* ParseAddrs in message k: the addresses from the next one on are left, and
\* of those before it, all that have room for a sockaddr_in are found.
InAddrs(m) ==
    /\ bits \subseteq DOMAIN m.addrs
    /\ \A i \in bits, j \in DOMAIN m.addrs : j > i => j \in bits
    /\ addrsAt \in at .. at + Msglen(m)
    /\ bits # {} => addrsAt = at + AddrOffset(m, Min(bits))
    /\ DOMAIN dst \subseteq DOMAIN m.addrs \ bits
    /\ \A i \in DOMAIN dst : /\ dst[i] = at + AddrOffset(m, i)
                             /\ dst[i] + SizeofSockaddrInet4 <= at + Msglen(m)
    /\ \A i \in DOMAIN m.addrs \ bits :
           i \notin DOMAIN dst => m.addrs[i].len < SizeofSockaddrInet4

InMessage(k) ==
    /\ k <= Len(messages)
    /\ messages[k].type \in Type
    /\ Due(k)
    /\ InAddrs(messages[k])

Place(k) ==
    /\ Behind(k)
    /\ Tells(logged, k)
    /\ filter /\ platform.current => Remembers(ifindex, IF pc = "address" THEN k + 1 ELSE k)
    /\ pc = "address" => InMessage(k)
    /\ pc = "done" => \A j \in k .. Len(messages) : ~Due(j)

\* What the kernel has written on its platform, and how much of it there is.
KernelOK ==
    /\ platform \in Platform
    /\ filter \in BOOLEAN
    /\ messages \in Buffer /\ Written(messages)

InputOK ==
    /\ platform \in Platform
    /\ filter \in BOOLEAN
    /\ messages \in Buffer /\ Written(messages)
    /\ size \in Nat /\ size <= Start(Len(messages) + 1)

IInv == TypeOK /\ InputOK /\ \E k \in 1 .. Len(messages) + 1 : Place(k)

-----------------------------------------------------------------------------
(* The layout of a message.                                                *)

\* The room that address i of m takes.
Room(m, i) == Padded(platform.rtaAlignTo, m.addrs[i].len)

\* An address has room enough for its length, and at least four bytes, and the
\* parser computes the room that the kernel has left.
LEMMA Rooms ==
    ASSUME platform \in Platform, NEW m, MessageOK(m, platform), NEW i \in DOMAIN m.addrs
    PROVE  /\ m.addrs[i].len \in Nat
           /\ Room(m, i) \in Nat /\ 4 <= Room(m, i) /\ m.addrs[i].len <= Room(m, i)
           /\ RtaAlign(platform.rtaAlignTo, m.addrs[i].len) = Room(m, i)
<1>1. platform.rtaAlignTo \in {4, 8}
  BY MessagesAssumption DEF PlatformOK
<1>2. m.addrs[i].len \in 0 .. 256 - platform.rtaAlignTo
  BY DEF MessageOK
<1> DEFINE a == platform.rtaAlignTo
           n == m.addrs[i].len
<1>3. a \in {4, 8} /\ n \in 0 .. 256 - a
  BY <1>1, <1>2
<1> HIDE DEF a, n
<1>4. RtaAlign(a, n) \in a .. 255 /\ n <= RtaAlign(a, n) /\ RtaAlign(a, n) = Padded(a, n)
  <2>1. RtaAlign(a, n) \in a .. 255 /\ n <= RtaAlign(a, n)
    <3>1. CASE a = 4
      BY <1>3, <3>1, Z3 DEF RtaAlign
    <3>2. CASE a = 8
      BY <1>3, <3>2, Z3 DEF RtaAlign
    <3> QED
      BY <1>3, <3>1, <3>2
  <2>2. RtaAlign(a, n) = Padded(a, n)
    BY <1>3, RtaAlignIsPadded, Zenon
  <2> QED
    BY <2>1, <2>2
<1>5. Room(m, i) = Padded(a, n)
  BY DEF Room, a, n
<1> QED
  BY <1>3, <1>4, <1>5 DEF a, n

\* Addresses follow on each other, after the header and before the end.
Laid(m) ==
    /\ Msglen(m) \in Nat
    /\ platform.header[m.type] \in Nat
    /\ platform.header[m.type] <= Msglen(m)
    /\ \A i \in DOMAIN m.addrs :
          /\ AddrOffset(m, i) \in Nat
          /\ AddrOffset(m, i) + Room(m, i) <= Msglen(m)
          /\ (\A j \in DOMAIN m.addrs : i <= j) => AddrOffset(m, i) = platform.header[m.type]
          /\ \A j \in DOMAIN m.addrs :
                i < j => /\ AddrOffset(m, i) + Room(m, i) <= AddrOffset(m, j)
                         /\ (\A l \in DOMAIN m.addrs : l <= i \/ j <= l) =>
                                AddrOffset(m, j) = AddrOffset(m, i) + Room(m, i)

LEMMA Layout ==
    ASSUME platform \in Platform, NEW m, MessageOK(m, platform)
    PROVE  Laid(m)
<1> DEFINE h == platform.header[m.type]
           D == DOMAIN m.addrs
           f == [j \in D |-> Room(m, j)]
           Low(i) == {j \in D : j < i}
           E == 1 + Max({-1} \cup D)
<1>1. h \in Nat /\ IsFiniteSet(D) /\ \A j \in D : j \in Nat
  BY DEF MessageOK
<1>2. \A i : AddrOffset(m, i) = h + SumOver(f, Low(i))
  BY DEF AddrOffset, Room
<1>3. Msglen(m) = AddrOffset(m, E)
  BY DEF Msglen
<1>4. E \in Int /\ Low(E) = D
  <2>1. IsFiniteSet({-1} \cup D)
    BY <1>1, FS_Singleton, FS_Union
  <2>2. \A x \in {-1} \cup D : x \in Int
    BY <1>1
  <2>3. Max({-1} \cup D) \in {-1} \cup D /\ \A x \in {-1} \cup D : Max({-1} \cup D) >= x
    BY <2>1, <2>2, MaxIsGreatest
  <2>4. PICK x : x = Max({-1} \cup D)
    OBVIOUS
  <2>5. x \in Int /\ \A j \in D : j < 1 + x
    BY <1>1, <2>2, <2>3, <2>4
  <2> QED
    BY <2>4, <2>5
<1>5. \A j \in D : f[j] = Room(m, j) /\ f[j] \in Nat
  BY Rooms
<1> HIDE DEF f, h, D, Low, E
<1>6. \A R \in SUBSET D : SumOver(f, R) \in Nat
  BY <1>1, <1>5, SumBounds
<1>7. \A i : Low(i) \in SUBSET D
  BY DEF Low
<1>8. \A R \in SUBSET D : \A Q \in SUBSET R : SumOver(f, Q) <= SumOver(f, R)
  <2> TAKE R \in SUBSET D
  <2> TAKE Q \in SUBSET R
  <2>1. IsFiniteSet(R) /\ \A y \in R : f[y] \in Nat
    BY <1>1, <1>5, FS_Subset
  <2> QED
    BY <2>1, SumBounds
<1>9. \A i \in D : Low(i) \cup {i} \in SUBSET D
                   /\ SumOver(f, Low(i) \cup {i}) = Room(m, i) + SumOver(f, Low(i))
  <2> TAKE i \in D
  <2>1. i \notin Low(i) /\ Low(i) \cup {i} \in SUBSET D
    BY <1>1 DEF Low
  <2>2. IsFiniteSet(Low(i)) /\ \A y \in Low(i) \cup {i} : f[y] \in Int
    BY <1>1, <1>5, <1>7, <2>1, FS_Subset
  <2>3. SumOver(f, Low(i) \cup {i}) = f[i] + SumOver(f, Low(i))
    BY <2>1, <2>2, SumAdd
  <2> QED
    BY <1>5, <2>1, <2>3
<1>10. Msglen(m) = h + SumOver(f, D)
  BY <1>2, <1>3, <1>4
<1>11. /\ Msglen(m) \in Nat
       /\ h <= Msglen(m)
  BY <1>1, <1>6, <1>10
<1>12. ASSUME NEW i \in D
       PROVE  /\ AddrOffset(m, i) \in Nat
              /\ AddrOffset(m, i) + Room(m, i) <= Msglen(m)
              /\ (\A j \in D : i <= j) => AddrOffset(m, i) = h
  <2>1. AddrOffset(m, i) = h + SumOver(f, Low(i))
    BY <1>2
  <2>2. SumOver(f, Low(i)) \in Nat /\ SumOver(f, D) \in Nat /\ Room(m, i) \in Nat
    BY <1>5, <1>6, <1>7
  <2>3. Room(m, i) + SumOver(f, Low(i)) <= SumOver(f, D)
    BY <1>8, <1>9
  <2>4. ASSUME \A j \in D : i <= j
        PROVE  SumOver(f, Low(i)) = 0
    <3>1. Low(i) = {}
      BY <1>1, <2>4 DEF Low
    <3> QED
      BY <3>1, SumEmpty
  <2> QED
    BY <1>1, <1>10, <2>1, <2>2, <2>3, <2>4
<1>13. ASSUME NEW i \in D, NEW j \in D, i < j
       PROVE  /\ AddrOffset(m, i) + Room(m, i) <= AddrOffset(m, j)
              /\ (\A l \in D : l <= i \/ j <= l) =>
                     AddrOffset(m, j) = AddrOffset(m, i) + Room(m, i)
  <2>1. /\ AddrOffset(m, i) = h + SumOver(f, Low(i))
        /\ AddrOffset(m, j) = h + SumOver(f, Low(j))
    BY <1>2
  <2>2. SumOver(f, Low(i)) \in Nat /\ SumOver(f, Low(j)) \in Nat /\ Room(m, i) \in Nat
    BY <1>5, <1>6, <1>7
  <2>3. Low(i) \cup {i} \subseteq Low(j)
    BY <1>1, <1>13 DEF Low
  <2>4. Room(m, i) + SumOver(f, Low(i)) <= SumOver(f, Low(j))
    BY <1>7, <1>8, <1>9, <2>3
  <2>5. ASSUME \A l \in D : l <= i \/ j <= l
        PROVE  SumOver(f, Low(j)) = Room(m, i) + SumOver(f, Low(i))
    <3>1. Low(j) = Low(i) \cup {i}
      BY <1>1, <1>13, <2>5 DEF Low
    <3> QED
      BY <1>9, <3>1
  <2> QED
    BY <1>1, <2>1, <2>2, <2>4, <2>5
<1> QED
  BY <1>1, <1>11, <1>12, <1>13 DEF Laid, h, D

\* What is read at the offset of an address is that address.
LEMMA ReadsAddress ==
    ASSUME platform \in Platform, NEW m, MessageOK(m, platform), NEW i \in DOMAIN m.addrs
    PROVE  SockaddrIn(m, AddrOffset(m, i)) = m.addrs[i]
<1>1. DOMAIN m.addrs \subseteq Nat
  BY DEF MessageOK
<1>2. ASSUME NEW j \in DOMAIN m.addrs, AddrOffset(m, j) = AddrOffset(m, i)
      PROVE  j = i
  <2>1. /\ AddrOffset(m, i) \in Nat /\ AddrOffset(m, j) \in Nat
        /\ i < j => AddrOffset(m, i) + Room(m, i) <= AddrOffset(m, j)
        /\ j < i => AddrOffset(m, j) + Room(m, j) <= AddrOffset(m, i)
    BY Layout DEF Laid
  <2>2. Room(m, i) \in Nat /\ Room(m, j) \in Nat /\ 4 <= Room(m, i) /\ 4 <= Room(m, j)
    BY Rooms
  <2>3. i \in Nat /\ j \in Nat
    BY <1>1
  <2>4. ~(i < j) /\ ~(j < i)
    BY <1>2, <2>1, <2>2
  <2> QED
    BY <2>3, <2>4
<1>3. (CHOOSE j \in DOMAIN m.addrs : AddrOffset(m, j) = AddrOffset(m, i)) = i
  BY <1>2
<1> QED
  BY <1>3 DEF SockaddrIn

-----------------------------------------------------------------------------
(* The layout of the buffer.                                               *)

LEMMA KernelTyped ==
    ASSUME KernelOK
    PROVE  /\ PlatformOK(platform)
           /\ Len(messages) \in Nat /\ DOMAIN messages = 1 .. Len(messages)
           /\ \A k \in 1 .. Len(messages) : MessageOK(messages[k], platform)
<1>1. platform \in Platform /\ messages \in Buffer
  BY DEF KernelOK
<1>2. messages \in Seq(Range(messages))
  BY <1>1, MessagesAssumption
<1>3. Len(messages) \in Nat /\ DOMAIN messages = 1 .. Len(messages)
  BY <1>2
<1>4. \A k \in DOMAIN messages : MessageOK(messages[k], platform)
  BY <1>1, MessagesAssumption, Zenon
<1>5. PlatformOK(platform)
  BY <1>1, MessagesAssumption, Zenon
<1> QED
  BY <1>3, <1>4, <1>5

LEMMA InputTyped ==
    ASSUME InputOK
    PROVE  /\ PlatformOK(platform)
           /\ Len(messages) \in Nat /\ DOMAIN messages = 1 .. Len(messages)
           /\ \A k \in 1 .. Len(messages) : MessageOK(messages[k], platform)
<1>1. KernelOK
  BY DEF InputOK, KernelOK
<1> QED
  BY <1>1, KernelTyped, Zenon

\* Messages follow on each other from the beginning of the buffer, and what is
\* read where one begins is that message.
StartsOK ==
    /\ Start(1) = 0
    /\ \A k \in 1 .. Len(messages) + 1 : Start(k) \in Nat /\ Start(k) <= Start(Len(messages) + 1)
    /\ \A k \in 1 .. Len(messages) :
          /\ Msglen(messages[k]) \in Nat
          /\ platform.sizeofMsghdr <= Msglen(messages[k])
          /\ Start(k + 1) = Start(k) + Msglen(messages[k])
          /\ MessageAt(Start(k)) = messages[k]

LEMMA KernelStarts ==
    ASSUME KernelOK
    PROVE  StartsOK
<1> DEFINE N == Len(messages)
           f == [j \in DOMAIN messages |-> Msglen(messages[j])]
<1>1. N \in Nat /\ DOMAIN messages = 1 .. N /\ platform \in Platform
  BY KernelTyped DEF KernelOK
<1>2. \A k \in 1 .. N : MessageOK(messages[k], platform)
  BY KernelTyped
<1>3. platform.sizeofMsghdr \in {4, 6}
  BY KernelTyped DEF PlatformOK
<1>4. \A k \in 1 .. N : /\ Msglen(messages[k]) \in Nat
                        /\ platform.sizeofMsghdr <= Msglen(messages[k])
  <2> TAKE k \in 1 .. N
  <2> PICK m : m = messages[k]
    OBVIOUS
  <2>1. Laid(m) /\ MessageOK(m, platform)
    BY <1>1, <1>2, Layout
  <2>2. platform.header[m.type] >= platform.sizeofMsghdr
    BY <2>1 DEF MessageOK
  <2> QED
    BY <1>3, <2>1, <2>2 DEF Laid
<1>5. \A k : Start(k) = SumOver(f, 1 .. k - 1)
  BY DEF Start
<1>6. \A k \in 1 .. N : f[k] = Msglen(messages[k]) /\ f[k] \in Nat
  BY <1>1, <1>4
<1> HIDE DEF f, N
<1>7. IsFiniteSet(1 .. N)
  BY <1>1, FS_Interval
<1>8. \A k \in 1 .. N + 1 : Start(k) \in Nat /\ Start(k) <= Start(N + 1)
  <2> TAKE k \in 1 .. N + 1
  <2>1. 1 .. k - 1 \in SUBSET (1 .. N) /\ (N + 1) - 1 = N
    BY <1>1
  <2>2. /\ SumOver(f, 1 .. k - 1) \in Nat
        /\ SumOver(f, 1 .. k - 1) <= SumOver(f, 1 .. N)
    BY <1>6, <1>7, <2>1, SumBounds
  <2> QED
    BY <1>5, <2>1, <2>2
<1>9. \A k \in 1 .. N : Start(k + 1) = Start(k) + Msglen(messages[k])
  <2> TAKE k \in 1 .. N
  <2>1. /\ 1 .. (k + 1) - 1 = (1 .. k - 1) \cup {k}
        /\ k \notin 1 .. k - 1
        /\ 1 .. k - 1 \in SUBSET (1 .. N)
    BY <1>1
  <2>2. IsFiniteSet(1 .. k - 1) /\ \A y \in (1 .. k - 1) \cup {k} : f[y] \in Int
    <3>1. IsFiniteSet(1 .. k - 1)
      BY <1>7, <2>1, FS_Subset
    <3>2. \A y \in (1 .. k - 1) \cup {k} : y \in 1 .. N
      BY <2>1
    <3>3. \A y \in 1 .. N : f[y] \in Int
      BY <1>6
    <3> QED
      BY <3>1, <3>2, <3>3, Zenon
  <2>3. /\ SumOver(f, (1 .. k - 1) \cup {k}) = f[k] + SumOver(f, 1 .. k - 1)
        /\ SumOver(f, 1 .. k - 1) \in Int
    BY <2>1, <2>2, SumAdd
  <2>4. Start(k + 1) = SumOver(f, (1 .. k - 1) \cup {k}) /\ Start(k) = SumOver(f, 1 .. k - 1)
    BY <1>5, <2>1
  <2> QED
    BY <1>6, <2>3, <2>4
<1>10. Start(1) = 0
  <2>1. 1 .. 1 - 1 = {}
    OBVIOUS
  <2> QED
    BY <1>5, <2>1, SumEmpty
<1>11. ASSUME NEW j \in 1 .. N, NEW k \in 1 .. N, j < k
       PROVE  Start(j) < Start(k)
  <2>1. (1 .. (j + 1) - 1) \in SUBSET (1 .. k - 1) /\ (1 .. k - 1) \in SUBSET (1 .. N)
    BY <1>1, <1>11
  <2>2. IsFiniteSet(1 .. k - 1) /\ \A y \in 1 .. k - 1 : f[y] \in Nat
    BY <1>6, <1>7, <2>1, FS_Subset
  <2>3. SumOver(f, 1 .. (j + 1) - 1) <= SumOver(f, 1 .. k - 1)
    BY <2>1, <2>2, SumBounds
  <2>4. Start(j + 1) <= Start(k)
    BY <1>5, <2>3
  <2>5. /\ Start(j + 1) = Start(j) + Msglen(messages[j])
        /\ Msglen(messages[j]) \in Nat /\ Msglen(messages[j]) >= 4
        /\ Start(j) \in Nat /\ Start(k) \in Nat
    <3>1. j \in 1 .. N + 1 /\ k \in 1 .. N + 1
      BY <1>1
    <3>2. Msglen(messages[j]) \in Nat /\ Msglen(messages[j]) >= 4
      BY <1>3, <1>4
    <3> QED
      BY <1>8, <1>9, <3>1, <3>2, Zenon
  <2> QED
    BY <2>4, <2>5
<1>12. \A k \in 1 .. N : MessageAt(Start(k)) = messages[k]
  <2> TAKE k \in 1 .. N
  <2>1. ASSUME NEW j \in 1 .. N, Start(j) = Start(k)
        PROVE  j = k
    <3>1. ~(j < k) /\ ~(k < j)
      BY <1>1, <1>8, <1>11, <2>1
    <3> QED
      BY <1>1, <3>1
  <2>2. (CHOOSE j \in DOMAIN messages : Start(j) = Start(k)) = k
    BY <1>1, <2>1
  <2> QED
    BY <2>2 DEF MessageAt
<1> QED
  BY <1>4, <1>8, <1>9, <1>10, <1>12 DEF StartsOK, N

LEMMA Starts ==
    ASSUME InputOK
    PROVE  StartsOK
<1>1. KernelOK
  BY DEF InputOK, KernelOK
<1> QED
  BY <1>1, KernelStarts

\* The input stays as it is, and all that is said of it alone.
LEMMA InputFrame ==
    ASSUME InputOK, UNCHANGED input
    PROVE  /\ InputOK'
           /\ \A k : Start(k)' = Start(k)
           /\ \A k : Reached(k)' = Reached(k)
           /\ \A k : Due(k)' = Due(k)
           /\ Entries' = Entries
           /\ \A k : Entry(messages[k])' = Entry(messages[k])
<1>1. platform' = platform /\ filter' = filter /\ messages' = messages /\ size' = size
  BY DEF input
<1>2. \A k : Start(k)' = Start(k)
  BY <1>1 DEF Start, Msglen, AddrOffset
<1>3. \A m : Msglen(m)' = Msglen(m)
  BY <1>1 DEF Msglen, AddrOffset
<1>4. \A k : Reached(k)' = Reached(k)
  BY <1>1, <1>2, <1>3 DEF Reached
<1>5. \A k : Told(k)' = Told(k)
  BY <1>1 DEF Told
<1>6. \A m : Entry(m)' = Entry(m)
  BY <1>1 DEF Entry, Attrs, Shown
<1> QED
  BY <1>1, <1>2, <1>4, <1>5, <1>6 DEF InputOK, Due, Entries, Written

-----------------------------------------------------------------------------
(* The filter.                                                             *)

\* How the messages of a dump of interfaces follow on each other.
LEMMA DumpOrder ==
    ASSUME InputOK, NEW k \in 1 .. Len(messages)
    PROVE  \/ Len(messages) = 1 /\ k = 1
           \/ messages[k].type = "route"
           \/ /\ messages[k].type = "interface"
              /\ \A j \in 1 .. k - 1 : messages[j].index # messages[k].index
           \/ /\ messages[k].type = "address"
              /\ k > 1 /\ k - 1 \in 1 .. Len(messages)
              /\ messages[k - 1].index = messages[k].index
              /\ messages[k - 1].type \in {"interface", "address"}
<1>1. Len(messages) \in Nat /\ DOMAIN messages = 1 .. Len(messages) /\ Written(messages)
  BY InputTyped DEF InputOK
<1>2. CASE Len(messages) = 1
  BY <1>2
<1>3. CASE \A i \in DOMAIN messages : messages[i].type = "route"
  BY <1>1, <1>3
<1>4. CASE \A i \in DOMAIN messages :
              \/ /\ messages[i].type = "interface"
                 /\ \A j \in 1 .. i - 1 : messages[j].index # messages[i].index
              \/ /\ messages[i].type = "address"
                 /\ i > 1 /\ messages[i - 1].index = messages[i].index
  <2>1. k > 1 => k - 1 \in DOMAIN messages
    BY <1>1
  <2>2. \A i \in DOMAIN messages : messages[i].type \in {"interface", "address"}
    BY <1>4
  <2>3. k \in DOMAIN messages
    BY <1>1
  <2> QED
    BY <1>1, <1>4, <2>1, <2>2, <2>3
<1> QED
  BY <1>1, <1>2, <1>3, <1>4 DEF Written

LEMMA IndexPositive ==
    ASSUME InputOK, NEW k \in 1 .. Len(messages)
    PROVE  messages[k].index # 0
  BY InputTyped DEF MessageOK

LEMMA UsableInterface ==
    ASSUME NEW m
    PROVE  InterfaceLeftOut(m) <=> ~Usable(m)
  BY DEF InterfaceLeftOut, Usable

\* What the filter remembers, after one message more.
LEMMA FilterMoves ==
    ASSUME InputOK, NEW k \in 1 .. Len(messages), NEW x, Remembers(x, k), NEW y,
           y = IF messages[k].type = "interface" /\ ~InterfaceLeftOut(messages[k])
               THEN messages[k].index ELSE x
    PROVE  Remembers(y, k + 1)
<1>1. Len(messages) \in Nat
  BY InputTyped
<1>2. (k + 1) - 1 = k /\ k + 1 > 1 /\ k \in 1 .. k /\ \A j \in 1 .. k : j \in 1 .. k - 1 \/ j = k
  BY <1>1
<1>3. \A j \in 1 .. k - 1 : j \in 1 .. k
  BY <1>1
<1>4. \/ x = 0
      \/ \E j \in 1 .. k - 1 : messages[j].type = "interface" /\ messages[j].index = x
  BY DEF Remembers
<1>5. \/ y = 0
      \/ \E j \in 1 .. k : messages[j].type = "interface" /\ messages[j].index = y
  BY <1>2, <1>3, <1>4
<1>6. ASSUME messages[k].type \in {"interface", "address"}
      PROVE  y = messages[k].index <=> UsableUpTo(k)
  <2>1. messages[k].index # 0
    BY IndexPositive
  <2>2. CASE messages[k].type = "interface" /\ Usable(messages[k])
    <3>1. y = messages[k].index
      BY <2>2, UsableInterface
    <3> QED
      BY <1>2, <2>2, <3>1 DEF UsableUpTo
  <2>3. CASE messages[k].type = "interface" /\ ~Usable(messages[k])
    <3>1. y = x
      BY <2>3, UsableInterface
    <3>2. \A j \in 1 .. k - 1 : messages[j].index # messages[k].index
      <4>1. messages[k].type # "route" /\ messages[k].type # "address"
        BY <2>3
      <4>2. k = 1 => 1 .. k - 1 = {}
        OBVIOUS
      <4> QED
        BY <4>1, <4>2, DumpOrder, Zenon
    <3>3. x # messages[k].index
      BY <1>4, <2>1, <3>2
    <3>4. ~UsableUpTo(k)
      BY <1>2, <2>3, <3>2 DEF UsableUpTo
    <3> QED
      BY <3>1, <3>3, <3>4
  <2>4. CASE messages[k].type = "address"
    <3>1. y = x
      BY <2>4
    <3>2. CASE k = 1
      <4>1. x = 0
        BY <1>4, <3>2
      <4>2. ~UsableUpTo(k)
        BY <1>2, <2>4, <3>2 DEF UsableUpTo
      <4> QED
        BY <2>1, <3>1, <4>1, <4>2
    <3>3. CASE k # 1
      <4>1. /\ k > 1
            /\ messages[k - 1].index = messages[k].index
            /\ messages[k - 1].type \in {"interface", "address"}
        BY <2>4, <3>3, DumpOrder
      <4>2. x = messages[k - 1].index <=> UsableUpTo(k - 1)
        BY <4>1, Zenon DEF Remembers
      <4>3. UsableUpTo(k - 1) <=> UsableUpTo(k)
        BY <1>2, <1>3, <2>4, <4>1 DEF UsableUpTo
      <4> QED
        BY <3>1, <4>1, <4>2, <4>3
    <3> QED
      BY <3>2, <3>3
  <2> QED
    BY <1>6, <2>2, <2>3, <2>4
<1> QED
  BY <1>2, <1>5, <1>6 DEF Remembers

\* The filter, going by the interface that it remembers, leaves out what the log
\* ought not to tell.
LEMMA FilterTells ==
    ASSUME InputOK, filter, NEW k \in 1 .. Len(messages), Remembers(ifindex, k),
           messages[k].type \in Type
    PROVE  LeftOut(messages[k]) <=> ~Told(k)
<1> DEFINE m == messages[k]
<1>1. filter = TRUE
  BY DEF InputOK
<1>2. CASE m.type = "route"
  <2>1. LeftOut(m) <=> RouteLeftOut(m)
    BY <1>1, <1>2 DEF LeftOut
  <2>2. Told(k) <=> {"up", "gateway"} \subseteq m.flags /\ "host" \notin m.flags
    BY <1>1, <1>2 DEF Told, Type
  <2> QED
    BY <2>1, <2>2 DEF RouteLeftOut
<1>3. CASE m.type = "interface"
  <2>1. LeftOut(m) <=> InterfaceLeftOut(m)
    BY <1>1, <1>3 DEF LeftOut
  <2>2. Told(k) <=> Usable(m)
    BY <1>1, <1>3 DEF Told, Type
  <2> QED
    BY <2>1, <2>2, UsableInterface
<1>4. CASE m.type = "address"
  <2>1. LeftOut(m) <=> m.index # ifindex
    BY <1>1, <1>4 DEF LeftOut, AddressLeftOut
  <2>2. Told(k) <=> \E j \in 1 .. k - 1 : /\ messages[j].type = "interface"
                                          /\ messages[j].index = m.index
                                          /\ Usable(messages[j])
    BY <1>1, <1>4 DEF Told, Type
  <2>3. CASE k = 1
    <3>1. 1 .. k - 1 = {}
      BY <2>3
    <3>2. ifindex = 0
      BY <3>1 DEF Remembers
    <3> QED
      BY <2>1, <2>2, <3>1, <3>2, IndexPositive
  <2>4. CASE k # 1
    <3>1. k > 1 /\ messages[k - 1].index = m.index
          /\ messages[k - 1].type \in {"interface", "address"}
      BY <1>4, <2>4, DumpOrder
    <3>2. ifindex = messages[k - 1].index <=> UsableUpTo(k - 1)
      BY <3>1, Zenon DEF Remembers
    <3>3. UsableUpTo(k - 1) <=> Told(k)
      BY <2>2, <3>1 DEF UsableUpTo
    <3> QED
      BY <2>1, <3>1, <3>2, <3>3
  <2> QED
    BY <2>3, <2>4
<1> QED
  BY <1>2, <1>3, <1>4 DEF Type

-----------------------------------------------------------------------------
(* The log.                                                                *)

LEMMA NothingTold ==
    ASSUME InputOK
    PROVE  Tells(<<>>, 1)
<1> DEFINE e == [i \in {} |-> 0]
<1>1. Len(<<>>) = 0 /\ <<>> \in Seq(Entries) /\ 1 .. 0 = {}
  OBVIOUS
<1>2. DueBefore(e, 0, 1)
  BY <1>1 DEF DueBefore
<1> QED
  BY <1>1, <1>2 DEF Tells

\* Past a message that is not due.
LEMMA TellsPast ==
    ASSUME InputOK, NEW k \in 1 .. Len(messages), NEW l, Tells(l, k), ~Due(k)
    PROVE  Tells(l, k + 1)
<1>1. PICK e : DueBefore(e, Len(l), k) /\ \A n \in 1 .. Len(l) : l[n] = Entry(messages[e[n]])
  BY Zenon DEF Tells
<1>2. l \in Seq(Entries) /\ Len(l) <= k - 1 /\ Len(l) \in Nat
  BY DEF Tells
<1>3. Len(messages) \in Nat
  BY InputTyped
<1>4. /\ (k + 1) - 1 = k /\ Len(l) <= k
      /\ \A j \in 1 .. k : j \in 1 .. k - 1 \/ j = k
      /\ \A j \in 1 .. k - 1 : j \in 1 .. k /\ j # k
  BY <1>2, <1>3
<1>5. DueBefore(e, Len(l), k + 1)
  <2>1. e \in [1 .. Len(l) -> 1 .. k]
    BY <1>1, <1>4 DEF DueBefore
  <2>2. \A j \in 1 .. k : Due(j) <=> \E i \in 1 .. Len(l) : e[i] = j
    <3> TAKE j \in 1 .. k
    <3>1. CASE j \in 1 .. k - 1
      BY <1>1, <3>1, Zenon DEF DueBefore
    <3>2. CASE j = k
      <4>1. \A i \in 1 .. Len(l) : e[i] \in 1 .. k - 1
        BY <1>1 DEF DueBefore
      <4> QED
        BY <1>4, <3>2, <4>1
    <3> QED
      BY <1>4, <3>1, <3>2
  <2> QED
    BY <1>1, <1>4, <2>1, <2>2 DEF DueBefore
<1> QED
  BY <1>1, <1>2, <1>4, <1>5, Zenon DEF Tells

\* One that is due.
LEMMA TellsMore ==
    ASSUME InputOK, NEW k \in 1 .. Len(messages), NEW l, Tells(l, k), Due(k)
    PROVE  Tells(Append(l, Entry(messages[k])), k + 1)
<1>1. PICK e : DueBefore(e, Len(l), k) /\ \A n \in 1 .. Len(l) : l[n] = Entry(messages[e[n]])
  BY Zenon DEF Tells
<1>2. l \in Seq(Entries) /\ Len(l) <= k - 1 /\ Len(l) \in Nat
  BY DEF Tells
<1>3. Len(messages) \in Nat /\ Entry(messages[k]) \in Entries
  BY InputTyped DEF Entries
<1> DEFINE q == Append(l, Entry(messages[k]))
           N == Len(l)
           d == [i \in 1 .. N + 1 |-> IF i = N + 1 THEN k ELSE e[i]]
<1>4. /\ q \in Seq(Entries) /\ Len(q) = N + 1
      /\ q[N + 1] = Entry(messages[k])
      /\ \A i \in 1 .. N : q[i] = l[i]
  BY <1>2, <1>3
<1> HIDE DEF q, N
<1>5. /\ N \in Nat /\ (k + 1) - 1 = k /\ N + 1 <= k
      /\ \A i \in 1 .. N + 1 : i \in 1 .. N \/ i = N + 1
      /\ \A i \in 1 .. N : i \in 1 .. N + 1 /\ i # N + 1
      /\ N + 1 \in 1 .. N + 1
      /\ \A j \in 1 .. k : j \in 1 .. k - 1 \/ j = k
      /\ \A j \in 1 .. k - 1 : j \in 1 .. k
  BY <1>2, <1>3 DEF N
<1>6. d[N + 1] = k /\ \A i \in 1 .. N : d[i] = e[i] /\ d[i] \in 1 .. k - 1
  BY <1>1, <1>5 DEF DueBefore, N
<1>7. DueBefore(d, N + 1, k + 1)
  <2>1. d \in [1 .. N + 1 -> 1 .. k]
    <3>1. \A i \in 1 .. N + 1 : d[i] \in 1 .. k
      <4> HIDE DEF d
      <4> TAKE i \in 1 .. N + 1
      <4>1. CASE i = N + 1
        BY <1>6, <4>1
      <4>2. CASE i \in 1 .. N
        BY <1>6, <4>2
      <4> QED
        BY <1>5, <4>1, <4>2
    <3>2. d = [i \in 1 .. N + 1 |-> d[i]]
      OBVIOUS
    <3> HIDE DEF d
    <3> QED
      BY <3>1, <3>2
  <2> HIDE DEF d
  <2>2. ASSUME NEW i \in 1 .. N + 1, NEW j \in 1 .. N + 1, i < j
        PROVE  d[i] < d[j]
    <3>1. i \in 1 .. N
      BY <1>5, <2>2
    <3>2. CASE j \in 1 .. N
      <4>1. e[i] < e[j]
        BY <1>1, <2>2, <3>1, <3>2 DEF DueBefore, N
      <4> QED
        BY <1>6, <3>1, <3>2, <4>1
    <3>3. CASE j = N + 1
      BY <1>6, <3>1, <3>3
    <3> QED
      BY <1>5, <3>2, <3>3
  <2>3. ASSUME NEW j \in 1 .. k
        PROVE  Due(j) <=> \E i \in 1 .. N + 1 : d[i] = j
    <3>1. CASE j = k
      <4>1. N + 1 \in 1 .. N + 1 /\ d[N + 1] = j
        BY <1>5, <1>6, <3>1
      <4> QED
        BY <3>1, <4>1, Zenon
    <3>2. CASE j \in 1 .. k - 1
      <4>1. Due(j) <=> \E i \in 1 .. N : e[i] = j
        BY <1>1, <3>2, Zenon DEF DueBefore, N
      <4>2. j # k
        BY <3>2
      <4> QED
        BY <1>5, <1>6, <4>1, <4>2
    <3> QED
      BY <1>5, <3>1, <3>2
  <2> QED
    BY <1>5, <2>1, <2>2, <2>3 DEF DueBefore
<1>8. \A n \in 1 .. N + 1 : q[n] = Entry(messages[d[n]])
  <2> HIDE DEF d
  <2>1. \A n \in 1 .. N : q[n] = Entry(messages[e[n]])
    BY <1>1, <1>4 DEF N
  <2> QED
    BY <1>4, <1>5, <1>6, <2>1
<1> HIDE DEF d
<1>9. Tells(q, k + 1)
  BY <1>4, <1>5, <1>7, <1>8 DEF Tells
<1> QED
  BY <1>9 DEF q

\* The same of the next state, whose input is the same.
LEMMA TellsNext ==
    ASSUME InputOK, UNCHANGED input, NEW k, Tells(logged', k)
    PROVE  Tells(logged, k)'
<1>1. messages' = messages
  BY DEF input
<1>2. PICK e : /\ DueBefore(e, Len(logged'), k)
               /\ \A n \in 1 .. Len(logged') : logged'[n] = Entry(messages[e[n]])
  BY Zenon DEF Tells
<1>3. DueBefore(e, Len(logged), k)'
  BY <1>2, InputFrame DEF DueBefore
<1>4. \A n \in 1 .. Len(logged') : logged'[n] = Entry(messages[e[n]])'
  BY <1>2, InputFrame
<1>5. Entries' = Entries
  BY InputFrame
<1> QED
  BY <1>3, <1>4, <1>5 DEF Tells

-----------------------------------------------------------------------------
(* The steps.                                                              *)

\* What a step has to establish of the loop that comes to message k.
LEMMA Moves ==
    ASSUME InputOK, UNCHANGED input, NEW k \in 1 .. Len(messages) + 1,
           at' = Start(k), at' <= size, platform.current => Reached(k - 1),
           pc' \in {"message", "address", "done"}, Tells(logged', k),
           filter /\ platform.current =>
               Remembers(ifindex', IF pc' = "address" THEN k + 1 ELSE k),
           pc' = "address" => /\ k <= Len(messages) /\ messages[k].type \in Type /\ Due(k)
                              /\ InAddrs(messages[k])',
           pc' = "done" => \A j \in k .. Len(messages) : ~Due(j),
           addrsAt' \in 0 .. size, \A i \in DOMAIN dst' : dst'[i] \in 0 .. size
    PROVE  IInv'
<1>1. platform' = platform /\ filter' = filter /\ messages' = messages /\ size' = size
  BY DEF input
<1>2. InputOK' /\ Tells(logged, k)'
  BY InputFrame, TellsNext
<1>3. Behind(k)'
  BY <1>1, InputFrame DEF Behind
<1>4. (filter /\ platform.current =>
          Remembers(ifindex, IF pc = "address" THEN k + 1 ELSE k))'
  BY <1>1 DEF Remembers, UsableUpTo, Usable
<1>5. (pc = "address" => InMessage(k))'
  BY <1>1, InputFrame DEF InMessage
<1>6. (pc = "done" => \A j \in k .. Len(messages) : ~Due(j))'
  BY <1>1, InputFrame
<1>7. Place(k)'
  BY <1>2, <1>3, <1>4, <1>5, <1>6 DEF Place
<1>8. TypeOK'
  <2>1. Start(k) \in Nat /\ size \in Nat
    BY Starts DEF StartsOK, InputOK
  <2>2. at' \in 0 .. size
    BY <2>1
  <2>3. Len(logged') <= Len(messages)
    BY InputTyped DEF Tells
  <2> QED
    BY <1>1, <2>1, <2>2, <2>3 DEF TypeOK, InputOK
<1>9. k \in 1 .. Len(messages)' + 1
  BY <1>1
<1> QED
  BY <1>2, <1>7, <1>8, <1>9 DEF IInv

\* A message at the front of the buffer is message k.
LEMMA AtFront ==
    ASSUME InputOK, NEW k \in 1 .. Len(messages) + 1, Behind(k),
           NEW m, MsgAtFront(m)
    PROVE  /\ k \in 1 .. Len(messages) /\ m = messages[k]
           /\ at = Start(k) /\ MessageOK(m, platform)
           /\ Msglen(m) \in Nat /\ platform.sizeofMsghdr <= Msglen(m)
           /\ Start(k + 1) = at + Msglen(m)
<1>1. /\ Len(messages) \in Nat
      /\ platform.sizeofMsghdr \in {4, 6}
      /\ size \in Nat /\ size <= Start(Len(messages) + 1)
  BY InputTyped DEF InputOK, PlatformOK
<1>2. at = Start(k) /\ size - at >= platform.sizeofMsghdr /\ m = MessageAt(at)
  BY DEF Behind, MsgAtFront
<1>3. StartsOK
  BY Starts
<1>4. k # Len(messages) + 1
  <2>1. Start(k) \in Nat
    BY <1>3 DEF StartsOK
  <2> QED
    BY <1>1, <1>2, <2>1
<1>5. k \in 1 .. Len(messages)
  BY <1>1, <1>4
<1>6. m = messages[k]
  BY <1>2, <1>3, <1>5 DEF StartsOK
<1> QED
  BY <1>2, <1>3, <1>5, <1>6, InputTyped DEF StartsOK

\* The loop comes to message k, or it does not come to any from k on.
LEMMA Reaching ==
    ASSUME InputOK, NEW k \in 1 .. Len(messages), platform.current => Reached(k - 1)
    PROVE  /\ Reached(k) <=> /\ Start(k + 1) <= size
                             /\ platform.current
                             /\ messages[k].type \in Type
                                   => Msglen(messages[k]) >= platform.sizeof[messages[k].type]
           /\ ~Reached(k) => \A j \in k .. Len(messages) : ~Due(j)
<1>1. Len(messages) \in Nat
  BY InputTyped
<1>2. /\ k \in 1 .. k
      /\ \A j \in 1 .. k : j \in 1 .. k - 1 \/ j = k
      /\ \A j \in k .. Len(messages) : \A i \in 1 .. k : i \in 1 .. j
  BY <1>1
<1>3. Reached(k) <=> /\ Start(k + 1) <= size
                     /\ platform.current
                     /\ messages[k].type \in Type
                           => Msglen(messages[k]) >= platform.sizeof[messages[k].type]
  BY <1>2 DEF Reached
<1>4. \A j \in k .. Len(messages) : Reached(j) => Reached(k)
  BY <1>2 DEF Reached
<1> QED
  BY <1>3, <1>4 DEF Due

\* What the lemmas on the steps assume.
At(k) == TypeOK /\ InputOK /\ k \in 1 .. Len(messages) + 1 /\ Place(k)

LEMMA EndOfBufferStep ==
    ASSUME NEW k, At(k), EndOfBuffer
    PROVE  IInv'
<1>1. /\ TypeOK /\ InputOK /\ k \in 1 .. Len(messages) + 1
      /\ Behind(k) /\ Tells(logged, k)
      /\ pc = "message" /\ (filter /\ platform.current => Remembers(ifindex, k))
  BY DEF At, Place, EndOfBuffer
<1>2. /\ UNCHANGED <<input, at, ifindex, addrsAt, dst, logged>> /\ pc' = "done"
      /\ size - at < platform.sizeofMsghdr
  BY DEF EndOfBuffer, Return, parseVars
<1>3. \A j \in k .. Len(messages) : ~Due(j)
  <2>1. SUFFICES ASSUME k <= Len(messages)
                 PROVE  ~Reached(k)
    <3>1. \/ k <= Len(messages)
          \/ k .. Len(messages) = {}
      BY <1>1, InputTyped
    <3>2. k <= Len(messages) => k \in 1 .. Len(messages)
      BY <1>1, InputTyped
    <3> QED
      BY <1>1, <3>1, <3>2, <2>1, Reaching DEF Behind
  <2>2. k \in 1 .. Len(messages)
    BY <1>1, <2>1, InputTyped
  <2>3. /\ Start(k) \in Nat
        /\ Msglen(messages[k]) \in Nat /\ platform.sizeofMsghdr <= Msglen(messages[k])
        /\ Start(k + 1) = Start(k) + Msglen(messages[k])
    BY <1>1, <2>2, Starts DEF StartsOK
  <2>4. platform.sizeofMsghdr \in {4, 6} /\ size \in Nat /\ at = Start(k)
    BY <1>1, InputTyped DEF PlatformOK, InputOK, Behind
  <2>5. ~(Start(k + 1) <= size)
    BY <1>2, <2>3, <2>4
  <2> QED
    BY <1>1, <2>2, <2>5, Reaching DEF Behind
<1>4. /\ at' = Start(k) /\ at' <= size
      /\ platform.current => Reached(k - 1)
      /\ Tells(logged', k)
      /\ filter /\ platform.current => Remembers(ifindex', k)
      /\ addrsAt' \in 0 .. size /\ \A i \in DOMAIN dst' : dst'[i] \in 0 .. size
  BY <1>1, <1>2 DEF Behind, TypeOK
<1>5. UNCHANGED input /\ pc' = "done"
  BY <1>2
<1> QED
  BY <1>1, <1>3, <1>4, <1>5, Moves

\* What is known when a message is at the front.
FrontAt(k, m) ==
    /\ k \in 1 .. Len(messages) /\ m = messages[k]
    /\ Behind(k) /\ Tells(logged, k)
    /\ filter /\ platform.current => Remembers(ifindex, k)
    /\ at = Start(k) /\ at \in 0 .. size
    /\ Msglen(m) \in Nat /\ platform.sizeofMsghdr <= Msglen(m)
    /\ platform.sizeofMsghdr \in {4, 6}
    /\ platform.header[m.type] \in Nat /\ platform.header[m.type] <= Msglen(m)
    /\ Start(k + 1) = at + Msglen(m)
    /\ addrsAt \in 0 .. size /\ \A i \in DOMAIN dst : dst[i] \in 0 .. size

LEMMA FrontMessage ==
    ASSUME NEW k, At(k), NEW m, MsgAtFront(m)
    PROVE  FrontAt(k, m)
<1>1. /\ TypeOK /\ InputOK /\ k \in 1 .. Len(messages) + 1
      /\ Behind(k) /\ Tells(logged, k)
      /\ pc = "message" /\ (filter /\ platform.current => Remembers(ifindex, k))
  BY DEF At, Place, MsgAtFront
<1>2. /\ k \in 1 .. Len(messages) /\ m = messages[k]
      /\ at = Start(k) /\ MessageOK(m, platform)
      /\ Msglen(m) \in Nat /\ platform.sizeofMsghdr <= Msglen(m)
      /\ Start(k + 1) = at + Msglen(m)
  BY <1>1, AtFront
<1>3. platform.sizeofMsghdr \in {4, 6} /\ platform \in Platform
  BY <1>1, InputTyped DEF PlatformOK, InputOK
<1>4. platform.header[m.type] \in Nat /\ platform.header[m.type] <= Msglen(m)
  BY <1>2, <1>3, Layout DEF Laid
<1> QED
  BY <1>1, <1>2, <1>3, <1>4 DEF FrontAt, TypeOK

\* A message that the loop refuses has not been reached, and every other one that
\* is of the platform's version has.
LEMMA Refusing ==
    ASSUME InputOK, NEW k, NEW m, FrontAt(k, m)
    PROVE  /\ Refused(m) => ~Reached(k)
           /\ Refused(m) => \A j \in k .. Len(messages) : ~Due(j)
           /\ ~BadLength(m) => Start(k + 1) <= size
           /\ ~Refused(m) /\ platform.current => Reached(k)
<1>1. /\ k \in 1 .. Len(messages) /\ m = messages[k]
      /\ platform.current => Reached(k - 1)
      /\ at \in 0 .. size
      /\ Msglen(m) \in Nat /\ platform.sizeofMsghdr <= Msglen(m)
      /\ platform.sizeofMsghdr \in {4, 6}
      /\ Start(k + 1) = at + Msglen(m)
  BY DEF FrontAt, Behind
<1>2. size \in Nat
  BY DEF InputOK
<1>3. BadLength(m) <=> ~(Start(k + 1) <= size)
  BY <1>1, <1>2 DEF BadLength
<1>4. m.type \in Type => platform.sizeof[m.type] \in Nat
  BY InputTyped DEF PlatformOK
<1>5. m.type \in Type => (TooShort(m) <=> ~(Msglen(m) >= platform.sizeof[m.type]))
  BY <1>1, <1>4 DEF TooShort
<1>6. AddrsBufOk(m)
  BY DEF AddrsBufOk, AddrsBuf, FrontAt
<1>7. Reached(k) <=> /\ Start(k + 1) <= size
                     /\ platform.current
                     /\ m.type \in Type => Msglen(m) >= platform.sizeof[m.type]
  BY <1>1, Reaching
<1>8. Refused(m) => ~Reached(k)
  BY <1>3, <1>5, <1>6, <1>7 DEF Refused
<1>9. ~Refused(m) /\ platform.current => Reached(k)
  BY <1>3, <1>5, <1>7 DEF Refused
<1> QED
  BY <1>1, <1>3, <1>8, <1>9, Reaching

LEMMA InvalidMessageStep ==
    ASSUME NEW k, At(k), NEW m, InvalidMessage(m)
    PROVE  IInv'
<1>1. FrontAt(k, m) /\ InputOK /\ Refused(m) /\ k \in 1 .. Len(messages) + 1
  <2>1. MsgAtFront(m) /\ Refused(m)
    BY DEF InvalidMessage
  <2>2. InputOK /\ k \in 1 .. Len(messages) + 1
    BY DEF At
  <2> QED
    BY <2>1, <2>2, FrontMessage
<1>2. /\ UNCHANGED input /\ UNCHANGED <<at, ifindex, addrsAt, dst, logged>> /\ pc' = "done"
  BY DEF InvalidMessage, Return, parseVars
<1>3. \A j \in k .. Len(messages) : ~Due(j)
  BY <1>1, Refusing
<1>4. /\ at' = Start(k) /\ at' <= size
      /\ platform.current => Reached(k - 1)
      /\ Tells(logged', k)
      /\ filter /\ platform.current => Remembers(ifindex', k)
      /\ addrsAt' \in 0 .. size /\ \A i \in DOMAIN dst' : dst'[i] \in 0 .. size
  BY <1>1, <1>2 DEF FrontAt, Behind
<1> QED
  BY <1>1, <1>2, <1>3, <1>4, Moves

\* Past a message, whether the log tells of it or not.
LEMMA Onward ==
    ASSUME NEW k, InputOK, NEW m, FrontAt(k, m), ~BadLength(m), UNCHANGED input,
           platform.current => Reached(k),
           at' = at + Msglen(m), pc' = "message", Tells(logged', k + 1),
           filter /\ platform.current => Remembers(ifindex', k + 1),
           UNCHANGED parseVars
    PROVE  IInv'
<1>1. /\ k \in 1 .. Len(messages) /\ Len(messages) \in Nat
      /\ Start(k + 1) = at + Msglen(m)
      /\ addrsAt \in 0 .. size /\ \A i \in DOMAIN dst : dst[i] \in 0 .. size
  BY InputTyped DEF FrontAt
<1>2. k + 1 \in 1 .. Len(messages) + 1 /\ (k + 1) - 1 = k
  BY <1>1
<1>3. Start(k + 1) <= size
  BY Refusing
<1>4. /\ at' = Start(k + 1) /\ at' <= size
      /\ platform.current => Reached((k + 1) - 1)
      /\ addrsAt' \in 0 .. size /\ \A i \in DOMAIN dst' : dst'[i] \in 0 .. size
  BY <1>1, <1>2, <1>3 DEF parseVars
<1> DEFINE n == k + 1
<1> HIDE DEF n
<1>5. /\ n \in 1 .. Len(messages) + 1
      /\ at' = Start(n) /\ at' <= size /\ (platform.current => Reached(n - 1))
      /\ addrsAt' \in 0 .. size /\ (\A i \in DOMAIN dst' : dst'[i] \in 0 .. size)
      /\ Tells(logged', n)
      /\ filter /\ platform.current => Remembers(ifindex', n)
  BY <1>2, <1>4 DEF n
<1>6. /\ filter /\ platform.current => Remembers(ifindex', IF pc' = "address" THEN n + 1 ELSE n)
      /\ pc' \in {"message", "address", "done"}
      /\ pc' = "address" => /\ n <= Len(messages) /\ messages[n].type \in Type /\ Due(n)
                            /\ InAddrs(messages[n])'
      /\ pc' = "done" => \A j \in n .. Len(messages) : ~Due(j)
  BY <1>5
<1> QED
  BY <1>5, <1>6, Moves

LEMMA OtherVersionStep ==
    ASSUME NEW k, At(k), NEW m, OtherVersion(m)
    PROVE  IInv'
<1>1. /\ MsgAtFront(m) /\ ~BadLength(m) /\ ~platform.current
      /\ at' = at + Msglen(m) /\ UNCHANGED input
      /\ pc' = "message" /\ ifindex' = ifindex /\ logged' = logged /\ UNCHANGED parseVars
  BY DEF OtherVersion, Skip, MsgAtFront
<1>2. FrontAt(k, m) /\ InputOK
  BY <1>1, FrontMessage DEF At
<1>3. k \in 1 .. Len(messages) /\ Tells(logged, k)
  BY <1>2 DEF FrontAt
<1>4. ~Due(k)
  <2>1. k \in 1 .. k
    BY <1>2, <1>3, InputTyped
  <2> QED
    BY <1>1, <2>1 DEF Due, Reached
<1>5. Tells(logged', k + 1)
  BY <1>1, <1>2, <1>3, <1>4, TellsPast
<1> QED
  BY <1>1, <1>2, <1>5, Onward

LEMMA FilteredStep ==
    ASSUME NEW k, At(k), NEW m, Filtered(m)
    PROVE  IInv'
<1>1. /\ MsgAtFront(m) /\ ~Refused(m) /\ platform.current /\ m.type \in Type /\ LeftOut(m)
      /\ at' = at + Msglen(m) /\ UNCHANGED input
      /\ pc' = "message" /\ ifindex' = ifindex /\ logged' = logged /\ UNCHANGED parseVars
  BY DEF Filtered, Skip, MsgAtFront
<1>2. FrontAt(k, m) /\ InputOK /\ ~BadLength(m)
  BY <1>1, FrontMessage DEF At, Refused
<1>3. filter
  BY <1>1 DEF LeftOut
<1>4. /\ k \in 1 .. Len(messages) /\ m = messages[k]
      /\ Tells(logged, k) /\ Remembers(ifindex, k)
  BY <1>1, <1>2, <1>3 DEF FrontAt
<1>5. ~Due(k)
  <2>1. ~Told(k)
    BY <1>1, <1>2, <1>3, <1>4, FilterTells
  <2> QED
    BY <2>1 DEF Due
<1>6. Tells(logged', k + 1)
  BY <1>1, <1>2, <1>4, <1>5, TellsPast
<1>7. Remembers(ifindex', k + 1)
  <2>1. m.type = "interface" => InterfaceLeftOut(m)
    BY <1>1 DEF LeftOut
  <2>2. ifindex' = IF messages[k].type = "interface" /\ ~InterfaceLeftOut(messages[k])
                   THEN messages[k].index ELSE ifindex
    BY <1>1, <1>4, <2>1
  <2> QED
    BY <1>2, <1>4, <2>2, FilterMoves
<1>8. Reached(k)
  BY <1>1, <1>2, Refusing
<1> QED
  BY <1>1, <1>2, <1>6, <1>7, <1>8, Onward

LEMMA UnknownTypeStep ==
    ASSUME NEW k, At(k), NEW m, UnknownType(m)
    PROVE  IInv'
<1>1. /\ MsgAtFront(m) /\ ~Refused(m) /\ platform.current /\ m.type \notin Type
      /\ at' = at + Msglen(m) /\ UNCHANGED input
      /\ pc' = "message" /\ ifindex' = ifindex /\ UNCHANGED parseVars
      /\ logged' = Append(logged, [type |-> m.type, index |-> m.index, attrs |-> <<>>])
  BY DEF UnknownType, MsgAtFront
<1>2. FrontAt(k, m) /\ InputOK /\ ~BadLength(m)
  BY <1>1, FrontMessage DEF At, Refused
<1>3. /\ k \in 1 .. Len(messages) /\ m = messages[k] /\ Tells(logged, k)
      /\ filter /\ platform.current => Remembers(ifindex, k)
  BY <1>2 DEF FrontAt
<1>4. Reached(k) /\ Due(k)
  BY <1>1, <1>2, <1>3, Refusing DEF Due, Told
<1>5. Entry(messages[k]) = [type |-> m.type, index |-> m.index, attrs |-> <<>>]
  BY <1>1, <1>3 DEF Entry
<1>6. Tells(logged', k + 1)
  BY <1>1, <1>2, <1>3, <1>4, <1>5, TellsMore
<1>7. ASSUME filter
      PROVE  Remembers(ifindex', k + 1)
  <2>1. ifindex' = IF messages[k].type = "interface" /\ ~InterfaceLeftOut(messages[k])
                   THEN messages[k].index ELSE ifindex
    BY <1>1, <1>3 DEF Type
  <2> QED
    BY <1>1, <1>2, <1>3, <1>7, <2>1, FilterMoves
<1> QED
  BY <1>1, <1>2, <1>4, <1>6, <1>7, Onward

\* ParseAddrs goes on in the message it is in.
LEMMA InAddrsNext ==
    ASSUME UNCHANGED input, at' = at, NEW k, NEW m, m = messages[k],
           bits' \subseteq DOMAIN m.addrs,
           \A i \in bits', j \in DOMAIN m.addrs : j > i => j \in bits',
           addrsAt' \in at .. at + Msglen(m),
           bits' # {} => addrsAt' = at + AddrOffset(m, Min(bits')),
           DOMAIN dst' \subseteq DOMAIN m.addrs \ bits',
           \A i \in DOMAIN dst' : /\ dst'[i] = at + AddrOffset(m, i)
                                  /\ dst'[i] + SizeofSockaddrInet4 <= at + Msglen(m),
           \A i \in DOMAIN m.addrs \ bits' :
               i \notin DOMAIN dst' => m.addrs[i].len < SizeofSockaddrInet4
    PROVE  InAddrs(messages[k])'
<1>1. platform' = platform /\ messages' = messages
  BY DEF input
<1>2. Msglen(messages[k])' = Msglen(m)
  BY <1>1 DEF Msglen, AddrOffset
<1>3. \A i : AddrOffset(messages[k], i)' = AddrOffset(m, i)
  BY <1>1 DEF AddrOffset
<1>4. AddrOffset(messages[k], Min(bits))' = AddrOffset(m, Min(bits'))
  BY <1>1 DEF AddrOffset
<1> QED
  BY <1>1, <1>2, <1>3, <1>4 DEF InAddrs

LEMMA BeginAddrsStep ==
    ASSUME NEW k, At(k), NEW m, BeginAddrs(m)
    PROVE  IInv'
<1>1. /\ MsgAtFront(m) /\ ~Refused(m) /\ platform.current /\ m.type \in Type /\ ~LeftOut(m)
      /\ ifindex' = (IF m.type = "interface" THEN m.index ELSE ifindex)
      /\ bits' = DOMAIN m.addrs /\ addrsAt' = at + AddrsBuf(m) /\ dst' = <<>>
      /\ pc' = "address" /\ UNCHANGED input /\ at' = at /\ logged' = logged
  BY DEF BeginAddrs
<1>2. FrontAt(k, m) /\ InputOK /\ ~BadLength(m)
  BY <1>1, FrontMessage DEF At, Refused
<1>3. /\ k \in 1 .. Len(messages) /\ m = messages[k] /\ Tells(logged, k)
      /\ filter /\ platform.current => Remembers(ifindex, k)
      /\ platform.current => Reached(k - 1)
      /\ at = Start(k) /\ at \in 0 .. size
      /\ Msglen(m) \in Nat
      /\ platform.header[m.type] \in Nat /\ platform.header[m.type] <= Msglen(m)
      /\ Start(k + 1) = at + Msglen(m)
  BY <1>2 DEF FrontAt, Behind
<1>4. Due(k)
  <2>1. Reached(k)
    BY <1>1, <1>2, Refusing
  <2>2. CASE filter
    <3>1. Told(k)
      BY <1>1, <1>2, <1>3, <2>2, FilterTells
    <3> QED
      BY <2>1, <3>1 DEF Due
  <2>3. CASE ~filter
    BY <2>1, <2>3 DEF Due, Told
  <2> QED
    BY <2>2, <2>3
<1>5. ASSUME filter
      PROVE  Remembers(ifindex', k + 1)
  <2>1. m.type = "interface" => ~InterfaceLeftOut(m)
    BY <1>1, <1>5 DEF LeftOut
  <2>2. ifindex' = IF messages[k].type = "interface" /\ ~InterfaceLeftOut(messages[k])
                   THEN messages[k].index ELSE ifindex
    BY <1>1, <1>3, <2>1
  <2> QED
    BY <1>1, <1>2, <1>3, <1>5, <2>2, FilterMoves
<1>6. AddrsBuf(m) = platform.header[m.type]
  BY <1>1, <1>2, InputTyped DEF AddrsBuf, PlatformOK
<1>7. addrsAt' \in at .. at + Msglen(m) /\ addrsAt' \in 0 .. size
  <2>1. at + Msglen(m) <= size /\ size \in Nat
    BY <1>2, <1>3, Refusing DEF InputOK
  <2>2. PICK h : h = platform.header[m.type]
    OBVIOUS
  <2>3. PICK l : l = Msglen(m)
    OBVIOUS
  <2>4. /\ h \in Nat /\ l \in Nat /\ h <= l /\ at \in Nat
        /\ at + l <= size /\ addrsAt' = at + h
    BY <1>1, <1>3, <1>6, <2>1, <2>2, <2>3
  <2>5. at + h \in at .. at + l /\ at + h \in 0 .. size
    BY <2>1, <2>4
  <2> QED
    BY <2>3, <2>4, <2>5
<1>8. InAddrs(messages[k])'
  <2>1. MessageOK(m, platform) /\ Laid(m)
    BY <1>2, <1>3, InputTyped, Layout DEF InputOK
  <2>2. bits' # {} => addrsAt' = at + AddrOffset(m, Min(bits'))
    <3>1. SUFFICES ASSUME DOMAIN m.addrs # {}
                   PROVE  AddrOffset(m, Min(DOMAIN m.addrs)) = platform.header[m.type]
      BY <1>1, <1>6
    <3>2. /\ Min(DOMAIN m.addrs) \in DOMAIN m.addrs
          /\ \A j \in DOMAIN m.addrs : Min(DOMAIN m.addrs) <= j
      BY <2>1, <3>1, MinIsLeast DEF MessageOK
    <3> QED
      BY <2>1, <3>2, Zenon DEF Laid
  <2>3. DOMAIN dst' = {} /\ DOMAIN m.addrs \ bits' = {}
    BY <1>1
  <2> QED
    BY <1>1, <1>3, <1>7, <2>2, <2>3, InAddrsNext
<1>9. /\ k \in 1 .. Len(messages) + 1 /\ k <= Len(messages)
      /\ at' = Start(k) /\ at' <= size
      /\ pc' \in {"message", "address", "done"} /\ pc' # "done" /\ Tells(logged', k)
      /\ filter /\ platform.current =>
             Remembers(ifindex', IF pc' = "address" THEN k + 1 ELSE k)
      /\ messages[k].type \in Type
      /\ \A i \in DOMAIN dst' : dst'[i] \in 0 .. size
  BY <1>1, <1>2, <1>3, <1>5, InputTyped
<1> QED
  BY <1>1, <1>2, <1>3, <1>4, <1>7, <1>8, <1>9, Moves

\* What is known when ParseAddrs is in message k.
InsideAt(k, m) ==
    /\ k \in 1 .. Len(messages) /\ m = messages[k]
    /\ at = Start(k) /\ at \in 0 .. size /\ (platform.current => Reached(k - 1))
    /\ Tells(logged, k) /\ Due(k)
    /\ filter /\ platform.current => Remembers(ifindex, k + 1)
    /\ m.type \in Type
    /\ MessageOK(m, platform) /\ Laid(m) /\ InAddrs(m)
    /\ Msglen(m) \in Nat
    /\ Start(k + 1) = at + Msglen(m)
    /\ at + Msglen(m) <= size
    /\ addrsAt \in 0 .. size /\ \A i \in DOMAIN dst : dst[i] \in 0 .. size

LEMMA Inside ==
    ASSUME NEW k, At(k), pc = "address", NEW m, m = MessageAt(at)
    PROVE  InsideAt(k, m)
<1>1. /\ TypeOK /\ InputOK /\ k \in 1 .. Len(messages) + 1 /\ Len(messages) \in Nat
      /\ Behind(k) /\ Tells(logged, k)
      /\ filter /\ platform.current => Remembers(ifindex, k + 1)
      /\ InMessage(k)
  BY InputTyped DEF At, Place
<1>2. k \in 1 .. Len(messages) /\ at = Start(k) /\ (platform.current => Reached(k - 1))
  BY <1>1 DEF InMessage, Behind
<1>3. /\ Msglen(messages[k]) \in Nat
      /\ Start(k + 1) = Start(k) + Msglen(messages[k])
      /\ MessageAt(Start(k)) = messages[k]
  BY <1>1, <1>2, Starts DEF StartsOK
<1>4. m = messages[k]
  BY <1>2, <1>3
<1>5. MessageOK(m, platform) /\ Laid(m)
  BY <1>1, <1>2, <1>4, InputTyped, Layout DEF InputOK
<1>6. Start(k + 1) <= size
  <2>1. Reached(k) /\ k \in 1 .. k
    BY <1>1, <1>2 DEF InMessage, Due
  <2> QED
    BY <2>1 DEF Reached
<1> QED
  BY <1>1, <1>2, <1>3, <1>4, <1>5, <1>6 DEF InsideAt, InMessage, TypeOK

LEMMA ParseAddrStep ==
    ASSUME NEW k, At(k), NEW m, ParseAddr(m)
    PROVE  IInv'
<1> DEFINE D == DOMAIN m.addrs
<1>1. /\ pc = "address" /\ bits # {} /\ m = MessageAt(at)
      /\ UNCHANGED input /\ pc' = pc /\ at' = at /\ ifindex' = ifindex /\ logged' = logged
  BY DEF ParseAddr
<1>2. InsideAt(k, m) /\ InputOK
  BY <1>1, Inside DEF At
<1>3. /\ k \in 1 .. Len(messages) /\ m = messages[k]
      /\ at = Start(k) /\ at \in 0 .. size /\ size \in Nat
      /\ Msglen(m) \in Nat /\ at + Msglen(m) <= size
      /\ MessageOK(m, platform) /\ platform \in Platform
  BY <1>2 DEF InsideAt, InputOK
<1>4. Laid(m)
  BY <1>2 DEF InsideAt
<1>5. /\ bits \subseteq D
      /\ \A i \in bits, j \in D : j > i => j \in bits
      /\ DOMAIN dst \subseteq D \ bits
      /\ \A i \in DOMAIN dst : /\ dst[i] = at + AddrOffset(m, i)
                               /\ dst[i] + SizeofSockaddrInet4 <= at + Msglen(m)
      /\ \A i \in D \ bits :
             i \notin DOMAIN dst => m.addrs[i].len < SizeofSockaddrInet4
      /\ bits # {} => addrsAt = at + AddrOffset(m, Min(bits))
  BY <1>2 DEF InsideAt, InAddrs
<1>6. D \subseteq Nat
  BY <1>3 DEF MessageOK
<1> HIDE DEF D
<1>7. PICK i : i = Min(bits)
  OBVIOUS
<1>8. /\ i \in bits /\ i \in D /\ i \in Nat
      /\ \A j \in bits : i <= j
      /\ addrsAt = at + AddrOffset(m, i)
  <2>1. bits \in SUBSET Nat
    BY <1>5, <1>6
  <2> QED
    BY <1>1, <1>5, <1>6, <1>7, <2>1, MinIsLeast
<1>9. PICK r : r = Room(m, i)
  OBVIOUS
<1>10. /\ r \in Nat /\ 4 <= r /\ m.addrs[i].len \in Nat /\ m.addrs[i].len <= r
       /\ RtaAlign(platform.rtaAlignTo, m.addrs[i].len) = r
  BY <1>3, <1>8, <1>9, Rooms DEF D
<1>11. PICK o : o = AddrOffset(m, i)
  OBVIOUS
<1>12. o \in Nat /\ o + r <= Msglen(m)
  BY <1>4, <1>8, <1>9, <1>11 DEF Laid, D
<1>13. RtaAlign(platform.rtaAlignTo, SockaddrIn(m, addrsAt - at).len) = r
  <2>1. addrsAt - at = o
    BY <1>3, <1>8, <1>11, <1>12
  <2>2. SockaddrIn(m, o) = m.addrs[i]
    BY <1>3, <1>8, <1>11, ReadsAddress DEF D
  <2> QED
    BY <1>10, <2>1, <2>2
<1>14. PICK left : left = at + Msglen(m) - addrsAt
  OBVIOUS
<1>15. addrsAt = at + o /\ left = Msglen(m) - o /\ left \in Nat /\ r <= left
  <2>1. addrsAt = at + o
    BY <1>8, <1>11
  <2>2. /\ Msglen(m) \in Nat /\ at \in Nat /\ o \in Nat /\ r \in Nat
        /\ o + r <= Msglen(m)
    BY <1>3, <1>10, <1>12
  <2> QED
    BY <1>14, <2>1, <2>2
<1>16. /\ dst' = IF left >= SizeofSockaddrInet4
                 THEN [j \in {i} \cup DOMAIN dst |-> IF j = i THEN addrsAt ELSE dst[j]]
                 ELSE dst
       /\ bits' = bits \ {i} /\ addrsAt' = addrsAt + r
  <2>1. ~(left = 0 \/ left < r)
    BY <1>10, <1>15
  <2>2. ParseAddr(m)
    OBVIOUS
  <2> QED
    BY <1>7, <1>13, <1>14, <2>1, <2>2 DEF ParseAddr
<1>17. /\ bits' \subseteq D
       /\ \A x \in bits', j \in D : j > x => j \in bits'
  <2>1. ASSUME NEW x \in bits', NEW j \in D, j > x
        PROVE  j \in bits'
    <3>1. j \in bits /\ i <= x /\ x \in Nat /\ j \in Nat
      BY <1>5, <1>6, <1>8, <1>16, <2>1
    <3>2. j # i
      BY <1>8, <2>1, <3>1
    <3> QED
      BY <1>16, <3>1, <3>2
  <2> QED
    BY <1>5, <1>16, <2>1
<1>18. addrsAt' \in at .. at + Msglen(m) /\ addrsAt' \in 0 .. size
  <2>1. addrsAt' = at + o + r
    BY <1>15, <1>16
  <2>2. /\ Msglen(m) \in Nat /\ at \in Nat /\ o \in Nat /\ r \in Nat /\ size \in Nat
        /\ o + r <= Msglen(m) /\ at + Msglen(m) <= size
    BY <1>3, <1>10, <1>12
  <2> QED
    BY <2>1, <2>2
<1>19. ASSUME bits' # {}
       PROVE  addrsAt' = at + AddrOffset(m, Min(bits'))
  <2>1. bits' \in SUBSET Nat
    BY <1>6, <1>17
  <2>2. PICK x : x = Min(bits')
    OBVIOUS
  <2>3. x \in bits' /\ \A j \in bits' : x <= j
    BY <1>19, <2>1, <2>2, MinIsLeast
  <2>4. x \in D /\ i < x
    BY <1>6, <1>8, <1>16, <1>17, <2>1, <2>3
  <2>5. \A l \in D : l <= i \/ x <= l
    <3> TAKE l \in D
    <3>1. l \in Nat
      BY <1>6
    <3>2. l > i => l \in bits
      BY <1>5, <1>8
    <3>3. l > i => l \in bits'
      BY <1>8, <1>16, <3>1, <3>2
    <3> QED
      BY <1>8, <2>3, <3>1, <3>3
  <2>6. AddrOffset(m, x) = AddrOffset(m, i) + Room(m, i)
    BY <1>4, <1>8, <2>4, <2>5, Zenon DEF Laid, D
  <2> QED
    BY <1>3, <1>8, <1>9, <1>10, <1>11, <1>12, <1>16, <2>2, <2>6
<1>20. /\ DOMAIN dst' \subseteq D \ bits'
       /\ \A j \in DOMAIN dst' : /\ dst'[j] = at + AddrOffset(m, j)
                                 /\ dst'[j] + SizeofSockaddrInet4 <= at + Msglen(m)
       /\ \A j \in D \ bits' :
              j \notin DOMAIN dst' => m.addrs[j].len < SizeofSockaddrInet4
  <2>1. \A j \in D \ bits' : j \in D \ bits \/ j = i
    BY <1>16
  <2>2. i \notin DOMAIN dst
    BY <1>5, <1>8
  <2>3. CASE left >= SizeofSockaddrInet4
    <3>1. /\ DOMAIN dst' = {i} \cup DOMAIN dst
          /\ dst'[i] = addrsAt /\ \A j \in DOMAIN dst : dst'[j] = dst[j]
      BY <1>16, <2>2, <2>3
    <3>2. addrsAt + SizeofSockaddrInet4 <= at + Msglen(m)
      <4>1. PICK l : l = Msglen(m)
        OBVIOUS
      <4>2. /\ l \in Nat /\ o \in Nat /\ at \in Nat
            /\ addrsAt = at + o /\ left = l - o /\ left >= 16
        BY <1>3, <1>12, <1>15, <2>3, <4>1 DEF SizeofSockaddrInet4
      <4>3. at + o + 16 <= at + l
        BY <4>2
      <4> QED
        BY <4>1, <4>2, <4>3 DEF SizeofSockaddrInet4
    <3> QED
      BY <1>5, <1>8, <1>16, <2>1, <3>1, <3>2
  <2>4. CASE ~(left >= SizeofSockaddrInet4)
    <3>1. dst' = dst
      BY <1>16, <2>4
    <3>2. m.addrs[i].len < SizeofSockaddrInet4
      BY <1>10, <1>15, <2>4 DEF SizeofSockaddrInet4
    <3> QED
      BY <1>5, <1>8, <1>16, <2>1, <3>1, <3>2
  <2> QED
    BY <2>3, <2>4
<1>21. InAddrs(messages[k])'
  BY <1>1, <1>3, <1>17, <1>18, <1>19, <1>20, InAddrsNext DEF D
<1>22. \A j \in DOMAIN dst' : dst'[j] \in 0 .. size
  <2> TAKE j \in DOMAIN dst'
  <2>1. j \in D
    BY <1>20
  <2>2. AddrOffset(m, j) \in Nat /\ AddrOffset(m, j) + Room(m, j) <= Msglen(m)
    BY <1>4, <2>1 DEF Laid, D
  <2>3. Room(m, j) \in Nat
    BY <1>3, <2>1, Rooms DEF D
  <2>4. dst'[j] = at + AddrOffset(m, j)
    BY <1>20
  <2> QED
    BY <1>3, <2>2, <2>3, <2>4
<1>23. /\ k \in 1 .. Len(messages) + 1 /\ k <= Len(messages)
       /\ at' = Start(k) /\ at' <= size /\ (platform.current => Reached(k - 1))
       /\ pc' \in {"message", "address", "done"} /\ pc' # "done" /\ Tells(logged', k)
       /\ filter /\ platform.current =>
              Remembers(ifindex', IF pc' = "address" THEN k + 1 ELSE k)
       /\ messages[k].type \in Type /\ Due(k)
  BY <1>1, <1>2, <1>3, InputTyped DEF InsideAt
<1> QED
  BY <1>1, <1>2, <1>18, <1>21, <1>22, <1>23, Moves

\* ParseAddrs has found every address that is long enough to be shown.
LEMMA AllFound ==
    ASSUME NEW k, InsideAt(k, messages[k]), InputOK, bits = {}
    PROVE  Attrs(messages[k], [i \in DOMAIN dst |-> SockaddrIn(messages[k], dst[i] - at)])
               = Attrs(messages[k], messages[k].addrs)
<1> DEFINE m == messages[k]
           found == [i \in DOMAIN dst |-> SockaddrIn(m, dst[i] - at)]
           zeros(i) == i \in {RTAX_DST, RTAX_NETMASK} /\ m.type = "route" /\ filter
           Some == {i \in DOMAIN found : i <= RTAX_IFA /\ Shown(found[i], zeros(i))}
           All == {i \in DOMAIN m.addrs : i <= RTAX_IFA /\ Shown(m.addrs[i], zeros(i))}
<1>1. /\ at \in 0 .. size /\ platform \in Platform
      /\ MessageOK(m, platform) /\ Laid(m)
  BY DEF InsideAt, InputOK
<1>2. /\ DOMAIN dst \subseteq DOMAIN m.addrs
      /\ \A i \in DOMAIN dst : dst[i] = at + AddrOffset(m, i)
      /\ \A i \in DOMAIN m.addrs :
             i \notin DOMAIN dst => m.addrs[i].len < SizeofSockaddrInet4
  BY DEF InsideAt, InAddrs
<1> HIDE DEF m
<1>3. ASSUME NEW i \in DOMAIN dst
      PROVE  i \in DOMAIN m.addrs /\ found[i] = m.addrs[i]
  <2>1. i \in DOMAIN m.addrs
    BY <1>2
  <2>2. PICK o : o = AddrOffset(m, i)
    OBVIOUS
  <2>3. o \in Nat
    BY <1>1, <2>1, <2>2 DEF Laid
  <2>4. dst[i] - at = o
    BY <1>1, <1>2, <2>2, <2>3
  <2>5. SockaddrIn(m, o) = m.addrs[i]
    BY <1>1, <2>1, <2>2, ReadsAddress
  <2> QED
    BY <2>1, <2>4, <2>5
<1>4. DOMAIN found = DOMAIN dst
  OBVIOUS
<1> HIDE DEF found
<1>5. ASSUME NEW i \in DOMAIN m.addrs, i \notin DOMAIN dst, NEW z
      PROVE  ~Shown(m.addrs[i], z)
  <2>1. m.addrs[i].len \in Nat /\ m.addrs[i].len < SizeofSockaddrInet4
    BY <1>1, <1>2, <1>5, Rooms
  <2>2. /\ platform.sizeofSockaddrDatalink \in Nat
        /\ platform.sizeofSockaddrDatalink >= SizeofSockaddrInet4
    BY <1>1, MessagesAssumption DEF PlatformOK
  <2> QED
    BY <2>1, <2>2 DEF Shown, SizeofSockaddrInet4, SizeofSockaddrInet6
<1>6. Some = All
  BY <1>3, <1>4, <1>5, Zenon
<1>7. \A i \in Some : found[i] = m.addrs[i]
  BY <1>3, <1>4
<1>8. Attrs(m, found) = [i \in Some |-> found[i]] /\ Attrs(m, m.addrs) = [i \in All |-> m.addrs[i]]
  BY DEF Attrs
<1> HIDE DEF Some, All
<1>9. Attrs(m, found) = Attrs(m, m.addrs)
  BY <1>6, <1>7, <1>8
<1> QED
  BY <1>9 DEF m, found

LEMMA LogMessageStep ==
    ASSUME NEW k, At(k), NEW m, LogMessage(m)
    PROVE  IInv'
<1>1. /\ pc = "address" /\ bits = {} /\ m = MessageAt(at)
      /\ UNCHANGED input /\ UNCHANGED parseVars
      /\ pc' = "message" /\ at' = at + Msglen(m) /\ ifindex' = ifindex
      /\ logged' = Append(logged,
                          [type |-> m.type, index |-> m.index,
                           attrs |-> Attrs(m, [i \in DOMAIN dst |-> SockaddrIn(m, dst[i] - at)])])
  BY DEF LogMessage
<1>2. InsideAt(k, m) /\ InputOK
  BY <1>1, Inside DEF At
<1>3. /\ k \in 1 .. Len(messages) /\ m = messages[k] /\ m.type \in Type
      /\ Tells(logged, k) /\ Due(k) /\ Reached(k)
      /\ filter /\ platform.current => Remembers(ifindex, k + 1)
      /\ Msglen(m) \in Nat /\ at + Msglen(m) <= size /\ at \in 0 .. size
      /\ Start(k + 1) = at + Msglen(m)
      /\ addrsAt \in 0 .. size /\ \A i \in DOMAIN dst : dst[i] \in 0 .. size
  BY <1>2 DEF InsideAt, Due
<1>4. Attrs(m, [i \in DOMAIN dst |-> SockaddrIn(m, dst[i] - at)]) = Attrs(m, m.addrs)
  BY <1>1, <1>2, <1>3, AllFound
<1>5. Entry(messages[k])
          = [type |-> m.type, index |-> m.index, attrs |-> Attrs(m, m.addrs)]
  BY <1>3 DEF Entry
<1>6. logged' = Append(logged, Entry(messages[k]))
  BY <1>1, <1>4, <1>5
<1>7. Tells(logged', k + 1)
  BY <1>2, <1>3, <1>6, TellsMore
<1> DEFINE n == k + 1
<1>8. /\ n \in 1 .. Len(messages) + 1 /\ n - 1 = k
  BY <1>2, <1>3, InputTyped
<1> HIDE DEF n
<1>9. /\ at' = Start(n) /\ at' <= size /\ (platform.current => Reached(n - 1))
      /\ Tells(logged', n) /\ UNCHANGED input
      /\ filter /\ platform.current => Remembers(ifindex', n)
      /\ addrsAt' \in 0 .. size /\ (\A i \in DOMAIN dst' : dst'[i] \in 0 .. size)
  BY <1>1, <1>3, <1>7, <1>8 DEF n, parseVars
<1>10. /\ filter /\ platform.current => Remembers(ifindex', IF pc' = "address" THEN n + 1 ELSE n)
       /\ pc' \in {"message", "address", "done"}
       /\ pc' = "address" => /\ n <= Len(messages) /\ messages[n].type \in Type /\ Due(n)
                             /\ InAddrs(messages[n])'
       /\ pc' = "done" => \A j \in n .. Len(messages) : ~Due(j)
  BY <1>1, <1>9
<1> QED
  BY <1>2, <1>8, <1>9, <1>10, Moves

-----------------------------------------------------------------------------
(* The invariant holds.                                                    *)

LEMMA InitInv ==
    ASSUME Init
    PROVE  IInv
<1>1. /\ KernelOK /\ pc = "message" /\ at = 0 /\ ifindex = 0
      /\ bits = {} /\ addrsAt = 0 /\ dst = <<>> /\ logged = <<>>
  BY DEF Init, KernelOK
<1>2. Len(messages) \in Nat /\ StartsOK
  BY <1>1, KernelTyped, KernelStarts
<1> DEFINE total == Start(Len(messages) + 1)
<1>3. total \in Nat /\ Start(1) = 0
  BY <1>2 DEF StartsOK
<1>4. size = total \/ size = Min({ReadBufSize, total})
  BY DEF Init
<1> HIDE DEF total
<1>5. size \in Nat /\ size <= total
  <2>1. ReadBufSize \in Nat
    BY MessagesAssumption
  <2>2. PICK x : x = Min({ReadBufSize, total})
    OBVIOUS
  <2>3. x \in {ReadBufSize, total} /\ x <= total
    <3>1. {ReadBufSize, total} \in SUBSET Nat /\ total \in {ReadBufSize, total}
      BY <1>3, <2>1
    <3> QED
      BY <2>2, <3>1, MinIsLeast
  <2> QED
    BY <1>3, <1>4, <2>1, <2>2, <2>3
<1>6. InputOK
  BY <1>1, <1>5 DEF InputOK, KernelOK, total
<1>7. TypeOK
  BY <1>1, <1>2, <1>5, <1>6 DEF TypeOK, InputOK
<1>8. Place(1)
  <2>1. 1 \in 1 .. Len(messages) + 1
    BY <1>2
  <2>2. Behind(1)
    <3>1. 1 .. 1 - 1 = {} /\ 0 <= size
      BY <1>5
    <3> QED
      BY <1>1, <1>3, <2>1, <3>1 DEF Behind, Reached
  <2>3. Remembers(ifindex, 1)
    BY <1>1 DEF Remembers
  <2> QED
    BY <1>1, <1>6, <2>2, <2>3, NothingTold DEF Place
<1> QED
  BY <1>2, <1>6, <1>7, <1>8 DEF IInv

LEMMA NextInv ==
    ASSUME IInv, [Next]_vars
    PROVE  IInv'
<1>1. PICK k : At(k)
  BY DEF IInv, At
<1>2. CASE EndOfBuffer
  BY <1>1, <1>2, EndOfBufferStep
<1>3. ASSUME NEW m, \/ InvalidMessage(m) \/ OtherVersion(m) \/ Filtered(m) \/ UnknownType(m)
                    \/ BeginAddrs(m) \/ ParseAddr(m) \/ LogMessage(m)
      PROVE  IInv'
  <2>1. CASE InvalidMessage(m)
    BY <1>1, <2>1, InvalidMessageStep
  <2>2. CASE OtherVersion(m)
    BY <1>1, <2>2, OtherVersionStep
  <2>3. CASE Filtered(m)
    BY <1>1, <2>3, FilteredStep
  <2>4. CASE UnknownType(m)
    BY <1>1, <2>4, UnknownTypeStep
  <2>5. CASE BeginAddrs(m)
    BY <1>1, <2>5, BeginAddrsStep
  <2>6. CASE ParseAddr(m)
    BY <1>1, <2>6, ParseAddrStep
  <2>7. CASE LogMessage(m)
    BY <1>1, <2>7, LogMessageStep
  <2> QED
    BY <1>3, <2>1, <2>2, <2>3, <2>4, <2>5, <2>6, <2>7
<1>4. CASE UNCHANGED vars
  <2>1. /\ UNCHANGED input /\ pc' = pc /\ at' = at /\ ifindex' = ifindex
        /\ bits' = bits /\ addrsAt' = addrsAt /\ dst' = dst /\ logged' = logged
    BY <1>4 DEF vars, parseVars
  <2>2. platform' = platform /\ filter' = filter /\ messages' = messages /\ size' = size
    BY <2>1 DEF input
  <2>3. TypeOK /\ InputOK /\ k \in 1 .. Len(messages) + 1 /\ Place(k)
    BY <1>1 DEF At
  <2>4. pc = "address" => InAddrs(messages[k])'
    BY <2>1, <2>2, <2>3 DEF Place, InMessage, InAddrs, Msglen, AddrOffset
  <2>5. /\ at' = Start(k) /\ at' <= size /\ (platform.current => Reached(k - 1))
        /\ pc' \in {"message", "address", "done"} /\ Tells(logged', k)
        /\ filter /\ platform.current =>
               Remembers(ifindex', IF pc' = "address" THEN k + 1 ELSE k)
        /\ pc' = "address" => k <= Len(messages) /\ messages[k].type \in Type /\ Due(k)
        /\ pc' = "done" => \A j \in k .. Len(messages) : ~Due(j)
        /\ addrsAt' \in 0 .. size /\ (\A i \in DOMAIN dst' : dst'[i] \in 0 .. size)
    BY <2>1, <2>3 DEF TypeOK, Place, Behind, InMessage
  <2> QED
    BY <2>1, <2>3, <2>4, <2>5, Moves
<1> QED
  BY <1>2, <1>3, <1>4 DEF Next

-----------------------------------------------------------------------------
(* The theorems.                                                           *)

Increasing(e, n) == \A i, j \in 1 .. n : i < j => e[i] < e[j]

\* Numbers are put in increasing order in one way only.
LEMMA OneOrder ==
    ASSUME NEW n \in Nat, NEW S \in SUBSET Nat,
           NEW c \in [1 .. n -> S], Increasing(c, n),
           NEW e \in [1 .. n -> S], Increasing(e, n), \A x \in S : \E i \in 1 .. n : e[i] = x
    PROVE  c = e
<1>1. \A i \in 1 .. n : c[i] \in S /\ c[i] \in Nat /\ e[i] \in S /\ e[i] \in Nat
  OBVIOUS
<1>2. \A i, j \in 1 .. n : e[i] < e[j] => i < j
  <2> SUFFICES ASSUME NEW i \in 1 .. n, NEW j \in 1 .. n, e[i] < e[j], ~(i < j)
               PROVE  FALSE
    OBVIOUS
  <2>1. e[i] \in Nat /\ e[j] \in Nat
    BY <1>1
  <2>2. CASE i = j
    BY <2>1, <2>2
  <2>3. CASE j < i
    <3>1. e[j] < e[i]
      BY <2>3 DEF Increasing
    <3> QED
      BY <2>1, <3>1
  <2> QED
    BY <2>2, <2>3
<1>3. \A i \in 1 .. n : ~(c[i] < e[i])
  <2> DEFINE T == {i \in 1 .. n : c[i] < e[i]}
  <2>1. SUFFICES ASSUME T # {} PROVE FALSE
    OBVIOUS
  <2>2. PICK i \in T : \A l \in T : i <= l
    <3>1. T \in SUBSET Nat
      OBVIOUS
    <3> HIDE DEF T
    <3> QED
      BY <2>1, <3>1, LeastNatural
  <2>3. PICK j \in 1 .. n : e[j] = c[i]
    BY <1>1
  <2>4. j < i /\ c[j] < c[i]
    BY <1>2, <2>3 DEF Increasing
  <2>5. j \in T
    BY <2>3, <2>4
  <2> QED
    BY <2>2, <2>4, <2>5
<1>4. \A i \in 1 .. n : ~(e[i] < c[i])
  <2> DEFINE T == {i \in 1 .. n : e[i] < c[i]}
  <2>1. SUFFICES ASSUME T # {} PROVE FALSE
    OBVIOUS
  <2>2. PICK i \in T : \A l \in T : i >= l
    <3>1. IsFiniteSet(T)
      BY FS_Interval, FS_Subset
    <3>2. \A l \in T : l \in Int
      OBVIOUS
    <3> HIDE DEF T
    <3> QED
      BY <2>1, <3>1, <3>2, MaxIsGreatest
  <2>3. PICK j \in 1 .. n : e[j] = c[i]
    BY <1>1
  <2>4. i < j /\ c[i] < c[j]
    BY <1>2, <2>3 DEF Increasing
  <2>5. j \in T
    BY <2>3, <2>4
  <2> QED
    BY <2>2, <2>4, <2>5
<1>5. \A i \in 1 .. n : c[i] = e[i]
  BY <1>1, <1>3, <1>4
<1> QED
  BY <1>5

LEMMA OrderIs ==
    ASSUME NEW n \in Nat, NEW S \in SUBSET Nat,
           NEW e \in [1 .. n -> S], Increasing(e, n), \A x \in S : \E i \in 1 .. n : e[i] = x
    PROVE  InOrder(S) = e
<1>1. Cardinality(S) = n
  <2>1. \A i, j \in 1 .. n : e[i] = e[j] => i = j
    <3> TAKE i, j \in 1 .. n
    <3>1. e[i] \in Nat /\ e[j] \in Nat
      OBVIOUS
    <3>2. (i < j => e[i] < e[j]) /\ (j < i => e[j] < e[i])
      BY DEF Increasing
    <3> QED
      BY <3>1, <3>2
  <2>2. e \in Bijection(1 .. n, S)
    BY <2>1 DEF Bijection, Injection, Surjection, IsInjective
  <2>3. ExistsBijection(1 .. n, S)
    BY <2>2 DEF ExistsBijection
  <2> QED
    BY <2>3, FS_CountingElements
<1>2. PICK N : N = Cardinality(S)
  OBVIOUS
<1>3. InOrder(S) = CHOOSE c \in [1 .. N -> S] : Increasing(c, N)
  BY <1>2 DEF InOrder, Increasing
<1>4. N = n
  BY <1>1, <1>2
<1> DEFINE c == CHOOSE c \in [1 .. n -> S] : Increasing(c, n)
<1>5. c \in [1 .. n -> S] /\ Increasing(c, n)
  OBVIOUS
<1>6. InOrder(S) = c
  BY <1>3, <1>4
<1> HIDE DEF c
<1> QED
  BY <1>5, <1>6, OneOrder

\* What a log that has told of all messages says is what is expected of it.
LEMMA TellsAll ==
    ASSUME InputOK, NEW l, Tells(l, Len(messages) + 1)
    PROVE  Expected = l
<1> DEFINE N == Len(messages)
           n == Len(l)
           D == {k \in DOMAIN messages : Reached(k) /\ Told(k)}
<1>1. N \in Nat /\ DOMAIN messages = 1 .. N /\ (N + 1) - 1 = N
  BY InputTyped
<1>2. PICK e : DueBefore(e, n, N + 1) /\ \A i \in 1 .. n : l[i] = Entry(messages[e[i]])
  BY Zenon DEF Tells
<1>3. n \in Nat /\ l = [i \in 1 .. n |-> l[i]]
  BY DEF Tells
<1>4. D = {k \in 1 .. N : Due(k)} /\ D \in SUBSET Nat
  BY <1>1 DEF Due
<1> HIDE DEF N, D
<1>5. /\ e \in [1 .. n -> 1 .. N] /\ Increasing(e, n)
      /\ \A j \in 1 .. N : Due(j) <=> \E i \in 1 .. n : e[i] = j
  BY <1>1, <1>2 DEF DueBefore, Increasing
<1> HIDE DEF n
<1>6. e \in [1 .. n -> D] /\ \A x \in D : \E i \in 1 .. n : e[i] = x
  BY <1>4, <1>5
<1>7. InOrder(D) = e
  BY <1>3, <1>4, <1>5, <1>6, OrderIs
<1>8. Expected = [i \in DOMAIN e |-> Entry(messages[e[i]])]
  BY <1>7 DEF Expected, D
<1>9. DOMAIN e = 1 .. n
  BY <1>6
<1>10. Expected = [i \in 1 .. n |-> l[i]]
  BY <1>2, <1>8, <1>9, Zenon DEF n
<1> QED
  BY <1>3, <1>10

\* A log that tells of the messages before k can be continued to all of them, and
\* is as it is when none from k on is due.
Continues(r, l, k) ==
    /\ Len(l) <= Len(r) /\ \A i \in 1 .. Len(l) : r[i] = l[i]
    /\ (\A j \in k .. Len(messages) : ~Due(j)) => r = l

LEMMA Continued ==
    ASSUME InputOK, NEW k \in 1 .. Len(messages) + 1, NEW l, Tells(l, k)
    PROVE  \E r : Tells(r, Len(messages) + 1) /\ Continues(r, l, k)
<1> DEFINE N == Len(messages)
           T == {j \in k .. N + 1 : \E r : Tells(r, j) /\ Continues(r, l, k)}
<1>1. N \in Nat /\ k \in Nat /\ Len(l) \in Nat
  BY InputTyped DEF Tells
<1>2. k \in T
  <2>1. Continues(l, l, k)
    BY <1>1 DEF Continues
  <2>2. k \in k .. N + 1
    BY <1>1
  <2> QED
    BY <2>1, <2>2
<1>3. PICK x \in T : \A j \in T : x >= j
  <2>1. T \in SUBSET (k .. N + 1) /\ \A j \in k .. N + 1 : j \in Int
    OBVIOUS
  <2>2. IsFiniteSet(k .. N + 1)
    BY <1>1, FS_Interval
  <2> HIDE DEF T
  <2>3. IsFiniteSet(T) /\ \A j \in T : j \in Int
    BY <2>1, <2>2, FS_Subset
  <2> QED
    BY <1>2, <2>3, MaxIsGreatest
<1>4. PICK r : Tells(r, x) /\ Continues(r, l, k)
  BY <1>3
<1>5. x \in k .. N + 1
  BY <1>3
<1>6. ASSUME x # N + 1
      PROVE  FALSE
  <2>1. x \in 1 .. N /\ x \in k .. N /\ x + 1 \in k .. N + 1 /\ ~(x >= x + 1)
    BY <1>1, <1>5, <1>6
  <2>2. \E q : Tells(q, x + 1) /\ Continues(q, l, k)
    <3>1. CASE Due(x)
      <4>1. PICK q : q = Append(r, Entry(messages[x]))
        OBVIOUS
      <4>2. Tells(q, x + 1)
        BY <1>4, <2>1, <3>1, <4>1, TellsMore
      <4>3. r \in Seq(Entries) /\ Len(r) \in Nat
        BY <1>4 DEF Tells
      <4>4. Len(q) = Len(r) + 1 /\ \A i \in 1 .. Len(r) : q[i] = r[i]
        BY <4>1, <4>3
      <4>5. Len(l) <= Len(r) /\ \A i \in 1 .. Len(l) : r[i] = l[i]
        BY <1>4 DEF Continues
      <4>6. Len(l) <= Len(q) /\ \A i \in 1 .. Len(l) : q[i] = l[i]
        BY <1>1, <4>3, <4>4, <4>5
      <4>7. Continues(q, l, k)
        BY <2>1, <3>1, <4>6 DEF Continues
      <4> QED
        BY <4>2, <4>7
    <3>2. CASE ~Due(x)
      <4>1. Tells(r, x + 1)
        BY <1>4, <2>1, <3>2, TellsPast
      <4> QED
        BY <1>4, <4>1
    <3> QED
      BY <3>1, <3>2
  <2>3. x + 1 \in T
    BY <2>1, <2>2
  <2> HIDE DEF T
  <2> QED
    BY <1>3, <2>1, <2>3
<1> QED
  BY <1>4, <1>6

LEMMA PrefixIs ==
    ASSUME NEW S, NEW l \in Seq(S), NEW r \in Seq(S),
           Len(l) <= Len(r), \A i \in 1 .. Len(l) : r[i] = l[i]
    PROVE  IsPrefix(l, r)
<1>1. Len(l) \in 0 .. Len(l) /\ Len(l) \in 0 .. Len(r) /\ 1 .. Len(l) \subseteq 1 .. Len(r)
      /\ DOMAIN l = 1 .. Len(l) /\ DOMAIN r = 1 .. Len(r)
  OBVIOUS
<1>2. SubSeq(l, 1, Len(l)) = [i \in 1 .. Len(l) |-> l[i]]
  BY <1>1, SubSeqRestrict DEF Restrict
<1>3. SubSeq(r, 1, Len(l)) = [i \in 1 .. Len(l) |-> r[i]]
  BY <1>1, SubSeqRestrict DEF Restrict
<1> QED
  BY <1>2, <1>3 DEF IsPrefix

LEMMA Reported ==
    ASSUME IInv
    PROVE  ReportsMessages
<1>1. PICK k \in 1 .. Len(messages) + 1 : InputOK /\ Place(k)
  BY DEF IInv
<1>2. Tells(logged, k) /\ (pc = "done" => \A j \in k .. Len(messages) : ~Due(j))
  BY <1>1 DEF Place
<1>3. PICK r : Tells(r, Len(messages) + 1) /\ Continues(r, logged, k)
  BY <1>1, <1>2, Continued
<1>4. Expected = r
  BY <1>1, <1>3, TellsAll
<1>5. IsPrefix(logged, r)
  <2>1. logged \in Seq(Entries) /\ r \in Seq(Entries)
    BY <1>2, <1>3 DEF Tells
  <2>2. Len(logged) <= Len(r) /\ \A i \in 1 .. Len(logged) : r[i] = logged[i]
    BY <1>3 DEF Continues
  <2> QED
    BY <2>1, <2>2, PrefixIs
<1>6. pc = "done" => logged = r
  BY <1>2, <1>3 DEF Continues
<1> QED
  BY <1>4, <1>5, <1>6 DEF ReportsMessages

LEMMA Found ==
    ASSUME IInv
    PROVE  FindsAddresses
<1> SUFFICES ASSUME pc = "address", NEW i \in DOMAIN dst
             PROVE  /\ dst[i] = at + AddrOffset(MessageAt(at), i)
                    /\ dst[i] + Max({SizeofSockaddrInet4, MessageAt(at).addrs[i].len})
                           <= at + Msglen(MessageAt(at))
  BY DEF FindsAddresses
<1>1. PICK k : At(k)
  BY DEF IInv, At
<1> DEFINE m == MessageAt(at)
<1>2. InsideAt(k, m) /\ InputOK
  BY <1>1, Inside DEF At
<1> HIDE DEF m
<1>3. /\ i \in DOMAIN m.addrs /\ dst[i] = at + AddrOffset(m, i)
      /\ dst[i] + SizeofSockaddrInet4 <= at + Msglen(m)
      /\ at \in Nat /\ Msglen(m) \in Nat /\ dst[i] \in Nat
  BY <1>2 DEF InsideAt, InAddrs
<1>4. m.addrs[i].len \in Nat /\ m.addrs[i].len <= Room(m, i) /\ Room(m, i) \in Nat
  BY <1>2, <1>3, Rooms DEF InsideAt, InputOK
<1>5. AddrOffset(m, i) \in Nat /\ AddrOffset(m, i) + Room(m, i) <= Msglen(m)
  BY <1>2, <1>3 DEF InsideAt, Laid
<1>6. PICK x : x = Max({SizeofSockaddrInet4, m.addrs[i].len})
  OBVIOUS
<1>7. x \in {SizeofSockaddrInet4, m.addrs[i].len}
  <2> DEFINE P == {SizeofSockaddrInet4, m.addrs[i].len}
  <2>1. P = {SizeofSockaddrInet4} \cup {m.addrs[i].len}
    OBVIOUS
  <2>2. IsFiniteSet({SizeofSockaddrInet4}) /\ IsFiniteSet({m.addrs[i].len})
    BY FS_Singleton
  <2>3. P # {} /\ \A y \in P : y \in Int
    BY <1>4 DEF SizeofSockaddrInet4
  <2> HIDE DEF P
  <2>4. IsFiniteSet(P)
    BY <2>1, <2>2, FS_Union
  <2>5. Max(P) \in P
    BY <2>3, <2>4, MaxIsGreatest
  <2> QED
    BY <1>6, <2>5 DEF P
<1>8. dst[i] + x <= at + Msglen(m)
  <2>1. CASE x = SizeofSockaddrInet4
    BY <1>3, <2>1
  <2>2. CASE x = m.addrs[i].len
    <3>1. PICK n : n = m.addrs[i].len
      OBVIOUS
    <3>2. PICK o : o = AddrOffset(m, i)
      OBVIOUS
    <3>3. PICK s : s = Room(m, i)
      OBVIOUS
    <3>4. PICK t : t = Msglen(m)
      OBVIOUS
    <3>5. n \in Nat /\ s \in Nat /\ n <= s /\ o \in Nat /\ o + s <= t /\ t \in Nat
      BY <1>3, <1>4, <1>5, <3>1, <3>2, <3>3, <3>4
    <3>6. at + o + n <= at + t
      BY <1>3, <3>5
    <3>7. dst[i] = at + o
      BY <1>3, <3>2
    <3> QED
      BY <2>2, <3>1, <3>4, <3>6, <3>7
  <2> QED
    BY <1>7, <2>1, <2>2
<1> QED
  BY <1>3, <1>6, <1>8 DEF m

\* The invariant holds of every reachable state, whatever the kernel has written.
THEOREM Invariance == Spec => []IInv
<1>1. Init => IInv
  BY InitInv
<1>2. IInv /\ [Next]_vars => IInv'
  BY NextInv
<1> QED
  BY <1>1, <1>2, PTL DEF Spec

\* The loop of parseAndLogMsgs and that of ParseAddrs stay inside the buffer, by
\* whatever lengths the messages and addresses in it make them go on.
THEOREM TypeCorrect == Spec => []TypeOK
<1>1. IInv => TypeOK
  BY DEF IInv
<1> QED
  BY <1>1, Invariance, PTL

\* ParseAddrs finds each address at the offset where the kernel has put it, and
\* all that appendAddrAttr may read of it is inside of the message.
THEOREM AddressesFound == Spec => []FindsAddresses
<1>1. IInv => FindsAddresses
  BY Found
<1> QED
  BY <1>1, Invariance, PTL

\* parseAndLogMsgs logs the messages that it ought to, in their order and each
\* with its addresses, and at the end all of them.
THEOREM LogCorrect == Spec => []ReportsMessages
<1>1. IInv => ReportsMessages
  BY Reported
<1> QED
  BY <1>1, Invariance, PTL
=============================================================================
