----------------------- MODULE ExpirationCacheProofs -----------------------
(***************************************************************************)
(* Proofs about ExpirationCache, for every set of keys, values and         *)
(* instants and every capacity.                                            *)
(***************************************************************************)
EXTENDS ExpirationCache, ArithmeticTheorems

CacheType ==
    [nodeByKey : UNION {[S -> Entry] : S \in SUBSET Key},
     head : Pointer, tail : Pointer,
     prev : [Key -> Pointer], next : [Key -> Pointer]]

SameLinks(d, e) ==
    d.head = e.head /\ d.tail = e.tail /\ d.prev = e.prev /\ d.next = e.next

\* The effective capacity is a positive number whatever was requested.
LEMMA CapacityPositive == Capacity \in Nat \ {0}
BY CacheAssumption DEF Capacity

\* The fields of a cache, one by one.
LEMMA CacheFields ==
    ASSUME NEW d \in CacheType
    PROVE  /\ Keys(d) \in SUBSET Key
           /\ d.nodeByKey \in [Keys(d) -> Entry]
           /\ d.head \in Pointer /\ d.tail \in Pointer
           /\ d.prev \in [Key -> Pointer] /\ d.next \in [Key -> Pointer]
BY DEF CacheType, Keys

-----------------------------------------------------------------------------
(* Types.                                                                  *)

\* detach yields a cache again and leaves the map alone.
LEMMA DetachType ==
    ASSUME NEW d \in CacheType, NEW n \in Key
    PROVE  /\ Detach(d, n) \in CacheType
           /\ Detach(d, n).nodeByKey = d.nodeByKey
BY DEF CacheType, Detach, Pointer

\* New entries for a cache change its map and none of its links.
LEMMA ReplaceNodes ==
    ASSUME NEW d \in CacheType,
           NEW S \in SUBSET Key, NEW f \in [S -> Entry]
    PROVE  /\ [d EXCEPT !.nodeByKey = f] \in CacheType
           /\ [d EXCEPT !.nodeByKey = f].nodeByKey = f
           /\ Keys([d EXCEPT !.nodeByKey = f]) = S
           /\ SameLinks([d EXCEPT !.nodeByKey = f], d)
BY DEF CacheType, Keys, SameLinks

\* remove takes the key out of the map and keeps every other entry.
LEMMA RemoveNodeType ==
    ASSUME NEW d \in CacheType, NEW n \in Key
    PROVE  /\ RemoveNode(d, n) \in CacheType
           /\ Keys(RemoveNode(d, n)) = Keys(d) \ {n}
           /\ \A k \in Keys(d) \ {n} :
                 RemoveNode(d, n).nodeByKey[k] = d.nodeByKey[k]
           /\ SameLinks(RemoveNode(d, n), Detach(d, n))
<1> DEFINE S == Keys(d) \ {n}
           f == [k \in S |-> d.nodeByKey[k]]
           e == Detach(d, n)
<1>1. S \in SUBSET Key /\ f \in [S -> Entry]
  BY CacheFields
<1>2. RemoveNode(d, n) = [e EXCEPT !.nodeByKey = f]
  BY DEF RemoveNode
<1>3. \A k \in S : f[k] = d.nodeByKey[k]
  OBVIOUS
<1>4. e \in CacheType
  BY DetachType
<1> HIDE DEF f, e
<1>5. /\ [e EXCEPT !.nodeByKey = f] \in CacheType
      /\ [e EXCEPT !.nodeByKey = f].nodeByKey = f
      /\ Keys([e EXCEPT !.nodeByKey = f]) = S
      /\ SameLinks([e EXCEPT !.nodeByKey = f], e)
  BY <1>1, <1>4, ReplaceNodes
<1> QED
  BY <1>2, <1>3, <1>5 DEF e

\* The three ways to insert a node yield a cache and leave the map alone.
LEMMA InsertType ==
    ASSUME NEW d \in CacheType, NEW n \in Key, NEW m \in Key
    PROVE  /\ InsertBefore(d, n, m) \in CacheType
           /\ InsertBefore(d, n, m).nodeByKey = d.nodeByKey
           /\ InsertAfter(d, n, m) \in CacheType
           /\ InsertAfter(d, n, m).nodeByKey = d.nodeByKey
           /\ InsertOnly(d, n) \in CacheType
           /\ InsertOnly(d, n).nodeByKey = d.nodeByKey
BY DEF CacheType, InsertBefore, InsertAfter, InsertOnly, Pointer

\* A fresh node has nil links, its own entry, and leaves the list as it was.
LEMMA CreateNodeType ==
    ASSUME NEW d \in CacheType, NEW k \in Key, NEW entry \in Entry
    PROVE  LET e == CreateNode(d, k, entry)
           IN  /\ e \in CacheType
               /\ Keys(e) = Keys(d) \cup {k}
               /\ e.nodeByKey[k] = entry
               /\ \A j \in Keys(d) \ {k} : e.nodeByKey[j] = d.nodeByKey[j]
               /\ e.head = d.head /\ e.tail = d.tail
               /\ e.prev = [d.prev EXCEPT ![k] = nil]
               /\ e.next = [d.next EXCEPT ![k] = nil]
<1> DEFINE S == Keys(d) \cup {k}
           f == [j \in S |-> IF j = k THEN entry ELSE d.nodeByKey[j]]
           p == [d.prev EXCEPT ![k] = nil]
           q == [d.next EXCEPT ![k] = nil]
<1>1. S \in SUBSET Key /\ f \in [S -> Entry]
  BY CacheFields
<1>2. p \in [Key -> Pointer] /\ q \in [Key -> Pointer]
  BY CacheFields DEF Pointer
<1>3. f[k] = entry /\ \A j \in Keys(d) \ {k} : f[j] = d.nodeByKey[j]
  OBVIOUS
<1>4. CreateNode(d, k, entry) =
        [nodeByKey |-> f, head |-> d.head, tail |-> d.tail,
         prev |-> p, next |-> q]
  BY DEF CreateNode, CacheType
<1> HIDE DEF f, p, q
<1>5. CreateNode(d, k, entry) \in CacheType
  <2>1. d.head \in Pointer /\ d.tail \in Pointer
    BY CacheFields, Zenon
  <2>2. f \in UNION {[T -> Entry] : T \in SUBSET Key}
    BY <1>1, Zenon
  <2> QED
    BY <1>2, <1>4, <2>1, <2>2 DEF CacheType
<1> QED
  BY <1>1, <1>3, <1>4, <1>5 DEF Keys, p, q

\* An update keeps the keys of the map and changes one entry.
LEMMA UpdateNodeType ==
    ASSUME NEW d \in CacheType, NEW k \in Keys(d), NEW entry \in Entry
    PROVE  LET e == UpdateNode(d, k, entry)
           IN  /\ e \in CacheType
               /\ Keys(e) = Keys(d)
               /\ e.nodeByKey[k] = entry
               /\ \A j \in Keys(d) \ {k} : e.nodeByKey[j] = d.nodeByKey[j]
               /\ SameLinks(e, Detach(d, k))
<1> DEFINE f == [d.nodeByKey EXCEPT ![k] = entry]
           e == Detach(d, k)
<1>1. f \in [Keys(d) -> Entry] /\ Keys(d) \in SUBSET Key
  BY CacheFields
<1>2. f[k] = entry /\ \A j \in Keys(d) \ {k} : f[j] = d.nodeByKey[j]
  BY CacheFields
<1>3. e \in CacheType /\ e.nodeByKey = d.nodeByKey
  BY CacheFields, DetachType
<1>4. UpdateNode(d, k, entry) = [e EXCEPT !.nodeByKey = f]
  BY <1>3 DEF UpdateNode, CacheType
<1> HIDE DEF f, e
<1>5. /\ [e EXCEPT !.nodeByKey = f] \in CacheType
      /\ [e EXCEPT !.nodeByKey = f].nodeByKey = f
      /\ Keys([e EXCEPT !.nodeByKey = f]) = Keys(d)
      /\ SameLinks([e EXCEPT !.nodeByKey = f], e)
  BY <1>1, <1>3, ReplaceNodes
<1> QED
  BY <1>2, <1>4, <1>5 DEF e

-----------------------------------------------------------------------------
(* The list.  The three operations on the links, each as what it does to   *)
(* the order of the list.                                                  *)

Without(n, s, i) == [j \in 1 .. n - 1 |-> IF j < i THEN s[j] ELSE s[j + 1]]

With(n, s, i, k) ==
    [j \in 1 .. n + 1 |-> IF j < i THEN s[j] ELSE IF j = i THEN k ELSE s[j - 1]]

\* Detach takes one node out of the list and leaves the order of the others.
LEMMA DetachLinked ==
    ASSUME NEW d \in CacheType, NEW S \in SUBSET Key, NEW n \in Nat,
           NEW s \in [1 .. n -> S], Linked(d, S, n, s), NEW i \in 1 .. n
    PROVE  /\ Without(n, s, i) \in [1 .. n - 1 -> S \ {s[i]}]
           /\ Linked(Detach(d, s[i]), S \ {s[i]}, n - 1, Without(n, s, i))
<1> DEFINE t == Without(n, s, i)
           p == d.prev[s[i]]
           q == d.next[s[i]]
           e == Detach(d, s[i])
<1>1. /\ p = IF i = 1 THEN nil ELSE s[i - 1]
      /\ q = IF i = n THEN nil ELSE s[i + 1]
  BY DEF Linked
<1>2. /\ i # 1 => p # nil
      /\ i # n => q # nil
  BY <1>1, CacheAssumption
<1>3. \A j \in 1 .. n - 1 : t[j] = IF j < i THEN s[j] ELSE s[j + 1]
  BY DEF Without
<1>4. t \in [1 .. n - 1 -> S \ {s[i]}]
  BY DEF Without, Linked
<1> HIDE DEF t
<1>5. \A j, k \in 1 .. n - 1 : t[j] = t[k] => j = k
  <2> TAKE j, k \in 1 .. n - 1
  <2> DEFINE a == IF j < i THEN j ELSE j + 1
             b == IF k < i THEN k ELSE k + 1
  <2>1. a \in 1 .. n /\ b \in 1 .. n /\ (a = b => j = k)
    OBVIOUS
  <2>2. t[j] = s[a] /\ t[k] = s[b]
    BY <1>3
  <2>3. s[a] = s[b] => a = b
    BY <2>1 DEF Linked
  <2> QED
    BY <2>1, <2>2, <2>3
<1>6. \A k \in S \ {s[i]} : \E j \in 1 .. n - 1 : t[j] = k
  <2> TAKE k \in S \ {s[i]}
  <2>1. PICK j \in 1 .. n : s[j] = k
    BY DEF Linked
  <2>2. CASE j < i
    BY <2>1, <2>2, <1>3
  <2>3. CASE j > i
    <3>1. j - 1 \in 1 .. n - 1 /\ t[j - 1] = s[(j - 1) + 1]
      BY <2>3, <1>3
    <3> QED
      BY <2>1, <3>1
  <2> QED
    BY <2>1, <2>2, <2>3
<1>7. /\ e.head = IF n - 1 = 0 THEN nil ELSE t[1]
      /\ e.tail = IF n - 1 = 0 THEN nil ELSE t[n - 1]
  BY <1>1, <1>2, <1>3 DEF Detach, Linked
<1>8. /\ d.prev \in [Key -> Pointer] /\ d.next \in [Key -> Pointer]
      /\ \A j \in 1 .. n : s[j] \in Key
      /\ p \in Pointer /\ q \in Pointer
  BY CacheFields
<1>9. /\ i = n => e.prev = d.prev
      /\ i # n => e.prev = [d.prev EXCEPT ![s[i + 1]] = p]
      /\ i = 1 => e.next = d.next
      /\ i # 1 => e.next = [d.next EXCEPT ![s[i - 1]] = q]
  BY <1>1, <1>2 DEF Detach
<1>10. /\ \A j, k \in 1 .. n : j # k => s[j] # s[k]
       /\ \A j \in 1 .. n : /\ d.prev[s[j]] = IF j = 1 THEN nil ELSE s[j - 1]
                            /\ d.next[s[j]] = IF j = n THEN nil ELSE s[j + 1]
  BY DEF Linked
<1> HIDE DEF t, p, q, e
<1>11. ASSUME NEW j \in 1 .. n - 1
       PROVE  e.prev[t[j]] = IF j = 1 THEN nil ELSE t[j - 1]
  <2>1. CASE j < i
    <3>1. t[j] = s[j] /\ (j # 1 => t[j - 1] = s[j - 1]) /\ j \in 1 .. n
      BY <1>3, <2>1
    <3>2. i # n => s[j] # s[i + 1]
      BY <1>10, <2>1
    <3>3. e.prev[s[j]] = d.prev[s[j]]
      BY <1>8, <1>9, <3>2
    <3> QED
      BY <1>10, <3>1, <3>3
  <2>2. CASE j = i
    <3>1. t[j] = s[i + 1] /\ i # n /\ (j # 1 => t[j - 1] = s[i - 1])
      BY <1>3, <2>2
    <3>2. e.prev[s[i + 1]] = p
      BY <1>8, <1>9, <3>1
    <3> QED
      BY <1>1, <3>1, <3>2, <2>2
  <2>3. CASE j > i
    <3>1. t[j] = s[j + 1] /\ t[j - 1] = s[j] /\ j + 1 \in 1 .. n /\ j # 1
      BY <1>3, <2>3
    <3>2. s[j + 1] # s[i + 1]
      BY <1>10, <2>3
    <3>3. e.prev[s[j + 1]] = d.prev[s[j + 1]]
      BY <1>8, <1>9, <3>1, <3>2
    <3> QED
      BY <1>10, <3>1, <3>3
  <2> QED
    BY <2>1, <2>2, <2>3
<1>12. ASSUME NEW j \in 1 .. n - 1
       PROVE  e.next[t[j]] = IF j = n - 1 THEN nil ELSE t[j + 1]
  <2>1. CASE j < i - 1
    <3>1. /\ t[j] = s[j] /\ t[j + 1] = s[j + 1]
          /\ j # n - 1 /\ j # n /\ j \in 1 .. n
      BY <1>3, <2>1
    <3>2. s[j] # s[i - 1]
      BY <1>10, <2>1
    <3>3. e.next[s[j]] = d.next[s[j]]
      BY <1>8, <1>9, <3>2
    <3> QED
      BY <1>10, <3>1, <3>3
  <2>2. CASE j = i - 1
    <3>1. t[j] = s[i - 1] /\ i # 1 /\ (j # n - 1 => t[j + 1] = s[i + 1])
      BY <1>3, <2>2
    <3>2. e.next[s[i - 1]] = q
      BY <1>8, <1>9, <3>1
    <3> QED
      BY <1>1, <3>1, <3>2, <2>2
  <2>3. CASE j > i - 1
    <3>1. /\ t[j] = s[j + 1] /\ j + 1 \in 1 .. n
          /\ (j # n - 1 => t[j + 1] = s[(j + 1) + 1])
      BY <1>3, <2>3
    <3>2. i # 1 => s[j + 1] # s[i - 1]
      BY <1>10, <2>3
    <3>3. e.next[s[j + 1]] = d.next[s[j + 1]]
      BY <1>8, <1>9, <3>1, <3>2
    <3> QED
      BY <1>10, <3>1, <3>3
  <2> QED
    BY <2>1, <2>2, <2>3
<1> QED
  BY <1>4, <1>5, <1>6, <1>7, <1>11, <1>12 DEF Linked, t, e

\* What it takes to put a new node k at place i of the list.
Spliced(d, e, n, s, i, k) ==
    /\ e.head = IF i = 1 THEN k ELSE d.head
    /\ e.tail = IF i = n + 1 THEN k ELSE d.tail
    /\ e.prev[k] = IF i = 1 THEN nil ELSE s[i - 1]
    /\ e.next[k] = IF i = n + 1 THEN nil ELSE s[i]
    /\ \A j \in 1 .. n :
          /\ e.prev[s[j]] = IF j = i THEN k ELSE d.prev[s[j]]
          /\ e.next[s[j]] = IF j = i - 1 THEN k ELSE d.next[s[j]]

\* A node spliced in at place i, by whichever of the two insertions, makes
\* the list one longer and keeps the order of the others.
LEMMA SplicedLinked ==
    ASSUME NEW d, NEW e, NEW S \in SUBSET Key, NEW n \in Nat,
           NEW s \in [1 .. n -> S], Linked(d, S, n, s),
           NEW i \in 1 .. n + 1, NEW k \in Key \ S, Spliced(d, e, n, s, i, k)
    PROVE  /\ With(n, s, i, k) \in [1 .. n + 1 -> S \cup {k}]
           /\ Linked(e, S \cup {k}, n + 1, With(n, s, i, k))
<1> DEFINE t == With(n, s, i, k)
<1>1. \A j \in 1 .. n + 1 :
         t[j] = IF j < i THEN s[j] ELSE IF j = i THEN k ELSE s[j - 1]
  BY DEF With
<1>2. t \in [1 .. n + 1 -> S \cup {k}]
  BY DEF With
<1>3. /\ \A j \in 1 .. n : s[j] \in S
      /\ k \notin S
      /\ \A j, m \in 1 .. n : s[j] = s[m] => j = m
      /\ \A m \in S : \E j \in 1 .. n : s[j] = m
      /\ d.head = IF n = 0 THEN nil ELSE s[1]
      /\ d.tail = IF n = 0 THEN nil ELSE s[n]
      /\ \A j \in 1 .. n : /\ d.prev[s[j]] = IF j = 1 THEN nil ELSE s[j - 1]
                           /\ d.next[s[j]] = IF j = n THEN nil ELSE s[j + 1]
  BY DEF Linked
<1> HIDE DEF t
<1>4. \A j, m \in 1 .. n + 1 : t[j] = t[m] => j = m
  <2> TAKE j, m \in 1 .. n + 1
  <2> DEFINE a == IF j < i THEN j ELSE j - 1
             b == IF m < i THEN m ELSE m - 1
  <2>1. /\ j # i => a \in 1 .. n /\ t[j] = s[a]
        /\ m # i => b \in 1 .. n /\ t[m] = s[b]
        /\ j # i /\ m # i /\ a = b => j = m
    BY <1>1
  <2>2. j = i => t[j] = k
    BY <1>1
  <2>3. m = i => t[m] = k
    BY <1>1
  <2>4. j # i /\ m # i => (s[a] = s[b] => a = b)
    BY <1>3, <2>1
  <2> HIDE DEF a, b
  <2> QED
    BY <1>3, <2>1, <2>2, <2>3, <2>4
<1>5. \A m \in S \cup {k} : \E j \in 1 .. n + 1 : t[j] = m
  <2> TAKE m \in S \cup {k}
  <2>1. CASE m = k
    BY <2>1, <1>1
  <2>2. CASE m \in S
    <3>1. PICK j \in 1 .. n : s[j] = m
      BY <1>3, <2>2
    <3>2. CASE j < i
      BY <1>1, <3>1, <3>2
    <3>3. CASE j >= i
      <4>1. j + 1 \in 1 .. n + 1 /\ t[j + 1] = s[(j + 1) - 1]
        BY <1>1, <3>3
      <4> QED
        BY <3>1, <4>1
    <3> QED
      BY <3>2, <3>3
  <2> QED
    BY <2>1, <2>2
<1>6. e.head = t[1] /\ e.tail = t[n + 1]
  BY <1>1, <1>3 DEF Spliced
<1>7. ASSUME NEW j \in 1 .. n + 1
      PROVE  e.prev[t[j]] = IF j = 1 THEN nil ELSE t[j - 1]
  <2>1. CASE j < i
    <3>1. /\ j \in 1 .. n /\ t[j] = s[j]
          /\ j # 1 => t[j - 1] = s[j - 1]
      BY <1>1, <2>1
    <3>2. e.prev[s[j]] = d.prev[s[j]]
      BY <2>1, <3>1 DEF Spliced
    <3> QED
      BY <1>3, <3>1, <3>2
  <2>2. CASE j = i
    BY <1>1, <2>2 DEF Spliced
  <2>3. CASE j = i + 1
    BY <1>1, <2>3 DEF Spliced
  <2>4. CASE j > i + 1
    <3>1. /\ j - 1 \in 1 .. n /\ t[j] = s[j - 1] /\ j - 1 # i
          /\ j - 1 # 1 /\ t[j - 1] = s[(j - 1) - 1] /\ j # 1
      BY <1>1, <2>4
    <3>2. e.prev[s[j - 1]] = d.prev[s[j - 1]]
      BY <3>1 DEF Spliced
    <3> QED
      BY <1>3, <3>1, <3>2
  <2> QED
    BY <2>1, <2>2, <2>3, <2>4
<1>8. ASSUME NEW j \in 1 .. n + 1
      PROVE  e.next[t[j]] = IF j = n + 1 THEN nil ELSE t[j + 1]
  <2>1. CASE j < i - 1
    <3>1. /\ j \in 1 .. n /\ t[j] = s[j] /\ j # n + 1 /\ j # n
          /\ t[j + 1] = s[j + 1] /\ j # i - 1
      BY <1>1, <2>1
    <3>2. e.next[s[j]] = d.next[s[j]]
      BY <3>1 DEF Spliced
    <3> QED
      BY <1>3, <3>1, <3>2
  <2>2. CASE j = i - 1
    BY <1>1, <2>2 DEF Spliced
  <2>3. CASE j = i
    BY <1>1, <2>3 DEF Spliced
  <2>4. CASE j > i
    <3>1. /\ j - 1 \in 1 .. n /\ t[j] = s[j - 1] /\ j - 1 # i - 1
          /\ j # n + 1 => t[j + 1] = s[(j - 1) + 1]
      BY <1>1, <2>4
    <3>2. e.next[s[j - 1]] = d.next[s[j - 1]]
      BY <3>1 DEF Spliced
    <3> QED
      BY <1>3, <3>1, <3>2
  <2> QED
    BY <2>1, <2>2, <2>3, <2>4
<1> QED
  BY <1>2, <1>4, <1>5, <1>6, <1>7, <1>8 DEF Linked, t

\* insertBefore the i-th node puts the new node at place i.
LEMMA InsertBeforeLinked ==
    ASSUME NEW d \in CacheType, NEW S \in SUBSET Key, NEW n \in Nat,
           NEW s \in [1 .. n -> S], Linked(d, S, n, s),
           NEW i \in 1 .. n, NEW k \in Key \ S
    PROVE  Spliced(d, InsertBefore(d, k, s[i]), n, s, i, k)
<1> DEFINE m == s[i]
           p == d.prev[m]
           e == InsertBefore(d, k, m)
<1>1. /\ \A j \in 1 .. n : s[j] \in Key /\ s[j] # k /\ s[j] # nil
      /\ \A j, l \in 1 .. n : s[j] = s[l] => j = l
      /\ d.head = s[1] /\ d.tail = s[n]
      /\ p = IF i = 1 THEN nil ELSE s[i - 1]
      /\ d.prev \in [Key -> Pointer] /\ d.next \in [Key -> Pointer]
  BY CacheFields, CacheAssumption DEF Linked
<1>2. /\ e.head = IF p = nil THEN k ELSE d.head
      /\ e.tail = d.tail
      /\ e.prev = [d.prev EXCEPT ![k] = p, ![m] = k]
      /\ p = nil => e.next = [d.next EXCEPT ![k] = m]
      /\ p # nil => e.next = [d.next EXCEPT ![k] = m, ![p] = k]
  BY DEF InsertBefore
<1>3. p = nil <=> i = 1
  BY <1>1
<1> HIDE DEF p, e
<1>4. /\ e.prev[k] = p /\ e.prev[m] = k
      /\ \A j \in 1 .. n : j # i => e.prev[s[j]] = d.prev[s[j]]
  BY <1>1, <1>2
<1>5. e.next[k] = m
  BY <1>1, <1>2, <1>3
<1>6. i # 1 => e.next[s[i - 1]] = k
  BY <1>1, <1>2, <1>3
<1>7. \A j \in 1 .. n : j # i - 1 => e.next[s[j]] = d.next[s[j]]
  <2> TAKE j \in 1 .. n
  <2> HAVE j # i - 1
  <2>1. CASE i = 1
    BY <2>1, <1>1, <1>2, <1>3
  <2>2. CASE i # 1
    <3>1. p = s[i - 1] /\ s[j] # p
      BY <2>2, <1>1
    <3> QED
      BY <2>2, <3>1, <1>1, <1>2, <1>3
  <2> QED
    BY <2>1, <2>2
<1> QED
  BY <1>1, <1>2, <1>3, <1>4, <1>5, <1>6, <1>7 DEF Spliced, e

\* insertAfter the i-th node puts the new node at place i + 1.
LEMMA InsertAfterLinked ==
    ASSUME NEW d \in CacheType, NEW S \in SUBSET Key, NEW n \in Nat,
           NEW s \in [1 .. n -> S], Linked(d, S, n, s),
           NEW i \in 1 .. n, NEW k \in Key \ S
    PROVE  Spliced(d, InsertAfter(d, k, s[i]), n, s, i + 1, k)
<1> DEFINE m == s[i]
           q == d.next[m]
           e == InsertAfter(d, k, m)
<1>1. /\ \A j \in 1 .. n : s[j] \in Key /\ s[j] # k /\ s[j] # nil
      /\ \A j, l \in 1 .. n : s[j] = s[l] => j = l
      /\ d.head = s[1] /\ d.tail = s[n]
      /\ q = IF i = n THEN nil ELSE s[i + 1]
      /\ d.prev \in [Key -> Pointer] /\ d.next \in [Key -> Pointer]
  <2>1. \A j \in 1 .. n : s[j] \in Key /\ s[j] # k /\ s[j] # nil
    BY CacheAssumption
  <2>2. /\ \A j, l \in 1 .. n : s[j] = s[l] => j = l
        /\ d.head = IF n = 0 THEN nil ELSE s[1]
        /\ d.tail = IF n = 0 THEN nil ELSE s[n]
        /\ q = IF i = n THEN nil ELSE s[i + 1]
    BY Zenon DEF Linked
  <2>3. d.prev \in [Key -> Pointer] /\ d.next \in [Key -> Pointer]
    BY CacheFields, Zenon
  <2>4. n # 0
    OBVIOUS
  <2> QED
    BY <2>1, <2>2, <2>3, <2>4, Zenon
<1>2. /\ e.head = d.head
      /\ e.tail = IF q = nil THEN k ELSE d.tail
      /\ e.next = [d.next EXCEPT ![k] = q, ![m] = k]
      /\ q = nil => e.prev = [d.prev EXCEPT ![k] = m]
      /\ q # nil => e.prev = [d.prev EXCEPT ![k] = m, ![q] = k]
  BY DEF InsertAfter
<1>3. q = nil <=> i = n
  BY <1>1
<1> HIDE DEF q, e
<1>4. /\ e.next[k] = q /\ e.next[m] = k
      /\ \A j \in 1 .. n : j # i => e.next[s[j]] = d.next[s[j]]
  BY <1>1, <1>2
<1>5. e.prev[k] = m
  BY <1>1, <1>2, <1>3
<1>6. i # n => e.prev[s[i + 1]] = k
  BY <1>1, <1>2, <1>3
<1>7. \A j \in 1 .. n : j # i + 1 => e.prev[s[j]] = d.prev[s[j]]
  <2> TAKE j \in 1 .. n
  <2> HAVE j # i + 1
  <2>1. CASE i = n
    BY <2>1, <1>1, <1>2, <1>3
  <2>2. CASE i # n
    <3>1. q = s[i + 1] /\ s[j] # q
      BY <2>2, <1>1
    <3> QED
      BY <2>2, <3>1, <1>1, <1>2, <1>3
  <2> QED
    BY <2>1, <2>2
<1> QED
  BY <1>1, <1>2, <1>3, <1>4, <1>5, <1>6, <1>7 DEF Spliced, e

\* Into an empty list the node goes as head and as tail.
LEMMA InsertOnlyLinked ==
    ASSUME NEW d \in CacheType, NEW k \in Key, NEW s,
           d.prev[k] = nil, d.next[k] = nil
    PROVE  Spliced(d, InsertOnly(d, k), 0, s, 1, k)
BY DEF InsertOnly, Spliced, CacheType

-----------------------------------------------------------------------------
(* The list in order of expiration, through each operation.                *)

Ordered(d, S, n, s) ==
    n \in Nat /\ s \in [1 .. n -> S] /\ Linked(d, S, n, s) /\ Sorted(d, n, s)

\* The list has as many nodes as there are keys in it.
LEMMA OrderedCardinality ==
    ASSUME NEW d, NEW S, NEW n, NEW s, Ordered(d, S, n, s)
    PROVE  IsFiniteSet(S) /\ Cardinality(S) = n
<1>1. n \in Nat /\ s \in Bijection(1 .. n, S)
  BY DEF Ordered, Linked, Bijection, Injection, Surjection, IsInjective
<1>2. ExistsBijection(1 .. n, S)
  BY <1>1 DEF ExistsBijection
<1>3. n \in Nat
  BY <1>1
<1> QED
  BY <1>2, <1>3, FS_NatBijection, FS_CountingElements

\* Linked and Sorted depend on the nodes of the list alone.
LEMMA OrderedFrame ==
    ASSUME NEW d, NEW e, NEW S, NEW n, NEW s, Ordered(d, S, n, s),
           e.head = d.head, e.tail = d.tail,
           \A k \in S : /\ e.prev[k] = d.prev[k]
                        /\ e.next[k] = d.next[k]
                        /\ e.nodeByKey[k] = d.nodeByKey[k]
    PROVE  Ordered(e, S, n, s)
<1>1. n \in Nat /\ \A j \in 1 .. n : s[j] \in S
  BY DEF Ordered
<1>2. Linked(e, S, n, s)
  <2>1. /\ e.head = IF n = 0 THEN nil ELSE s[1]
        /\ e.tail = IF n = 0 THEN nil ELSE s[n]
    BY Zenon DEF Ordered, Linked
  <2>2. ASSUME NEW i \in 1 .. n
        PROVE  /\ e.prev[s[i]] = IF i = 1 THEN nil ELSE s[i - 1]
               /\ e.next[s[i]] = IF i = n THEN nil ELSE s[i + 1]
    <3>1. s[i] \in S
      BY <1>1, Zenon
    <3>2. e.prev[s[i]] = d.prev[s[i]] /\ e.next[s[i]] = d.next[s[i]]
      BY <3>1, Zenon
    <3>3. /\ d.prev[s[i]] = IF i = 1 THEN nil ELSE s[i - 1]
          /\ d.next[s[i]] = IF i = n THEN nil ELSE s[i + 1]
      BY Zenon DEF Ordered, Linked
    <3> QED
      BY <3>2, <3>3, Zenon
  <2>3. /\ \A i, j \in 1 .. n : s[i] = s[j] => i = j
        /\ \A k \in S : \E i \in 1 .. n : s[i] = k
    BY Zenon DEF Ordered, Linked
  <2> QED
    BY <2>1, <2>2, <2>3, Zenon DEF Linked
<1>3. Sorted(e, n, s)
  BY <1>1 DEF Ordered, Sorted, Expiry
<1> QED
  BY <1>2, <1>3 DEF Ordered

\* Expiration times are integers, so they can be compared.
LEMMA ExpiryInt ==
    ASSUME NEW d \in CacheType, NEW k \in Keys(d)
    PROVE  Expiry(d, k) \in Int
BY CacheFields, CacheAssumption DEF Expiry, Entry

\* A list in order stays in order without one of its nodes.
LEMMA WithoutSorted ==
    ASSUME NEW d, NEW n \in Nat, NEW s, Sorted(d, n, s), NEW i \in 1 .. n
    PROVE  Sorted(d, n - 1, Without(n, s, i))
<1> DEFINE t == Without(n, s, i)
<1>1. \A j \in 1 .. n - 1 : t[j] = IF j < i THEN s[j] ELSE s[j + 1]
  BY DEF Without
<1> HIDE DEF t
<1>2. ASSUME NEW j \in 1 .. n - 1, NEW m \in 1 .. n - 1, j < m
      PROVE  Expiry(d, t[j]) <= Expiry(d, t[m])
  <2> DEFINE a == IF j < i THEN j ELSE j + 1
             b == IF m < i THEN m ELSE m + 1
  <2>1. a \in 1 .. n /\ b \in 1 .. n /\ a < b
    BY <1>2
  <2>2. t[j] = s[a] /\ t[m] = s[b]
    BY <1>1
  <2> HIDE DEF a, b
  <2> QED
    BY <2>1, <2>2 DEF Sorted
<1> QED
  BY <1>2 DEF Sorted, t

\* A list in order stays in order with a node put where it belongs.
LEMMA WithSorted ==
    ASSUME NEW d, NEW n \in Nat, NEW s, Sorted(d, n, s),
           NEW i \in 1 .. n + 1, NEW k,
           \A j \in 1 .. n : IF j < i THEN Expiry(d, s[j]) <= Expiry(d, k)
                                      ELSE Expiry(d, k) <= Expiry(d, s[j])
    PROVE  Sorted(d, n + 1, With(n, s, i, k))
<1> DEFINE t == With(n, s, i, k)
<1>1. \A j \in 1 .. n + 1 :
         t[j] = IF j < i THEN s[j] ELSE IF j = i THEN k ELSE s[j - 1]
  BY DEF With
<1> HIDE DEF t
<1>2. ASSUME NEW j \in 1 .. n + 1, NEW m \in 1 .. n + 1, j < m
      PROVE  Expiry(d, t[j]) <= Expiry(d, t[m])
  <2> DEFINE a == IF j < i THEN j ELSE j - 1
             b == IF m < i THEN m ELSE m - 1
  <2>1. CASE j = i
    <3>1. b \in 1 .. n /\ ~(b < i) /\ t[m] = s[b] /\ t[j] = k
      BY <1>1, <1>2, <2>1
    <3> HIDE DEF b
    <3> QED
      BY <3>1
  <2>2. CASE m = i
    <3>1. a \in 1 .. n /\ a < i /\ t[j] = s[a] /\ t[m] = k
      BY <1>1, <1>2, <2>2
    <3> HIDE DEF a
    <3> QED
      BY <3>1
  <2>3. CASE j # i /\ m # i
    <3>1. a \in 1 .. n /\ b \in 1 .. n /\ a < b /\ t[j] = s[a] /\ t[m] = s[b]
      BY <1>1, <1>2, <2>3
    <3> HIDE DEF a, b
    <3> QED
      BY <3>1 DEF Sorted
  <2> QED
    BY <2>1, <2>2, <2>3
<1> QED
  BY <1>2 DEF Sorted, t

\* detach leaves the rest of the list in order.
LEMMA DetachOrdered ==
    ASSUME NEW d \in CacheType, NEW S \in SUBSET Key, NEW n, NEW s,
           Ordered(d, S, n, s), NEW i \in 1 .. n,
           NEW e, SameLinks(e, Detach(d, s[i])),
           \A k \in S \ {s[i]} : e.nodeByKey[k] = d.nodeByKey[k]
    PROVE  Ordered(e, S \ {s[i]}, n - 1, Without(n, s, i))
<1> DEFINE t == Without(n, s, i)
           f == Detach(d, s[i])
<1>1. n \in Nat /\ s \in [1 .. n -> S] /\ Linked(d, S, n, s) /\ Sorted(d, n, s)
  BY DEF Ordered
<1>2. /\ t \in [1 .. n - 1 -> S \ {s[i]}]
      /\ Linked(f, S \ {s[i]}, n - 1, t)
  BY <1>1, DetachLinked
<1>3. Sorted(d, n - 1, t)
  BY <1>1, WithoutSorted
<1>4. s[i] \in Key /\ f.nodeByKey = d.nodeByKey /\ n - 1 \in Nat
  BY <1>1, DetachType
<1>5. Ordered(f, S \ {s[i]}, n - 1, t)
  BY <1>2, <1>3, <1>4 DEF Ordered, Sorted, Expiry
<1> QED
  BY <1>4, <1>5, OrderedFrame DEF SameLinks

\* remove leaves a list in order of the keys that remain.
LEMMA RemoveOrdered ==
    ASSUME NEW d \in CacheType, NEW n, NEW s,
           Ordered(d, Keys(d), n, s), NEW i \in 1 .. n
    PROVE  LET e == RemoveNode(d, s[i])
           IN  /\ e \in CacheType
               /\ Keys(e) = Keys(d) \ {s[i]}
               /\ \A k \in Keys(e) : Expiry(e, k) = Expiry(d, k)
               /\ Ordered(e, Keys(e), n - 1, Without(n, s, i))
<1>1. Keys(d) \in SUBSET Key /\ s[i] \in Keys(d)
  BY CacheFields DEF Ordered
<1> QED
  BY <1>1, RemoveNodeType, DetachOrdered DEF Expiry

\* pruneOldest leaves room for one more node.
LEMMA PruneOldestOrdered ==
    ASSUME NEW d \in CacheType, NEW n \in 0 .. Capacity, NEW s,
           Ordered(d, Keys(d), n, s)
    PROVE  LET e == PruneOldest(d)
           IN  /\ e \in CacheType
               /\ Keys(e) \subseteq Keys(d)
               /\ \A k \in Keys(e) : Expiry(e, k) = Expiry(d, k)
               /\ \E m \in 0 .. Capacity - 1 :
                     \E t : Ordered(e, Keys(e), m, t)
<1>1. Cardinality(Keys(d)) = n
  BY OrderedCardinality
<1>2. CASE n < Capacity
  BY <1>1, <1>2, CapacityPositive DEF PruneOldest
<1>3. CASE n = Capacity
  <2>1. 1 \in 1 .. n /\ n - 1 \in 0 .. Capacity - 1 /\ n # 0
    BY <1>3, CapacityPositive
  <2>2. PruneOldest(d) = RemoveNode(d, s[1])
    BY <1>1, <1>3, <2>1, CapacityPositive DEF PruneOldest, Ordered, Linked
  <2> QED
    BY <2>1, <2>2, RemoveOrdered
<1> QED
  BY <1>2, <1>3, CapacityPositive

\* A new key in the map, not yet in the list, disturbs no one.
LEMMA CreateOrdered ==
    ASSUME NEW d \in CacheType, NEW n, NEW s, Ordered(d, Keys(d), n, s),
           NEW k \in Key \ Keys(d), NEW entry \in Entry
    PROVE  LET e == CreateNode(d, k, entry)
           IN  /\ e \in CacheType /\ Keys(e) = Keys(d) \cup {k}
               /\ Ordered(e, Keys(d), n, s)
               /\ e.nodeByKey[k] = entry
               /\ e.prev[k] = nil /\ e.next[k] = nil
               /\ \A j \in Keys(d) : Expiry(e, j) = Expiry(d, j)
<1> DEFINE e == CreateNode(d, k, entry)
<1>1. /\ e \in CacheType /\ Keys(e) = Keys(d) \cup {k}
      /\ e.nodeByKey[k] = entry
      /\ \A j \in Keys(d) \ {k} : e.nodeByKey[j] = d.nodeByKey[j]
      /\ e.head = d.head /\ e.tail = d.tail
      /\ e.prev = [d.prev EXCEPT ![k] = nil]
      /\ e.next = [d.next EXCEPT ![k] = nil]
  BY CreateNodeType
<1>2. /\ d.prev \in [Key -> Pointer] /\ d.next \in [Key -> Pointer]
      /\ Keys(d) \subseteq Key
  BY CacheFields
<1> HIDE DEF e
<1>3. \A j \in Keys(d) : /\ e.prev[j] = d.prev[j]
                         /\ e.next[j] = d.next[j]
                         /\ e.nodeByKey[j] = d.nodeByKey[j]
  BY <1>1, <1>2
<1>4. e.prev[k] = nil /\ e.next[k] = nil
  BY <1>1, <1>2
<1>5. Ordered(e, Keys(d), n, s)
  BY <1>1, <1>3, OrderedFrame
<1> QED
  BY <1>1, <1>3, <1>4, <1>5 DEF Expiry, e

\* An updated node has left the list, which is in order without it.
LEMMA UpdateOrdered ==
    ASSUME NEW d \in CacheType, NEW n, NEW s, Ordered(d, Keys(d), n, s),
           NEW k \in Keys(d), NEW entry \in Entry
    PROVE  LET e == UpdateNode(d, k, entry)
           IN  /\ \A j \in Keys(d) \ {k} : Expiry(e, j) = Expiry(d, j)
               /\ \E t : Ordered(e, Keys(d) \ {k}, n - 1, t)
               /\ n = 1 => e.prev[k] = nil /\ e.next[k] = nil
               /\ n \in Nat \ {0}
<1> DEFINE e == UpdateNode(d, k, entry)
<1>1. /\ \A j \in Keys(d) \ {k} : e.nodeByKey[j] = d.nodeByKey[j]
      /\ SameLinks(e, Detach(d, k))
  BY UpdateNodeType
<1>2. PICK i \in 1 .. n : s[i] = k
  BY DEF Ordered, Linked
<1>3. n \in Nat \ {0} /\ Keys(d) \in SUBSET Key
  BY <1>2, CacheFields DEF Ordered
<1>4. Ordered(e, Keys(d) \ {k}, n - 1, Without(n, s, i))
  BY <1>1, <1>2, <1>3, DetachOrdered
<1>5. n = 1 => d.prev[k] = nil /\ d.next[k] = nil
  BY <1>2 DEF Ordered, Linked
<1>6. n = 1 => e.prev[k] = nil /\ e.next[k] = nil
  BY <1>1, <1>5 DEF SameLinks, Detach
<1> QED
  BY <1>1, <1>3, <1>4, <1>6 DEF Expiry

\* A node inserted at a place that fits its expiration time keeps the order.
LEMMA InsertOrdered ==
    ASSUME NEW d, NEW e, NEW S \in SUBSET Key, NEW n, NEW s,
           Ordered(d, S, n, s),
           NEW i \in 1 .. n + 1, NEW k \in Key \ S, Spliced(d, e, n, s, i, k),
           e.nodeByKey = d.nodeByKey,
           \A j \in 1 .. n : IF j < i THEN Expiry(d, s[j]) <= Expiry(d, k)
                                      ELSE Expiry(d, k) <= Expiry(d, s[j])
    PROVE  Ordered(e, S \cup {k}, n + 1, With(n, s, i, k))
<1> DEFINE t == With(n, s, i, k)
<1>1. n \in Nat /\ s \in [1 .. n -> S] /\ Linked(d, S, n, s) /\ Sorted(d, n, s)
  BY DEF Ordered
<1>2. t \in [1 .. n + 1 -> S \cup {k}] /\ Linked(e, S \cup {k}, n + 1, t)
  BY <1>1, SplicedLinked
<1>3. Sorted(d, n + 1, t)
  BY <1>1, WithSorted
<1> QED
  BY <1>1, <1>2, <1>3 DEF Ordered, Sorted, Expiry

-----------------------------------------------------------------------------
(* The inductive invariant.                                                *)

IInv == TypeOK /\ ListInv /\ NoExpiredSurvivor

ListOrdered ==
    \E n \in 0 .. Capacity : \E s :
        /\ Ordered(c, Listed, n, s)
        /\ pc = "prune" => mark = c.head
        /\ pc = "search" => Searching(n, s)

\* ListInv, restated with Ordered.
LEMMA ListInvOrdered == ListInv <=> ListOrdered
BY CapacityPositive DEF ListInv, ListOrdered, Ordered

\* The same of the next state.
LEMMA ListInvOrderedNext == ListInv' <=> ListOrdered'
BY ListInvOrdered, PTL

\* A call that has ended and left an ordered list within the capacity.
LEMMA FinishInv ==
    ASSUME Finish, c' \in CacheType, NEW n \in 0 .. Capacity, NEW s,
           Ordered(c', Keys(c'), n, s)
    PROVE  IInv'
<1>1. c'.nodeByKey \in UNION {[S -> Entry] : S \in SUBSET Key}
  BY DEF CacheType
<1>2. TypeOK'
  BY <1>1 DEF Finish, TypeOK, CacheType, Pointer
<1>3. Listed' = Keys(c')
  BY DEF Finish, Listed, Keys
<1>4. ListInv'
  <2>1. Ordered(c', Listed', n, s) /\ pc' = "idle"
    BY <1>3 DEF Finish
  <2>2. ListOrdered'
    BY <2>1 DEF ListOrdered
  <2> QED
    BY <2>2, ListInvOrderedNext
<1>5. NoExpiredSurvivor'
  BY DEF Finish, NoExpiredSurvivor
<1> QED
  BY <1>2, <1>4, <1>5 DEF IInv

\* A Set that has found place i for its node.
LEMMA FinishSetInv ==
    ASSUME TypeOK, pc = "search", Finish,
           NEW n \in 0 .. Capacity, NEW s, Ordered(c, Listed, n, s),
           Searching(n, s), c' \in CacheType, c'.nodeByKey = c.nodeByKey,
           NEW i \in 1 .. n + 1, Spliced(c, c', n, s, i, call.key),
           \A j \in 1 .. n : IF j < i
                                 THEN Expiry(c, s[j]) <= call.expiresAt
                                 ELSE call.expiresAt <= Expiry(c, s[j])
    PROVE  IInv'
<1>1. /\ Listed = Keys(c) \ {call.key} /\ call.key \in Keys(c)
      /\ Expiry(c, call.key) = call.expiresAt
      /\ n + 1 \in 0 .. Capacity
  BY CapacityPositive DEF Listed, Searching
<1>2. Keys(c) \subseteq Key
  BY DEF TypeOK, Keys
<1>3. Ordered(c', Listed \cup {call.key}, n + 1, With(n, s, i, call.key))
  BY <1>1, <1>2, InsertOrdered
<1>4. Listed \cup {call.key} = Keys(c')
  BY <1>1 DEF Keys
<1> QED
  BY <1>1, <1>3, <1>4, FinishInv

\* The map with nothing in it, as NewExpirationCache and Clear leave it.
LEMMA EmptyMap ==
    /\ NewExpirationCache.nodeByKey \in [{} -> Entry]
    /\ {} \in SUBSET Key
    /\ NewExpirationCache \in CacheType
    /\ Keys(NewExpirationCache) = {}
<1> DEFINE f == NewExpirationCache.nodeByKey
<1>1. f = [k \in {} |-> {}]
  BY DEF NewExpirationCache
<1>2. f \in [{} -> Entry] /\ {} \in SUBSET Key /\ DOMAIN f = {}
  BY <1>1
<1>3. NewExpirationCache =
        [nodeByKey |-> f, head |-> nil, tail |-> nil,
         prev |-> [k \in Key |-> nil], next |-> [k \in Key |-> nil]]
  BY DEF NewExpirationCache
<1> HIDE DEF f
<1>4. NewExpirationCache \in CacheType
  BY <1>2, <1>3 DEF CacheType, Pointer
<1> QED
  BY <1>2, <1>4 DEF Keys, f

\* NewExpirationCache establishes the invariant.
LEMMA InitInv == Init => IInv
<1> SUFFICES ASSUME Init PROVE IInv
  OBVIOUS
<1> DEFINE s == [j \in 1 .. 0 |-> nil]
<1>1. c \in CacheType /\ Keys(c) = {} /\ Listed = {}
  BY EmptyMap DEF Init, Listed
<1>2. c.nodeByKey \in UNION {[S -> Entry] : S \in SUBSET Key}
  BY <1>1 DEF CacheType
<1>3. TypeOK
  BY <1>1, <1>2 DEF Init, TypeOK, CacheType, Pointer
<1>4. Ordered(c, {}, 0, s)
  BY DEF Init, NewExpirationCache, Ordered, Linked, Sorted
<1>5. ListOrdered
  BY <1>1, <1>4, CapacityPositive DEF Init, ListOrdered
<1>6. NoExpiredSurvivor
  BY DEF Init, NoExpiredSurvivor
<1> QED
  BY <1>3, <1>5, <1>6, ListInvOrdered DEF IInv

\* The start of a Set, with pruneExpired at the head.
LEMMA BeginSetInv ==
    ASSUME IInv, NEW method \in Method, NEW k \in Key, NEW v \in Value,
           NEW now \in Time, NEW e \in Time, BeginSet(method, k, v, now, e)
    PROVE  IInv'
<1>1. PICK n \in 0 .. Capacity : \E s : Ordered(c, Listed, n, s)
  BY ListInvOrdered DEF IInv, ListOrdered
<1>2. /\ c' = c /\ Listed' = Listed
      /\ pc' = "prune" /\ mark' = c'.head
  BY DEF BeginSet, Listed, Keys
<1>3. TypeOK'
  BY DEF IInv, TypeOK, BeginSet, Call, CacheType
<1>4. ListOrdered'
  BY <1>1, <1>2 DEF ListOrdered
<1>5. NoExpiredSurvivor'
  BY <1>2 DEF NoExpiredSurvivor
<1> QED
  BY <1>3, <1>4, <1>5, ListInvOrderedNext DEF IInv

\* One iteration of pruneExpired: the head goes, its successor is the head.
LEMMA PruneExpiredInv ==
    ASSUME IInv, PruneExpired PROVE IInv'
<1>1. PICK n \in 0 .. Capacity : \E s :
         Ordered(c, Keys(c), n, s) /\ mark = c.head
  BY ListInvOrdered DEF IInv, ListOrdered, Listed, PruneExpired
<1>2. PICK s : Ordered(c, Keys(c), n, s) /\ mark = c.head
  BY <1>1
<1>3. n \in Nat \ {0} /\ 1 \in 1 .. n /\ n - 1 \in 0 .. Capacity /\ mark = s[1]
  BY <1>2, CapacityPositive DEF PruneExpired, AtExpired, Ordered, Linked
<1>4. c \in CacheType
  BY DEF IInv, TypeOK, CacheType
<1>5. /\ c' \in CacheType
      /\ Ordered(c', Keys(c'), n - 1, Without(n, s, 1))
  BY <1>2, <1>3, <1>4, RemoveOrdered DEF PruneExpired
<1>6. mark \in Keys(c) /\ mark \in Key /\ c.prev[mark] = nil
  BY <1>2, <1>3, <1>4, CacheFields DEF Ordered, Linked
<1>7. c'.next = c.next /\ c'.head = c.next[mark]
  BY <1>4, <1>6, RemoveNodeType DEF PruneExpired, SameLinks, Detach
<1>8. /\ mark' = c'.head /\ pc' = "prune" /\ Listed' = Keys(c')
      /\ c'.head \in Pointer
      /\ c'.nodeByKey \in UNION {[S -> Entry] : S \in SUBSET Key}
  BY <1>5, <1>7 DEF PruneExpired, Listed, Keys, CacheType
<1>9. TypeOK'
  BY <1>5, <1>8 DEF IInv, TypeOK, PruneExpired, CacheType
<1>10. ListOrdered'
  BY <1>3, <1>5, <1>8 DEF ListOrdered
<1>11. NoExpiredSurvivor'
  BY <1>8 DEF NoExpiredSurvivor
<1> QED
  BY <1>9, <1>10, <1>11, ListInvOrderedNext DEF IInv

\* Where pruneExpired stops, everything left in the list is live.
LEMMA PrunedLive ==
    ASSUME TypeOK, call.now \in Int, NEW n, NEW s, Ordered(c, Keys(c), n, s),
           mark = c.head, ~AtExpired
    PROVE  \A k \in Keys(c) : Expiry(c, k) > call.now
<1> TAKE k \in Keys(c)
<1>1. c \in CacheType
  BY DEF TypeOK, CacheType
<1>2. PICK i \in 1 .. n : s[i] = k
  BY DEF Ordered, Linked
<1>3. 1 \in 1 .. n /\ mark = s[1] /\ s[1] \in Keys(c) /\ n \in Nat
  BY <1>2 DEF Ordered, Linked
<1>4. mark # nil
  BY <1>1, <1>3, CacheFields, CacheAssumption
<1>5. Expiry(c, s[1]) <= Expiry(c, k)
  BY <1>1, <1>2, <1>3, ExpiryInt DEF Ordered, Sorted
<1>6. Expiry(c, s[1]) \in Int /\ Expiry(c, k) \in Int
  BY <1>1, <1>3, ExpiryInt
<1> QED
  BY <1>3, <1>4, <1>5, <1>6 DEF AtExpired

\* What getOrCreateNode leaves: the node of key in the map and not in the
\* list, and a place in the list for it.
LEMMA GetOrCreateOrdered ==
    ASSUME NEW d \in CacheType, NEW n \in 0 .. Capacity, NEW s,
           Ordered(d, Keys(d), n, s), NEW k \in Key, NEW entry \in Entry,
           NEW g, g = GetOrCreateNode(d, k, entry)
    PROVE  /\ g \in CacheType /\ k \in Keys(g)
           /\ Expiry(g, k) = entry.expiresAt
           /\ Keys(g) \ {k} \subseteq Keys(d)
           /\ \A j \in Keys(g) \ {k} : Expiry(g, j) = Expiry(d, j)
           /\ \E m \in 0 .. Capacity - 1 : \E t :
                 /\ Ordered(g, Keys(g) \ {k}, m, t)
                 /\ m = 0 => g.prev[k] = nil /\ g.next[k] = nil
<1>1. CASE k \in Keys(d)
  <2> DEFINE e == UpdateNode(d, k, entry)
  <2>1. /\ e \in CacheType /\ Keys(e) = Keys(d) /\ e.nodeByKey[k] = entry
        /\ \A j \in Keys(d) \ {k} : e.nodeByKey[j] = d.nodeByKey[j]
    BY <1>1, UpdateNodeType
  <2>2. /\ \E t : Ordered(e, Keys(d) \ {k}, n - 1, t)
        /\ n = 1 => e.prev[k] = nil /\ e.next[k] = nil
        /\ n \in Nat \ {0}
    BY <1>1, UpdateOrdered
  <2>3. n - 1 \in 0 .. Capacity - 1 /\ (n - 1 = 0 => n = 1)
    BY <2>2, CapacityPositive
  <2>4. GetOrCreateNode(d, k, entry) = e
    BY <1>1 DEF GetOrCreateNode
  <2> HIDE DEF e
  <2>5. \E m \in 0 .. Capacity - 1 : \E t :
           /\ Ordered(e, Keys(e) \ {k}, m, t)
           /\ m = 0 => e.prev[k] = nil /\ e.next[k] = nil
    BY <2>1, <2>2, <2>3
  <2> QED
    BY <1>1, <2>1, <2>4, <2>5 DEF Expiry
<1>2. CASE k \notin Keys(d)
  <2> DEFINE f == PruneOldest(d)
             e == CreateNode(f, k, entry)
  <2>1. /\ f \in CacheType /\ Keys(f) \subseteq Keys(d)
        /\ \A j \in Keys(f) : Expiry(f, j) = Expiry(d, j)
        /\ \E m \in 0 .. Capacity - 1 : \E t : Ordered(f, Keys(f), m, t)
    BY PruneOldestOrdered
  <2>2. k \in Key \ Keys(f)
    BY <1>2, <2>1
  <2>3. PICK m \in 0 .. Capacity - 1 : \E t : Ordered(f, Keys(f), m, t)
    BY <2>1
  <2>4. PICK t : Ordered(f, Keys(f), m, t)
    BY <2>3
  <2> HIDE DEF f
  <2>5. /\ e \in CacheType /\ Keys(e) = Keys(f) \cup {k}
        /\ Ordered(e, Keys(f), m, t)
        /\ e.nodeByKey[k] = entry
        /\ e.prev[k] = nil /\ e.next[k] = nil
        /\ \A j \in Keys(f) : Expiry(e, j) = Expiry(f, j)
    BY <2>1, <2>2, <2>4, CreateOrdered
  <2>6. GetOrCreateNode(d, k, entry) = e
    BY <1>2 DEF GetOrCreateNode, f
  <2> HIDE DEF e
  <2>7. Keys(e) \ {k} = Keys(f)
    BY <2>2, <2>5
  <2> QED
    BY <2>1, <2>5, <2>6, <2>7 DEF Expiry
<1> QED
  BY <1>1, <1>2

\* The rest of getOrCreateNode, from the pruned list to the search.
LEMMA GetOrCreateInv ==
    ASSUME IInv, GetOrCreate PROVE IInv'
<1> DEFINE entry == [value |-> call.value, expiresAt |-> call.expiresAt]
           k == call.key
<1>1. /\ c \in CacheType /\ call \in Call /\ k \in Key /\ entry \in Entry
      /\ call.now \in Int /\ call.expiresAt \in Int
  BY CacheAssumption DEF IInv, TypeOK, CacheType, GetOrCreate, Call, Entry
<1>2. PICK n \in 0 .. Capacity : \E s :
         Ordered(c, Keys(c), n, s) /\ mark = c.head
  BY ListInvOrdered DEF IInv, ListOrdered, Listed, GetOrCreate
<1>3. PICK s : Ordered(c, Keys(c), n, s) /\ mark = c.head
  BY <1>2
<1>4. \A j \in Keys(c) : Expiry(c, j) > call.now
  BY <1>1, <1>3, PrunedLive DEF IInv, GetOrCreate
<1>5. /\ c' \in CacheType /\ k \in Keys(c')
      /\ Expiry(c', k) = call.expiresAt
      /\ Keys(c') \ {k} \subseteq Keys(c)
      /\ \A j \in Keys(c') \ {k} : Expiry(c', j) = Expiry(c, j)
      /\ \E m \in 0 .. Capacity - 1 : \E t :
            /\ Ordered(c', Keys(c') \ {k}, m, t)
            /\ m = 0 => c'.prev[k] = nil /\ c'.next[k] = nil
  <2>1. c' = GetOrCreateNode(c, k, entry) /\ entry.expiresAt = call.expiresAt
    BY DEF GetOrCreate
  <2>2. c \in CacheType /\ k \in Key /\ entry \in Entry
    BY <1>1
  <2> HIDE DEF entry, k
  <2> QED
    BY <1>3, <2>1, <2>2, GetOrCreateOrdered
<1>6. /\ pc' = "search" /\ call' = call /\ committed' = committed
      /\ mark' = IF call.method = "SetFromHead" THEN c'.head ELSE c'.tail
      /\ call.method \in Method
      /\ Listed' = Keys(c') \ {k}
  BY <1>1 DEF GetOrCreate, Listed, Keys, Call
<1> HIDE DEF entry, k
<1>7. TypeOK'
  BY <1>1, <1>5, <1>6 DEF IInv, TypeOK, CacheType, GetOrCreate
<1>8. NoExpiredSurvivor'
  BY <1>4, <1>5, <1>6 DEF NoExpiredSurvivor, Expiry, Keys, k
<1>9. PICK m \in 0 .. Capacity - 1 : \E t :
         /\ Ordered(c', Keys(c') \ {k}, m, t)
         /\ m = 0 => c'.prev[k] = nil /\ c'.next[k] = nil
  BY <1>5
<1>10. PICK t : /\ Ordered(c', Keys(c') \ {k}, m, t)
                /\ m = 0 => c'.prev[k] = nil /\ c'.next[k] = nil
  BY <1>9
<1>11. /\ c'.head = IF m = 0 THEN nil ELSE t[1]
       /\ c'.tail = IF m = 0 THEN nil ELSE t[m]
  BY <1>10 DEF Ordered, Linked
<1>12. Searching(m, t)'
  <2>1. m < Capacity /\ m \in Nat /\ m \in 0 .. Capacity
    BY CapacityPositive
  <2>2. /\ m < Capacity
        /\ call'.key \in Keys(c')
        /\ Expiry(c', call'.key) = call'.expiresAt
        /\ m = 0 => /\ mark' = nil
                    /\ c'.prev[call'.key] = nil
                    /\ c'.next[call'.key] = nil
    BY <2>1, <1>5, <1>6, <1>10, <1>11 DEF k
  <2>3. ASSUME m > 0
        PROVE  \E i \in 1 .. m :
                  /\ mark' = t[i]
                  /\ call'.method = "SetFromHead" => i = 1
                  /\ call'.method = "SetFromTail" => i = m
    <3>1. CASE call.method = "SetFromHead"
      BY <2>1, <2>3, <3>1, <1>6, <1>11
    <3>2. CASE call.method = "SetFromTail"
      BY <2>1, <2>3, <3>2, <1>6, <1>11
    <3> QED
      BY <3>1, <3>2, <1>6 DEF Method
  <2>4. ASSUME m > 0
        PROVE  \E i \in 1 .. m :
           /\ mark' = t[i]
           /\ \A j \in 1 .. m :
                 /\ call'.method = "SetFromHead" /\ j < i =>
                        Expiry(c', t[j]) <= call'.expiresAt
                 /\ call'.method = "SetFromTail" /\ i < j =>
                        call'.expiresAt <= Expiry(c', t[j])
    BY <2>1, <2>3, <2>4
  <2> QED
    BY <2>2, <2>4 DEF Searching
<1>13. ListOrdered'
  BY <1>6, <1>10, <1>12, CapacityPositive DEF ListOrdered
<1> QED
  BY <1>7, <1>8, <1>13, ListInvOrderedNext DEF IInv

\* What the steps of a search start from.
LEMMA SearchContext ==
    ASSUME IInv, pc = "search"
    PROVE  /\ c \in CacheType /\ call \in Call
           /\ call.key \in Key \ Listed /\ Listed \in SUBSET Key
           /\ \A k \in Listed : Expiry(c, k) \in Int
           /\ call.expiresAt \in Int
           /\ \E n \in 0 .. Capacity : \E s :
                 Ordered(c, Listed, n, s) /\ Searching(n, s)
<1>1. c \in CacheType /\ call \in Call
  BY DEF IInv, TypeOK, CacheType
<1>2. call.key \in Key \ Listed /\ Listed \in SUBSET Key /\ Listed \subseteq Keys(c)
  BY <1>1, CacheFields DEF Listed, Call
<1>3. call.expiresAt \in Int
  BY <1>1, CacheAssumption DEF Call
<1> QED
  BY <1>1, <1>2, <1>3, ExpiryInt, ListInvOrdered DEF IInv, ListOrdered

\* The Set that finds an empty list.
LEMMA InsertFirstInv ==
    ASSUME IInv, InsertFirst PROVE IInv'
<1>1. pc = "search" /\ mark = nil /\ c' = InsertOnly(c, call.key) /\ Finish
  BY DEF InsertFirst
<1>2. PICK n \in 0 .. Capacity : \E s :
         Ordered(c, Listed, n, s) /\ Searching(n, s)
  BY <1>1, SearchContext
<1>3. PICK s : Ordered(c, Listed, n, s) /\ Searching(n, s)
  BY <1>2
<1>4. /\ c \in CacheType /\ call.key \in Key /\ Listed \in SUBSET Key
  BY <1>1, SearchContext
<1>5. n = 0 /\ c.prev[call.key] = nil /\ c.next[call.key] = nil
  BY <1>1, <1>3, <1>4, CacheAssumption DEF Searching, Ordered
<1>6. Spliced(c, c', n, s, 1, call.key)
  BY <1>1, <1>4, <1>5, InsertOnlyLinked
<1>7. c' \in CacheType /\ c'.nodeByKey = c.nodeByKey
  BY <1>1, <1>4, InsertType
<1>8. 1 \in 1 .. n + 1 /\ ~ \E j \in 1 .. n : TRUE
  BY <1>5
<1> QED
  BY <1>1, <1>3, <1>5, <1>6, <1>7, <1>8, FinishSetInv DEF IInv

\* An insertion next to a node of the list, at a place that keeps the order.
LEMMA InsertAtInv ==
    ASSUME IInv, pc = "search", Finish,
           NEW n \in 0 .. Capacity, NEW s,
           Ordered(c, Listed, n, s), Searching(n, s),
           NEW i \in 1 .. n, NEW place \in {i, i + 1},
           c' = IF place = i THEN InsertBefore(c, call.key, s[i])
                             ELSE InsertAfter(c, call.key, s[i]),
           \A j \in 1 .. n : IF j < place
                                 THEN Expiry(c, s[j]) <= call.expiresAt
                                 ELSE call.expiresAt <= Expiry(c, s[j])
    PROVE  IInv'
<1>1. /\ c \in CacheType /\ call.key \in Key \ Listed
      /\ Listed \in SUBSET Key /\ s[i] \in Key
      /\ n \in Nat /\ s \in [1 .. n -> Listed] /\ Linked(c, Listed, n, s)
  BY SearchContext DEF Ordered
<1>2. place \in 1 .. n + 1
  BY <1>1
<1>3. c' \in CacheType /\ c'.nodeByKey = c.nodeByKey
  BY <1>1, InsertType
<1>4. Spliced(c, c', n, s, place, call.key)
  <2>1. CASE place = i
    BY <2>1, <1>1, InsertBeforeLinked
  <2>2. CASE place = i + 1
    BY <2>2, <1>1, InsertAfterLinked
  <2> QED
    BY <2>1, <2>2
<1> QED
  BY <1>2, <1>3, <1>4, FinishSetInv DEF IInv

\* A search that goes on: the mark moves and nothing else does.
LEMMA AdvanceInv ==
    ASSUME IInv, pc = "search",
           NEW n \in 0 .. Capacity, NEW s,
           Ordered(c, Listed, n, s), Searching(n, s)',
           mark' \in Pointer, UNCHANGED <<c, pc, call, committed>>
    PROVE  IInv'
<1>1. Listed' = Listed /\ c' = c /\ pc' = "search"
  BY DEF Listed, Keys
<1>2. TypeOK'
  BY DEF IInv, TypeOK
<1>3. ListOrdered'
  BY <1>1 DEF ListOrdered
<1>4. NoExpiredSurvivor'
  BY <1>1 DEF IInv, NoExpiredSurvivor, Keys, Expiry
<1> QED
  BY <1>2, <1>3, <1>4, ListInvOrderedNext DEF IInv

\* The list around its i-th node.
Around(d, n, s, i) ==
    /\ \A j \in 1 .. n : s[j] \in Key /\ s[j] # nil
    /\ \A j, m \in 1 .. n : j < m => Expiry(d, s[j]) <= Expiry(d, s[m])
    /\ d.head = s[1] /\ d.tail = s[n] /\ n \in 1 .. n /\ 1 \in 1 .. n
    /\ d.prev[s[i]] = IF i = 1 THEN nil ELSE s[i - 1]
    /\ d.next[s[i]] = IF i = n THEN nil ELSE s[i + 1]

\* A node of an ordered list and its neighbours.
LEMMA OrderedAround ==
    ASSUME NEW d, NEW S \in SUBSET Key, NEW n, NEW s, Ordered(d, S, n, s),
           NEW i \in 1 .. n
    PROVE  Around(d, n, s, i)
<1>1. n \in Nat /\ \A j \in 1 .. n : s[j] \in S
  BY DEF Ordered
<1>2. \A j \in 1 .. n : s[j] \in Key /\ s[j] # nil
  BY <1>1, CacheAssumption
<1>3. \A j, m \in 1 .. n : j < m => Expiry(d, s[j]) <= Expiry(d, s[m])
  BY DEF Ordered, Sorted
<1>4. n \in 1 .. n /\ 1 \in 1 .. n
  BY <1>1
<1> QED
  BY <1>1, <1>2, <1>3, <1>4 DEF Ordered, Linked, Around

\* SetFromHead: everything passed expires no later than the new node.
LEMMA SearchFromHeadInv ==
    ASSUME IInv, SearchFromHead PROVE IInv'
<1>1. pc = "search" /\ call.method = "SetFromHead" /\ mark # nil
  BY DEF SearchFromHead
<1>2. PICK n \in 0 .. Capacity : \E s :
         Ordered(c, Listed, n, s) /\ Searching(n, s)
  BY <1>1, SearchContext
<1>3. PICK s : Ordered(c, Listed, n, s) /\ Searching(n, s)
  BY <1>2
<1>4. /\ n \in Nat /\ s \in [1 .. n -> Listed]
      /\ \A k \in Listed : Expiry(c, k) \in Int
      /\ call.expiresAt \in Int
  BY <1>1, <1>3, SearchContext DEF Ordered
<1>5. PICK i \in 1 .. n :
         /\ mark = s[i]
         /\ \A j \in 1 .. n : j < i => Expiry(c, s[j]) <= call.expiresAt
  BY <1>1, <1>3, <1>4 DEF Searching
<1>6. /\ \A j \in 1 .. n : s[j] \in Key /\ s[j] # nil
                            /\ Expiry(c, s[j]) \in Int
      /\ \A j, m \in 1 .. n : j < m => Expiry(c, s[j]) <= Expiry(c, s[m])
      /\ c.tail = s[n] /\ n \in 1 .. n
      /\ c.next[mark] = IF i = n THEN nil ELSE s[i + 1]
  <2>1. Listed \in SUBSET Key
    BY <1>1, SearchContext
  <2>2. \A j \in 1 .. n : Expiry(c, s[j]) \in Int
    BY <1>4
  <2>3. Around(c, n, s, i)
    BY <2>1, <1>3, OrderedAround
  <2> QED
    BY <2>2, <2>3, <1>5 DEF Around
<1>7. CASE /\ call.expiresAt < Expiry(c, mark)
           /\ c' = InsertBefore(c, call.key, mark)
           /\ Finish
  <2>1. \A j \in 1 .. n : IF j < i THEN Expiry(c, s[j]) <= call.expiresAt
                                   ELSE call.expiresAt <= Expiry(c, s[j])
    BY <1>4, <1>5, <1>6, <1>7
  <2> QED
    BY <2>1, <1>1, <1>3, <1>5, <1>7, InsertAtInv
<1>8. CASE /\ call.expiresAt >= Expiry(c, mark)
           /\ c.next[mark] = nil
           /\ c' = InsertAfter(c, call.key, c.tail)
           /\ Finish
  <2>1. i = n
    BY <1>6, <1>8
  <2>2. \A j \in 1 .. n : IF j < n + 1
                              THEN Expiry(c, s[j]) <= call.expiresAt
                              ELSE call.expiresAt <= Expiry(c, s[j])
    BY <2>1, <1>4, <1>5, <1>6, <1>8
  <2>3. c' = IF n + 1 = n THEN InsertBefore(c, call.key, s[n])
                          ELSE InsertAfter(c, call.key, s[n])
    BY <1>4, <1>6, <1>8
  <2> QED
    BY <2>2, <2>3, <1>1, <1>3, <1>6, <1>8, InsertAtInv
<1>9. CASE /\ call.expiresAt >= Expiry(c, mark)
           /\ c.next[mark] # nil
           /\ mark' = c.next[mark]
           /\ UNCHANGED <<c, pc, call, committed>>
  <2>1. i # n /\ mark' = s[i + 1] /\ i + 1 \in 1 .. n
    BY <1>4, <1>6, <1>9
  <2>2. \A j \in 1 .. n : j < i + 1 => Expiry(c, s[j]) <= call.expiresAt
    BY <1>4, <1>5, <1>6, <1>9
  <2>3. /\ call'.method # "SetFromTail"
        /\ c' = c /\ call' = call
    BY <1>1, <1>9
  <2>4. Searching(n, s)'
    BY <2>1, <2>2, <2>3, <1>3, <1>4 DEF Searching, Keys, Expiry
  <2>5. mark' \in Pointer
    BY <2>1, <1>6 DEF Pointer
  <2> QED
    BY <2>4, <2>5, <1>1, <1>3, <1>9, AdvanceInv
<1> QED
  BY <1>7, <1>8, <1>9 DEF SearchFromHead

\* SetFromTail: everything passed expires no earlier than the new node.
LEMMA SearchFromTailInv ==
    ASSUME IInv, SearchFromTail PROVE IInv'
<1>1. pc = "search" /\ call.method = "SetFromTail" /\ mark # nil
  BY DEF SearchFromTail
<1>2. PICK n \in 0 .. Capacity : \E s :
         Ordered(c, Listed, n, s) /\ Searching(n, s)
  BY <1>1, SearchContext
<1>3. PICK s : Ordered(c, Listed, n, s) /\ Searching(n, s)
  BY <1>2
<1>4. /\ n \in Nat /\ s \in [1 .. n -> Listed]
      /\ \A k \in Listed : Expiry(c, k) \in Int
      /\ call.expiresAt \in Int
  BY <1>1, <1>3, SearchContext DEF Ordered
<1>5. PICK i \in 1 .. n :
         /\ mark = s[i]
         /\ \A j \in 1 .. n : i < j => call.expiresAt <= Expiry(c, s[j])
  BY <1>1, <1>3, <1>4 DEF Searching
<1>6. /\ \A j \in 1 .. n : s[j] \in Key /\ s[j] # nil
                            /\ Expiry(c, s[j]) \in Int
      /\ \A j, m \in 1 .. n : j < m => Expiry(c, s[j]) <= Expiry(c, s[m])
      /\ c.head = s[1] /\ 1 \in 1 .. n
      /\ c.prev[mark] = IF i = 1 THEN nil ELSE s[i - 1]
  <2>1. Listed \in SUBSET Key
    BY <1>1, SearchContext
  <2>2. \A j \in 1 .. n : Expiry(c, s[j]) \in Int
    BY <1>4
  <2>3. Around(c, n, s, i)
    BY <2>1, <1>3, OrderedAround
  <2> QED
    BY <2>2, <2>3, <1>5 DEF Around
<1>7. CASE /\ call.expiresAt > Expiry(c, mark)
           /\ c' = InsertAfter(c, call.key, mark)
           /\ Finish
  <2>1. \A j \in 1 .. n : IF j < i + 1
                              THEN Expiry(c, s[j]) <= call.expiresAt
                              ELSE call.expiresAt <= Expiry(c, s[j])
    <3> SUFFICES ASSUME NEW j \in 1 .. n
                 PROVE  IF j < i + 1
                            THEN Expiry(c, s[j]) <= call.expiresAt
                            ELSE call.expiresAt <= Expiry(c, s[j])
      OBVIOUS
    <3>1. CASE i < j
      BY <1>4, <1>5, <3>1
    <3>2. CASE j = i
      BY <1>4, <1>5, <1>6, <1>7, <3>2
    <3>3. CASE j < i
      <4>1. Expiry(c, s[j]) <= Expiry(c, s[i])
        BY <1>6, <3>3
      <4> QED
        BY <1>4, <1>5, <1>6, <1>7, <3>3, <4>1
    <3> QED
      BY <1>4, <3>1, <3>2, <3>3
  <2>2. c' = IF i + 1 = i THEN InsertBefore(c, call.key, s[i])
                          ELSE InsertAfter(c, call.key, s[i])
    BY <1>5, <1>7
  <2> QED
    BY <2>1, <2>2, <1>1, <1>3, <1>5, <1>7, InsertAtInv
<1>8. CASE /\ call.expiresAt <= Expiry(c, mark)
           /\ c.prev[mark] = nil
           /\ c' = InsertBefore(c, call.key, c.head)
           /\ Finish
  <2>1. i = 1
    BY <1>6, <1>8
  <2>2. \A j \in 1 .. n : IF j < 1 THEN Expiry(c, s[j]) <= call.expiresAt
                                   ELSE call.expiresAt <= Expiry(c, s[j])
    BY <2>1, <1>4, <1>5, <1>6, <1>8
  <2> QED
    BY <2>2, <1>1, <1>3, <1>6, <1>8, InsertAtInv
<1>9. CASE /\ call.expiresAt <= Expiry(c, mark)
           /\ c.prev[mark] # nil
           /\ mark' = c.prev[mark]
           /\ UNCHANGED <<c, pc, call, committed>>
  <2>1. i # 1 /\ mark' = s[i - 1] /\ i - 1 \in 1 .. n
    BY <1>4, <1>6, <1>9
  <2>2. \A j \in 1 .. n : i - 1 < j => call.expiresAt <= Expiry(c, s[j])
    BY <1>4, <1>5, <1>6, <1>9
  <2>3. /\ call'.method # "SetFromHead"
        /\ c' = c /\ call' = call
    BY <1>1, <1>9
  <2>4. Searching(n, s)'
    BY <2>1, <2>2, <2>3, <1>3, <1>4 DEF Searching, Keys, Expiry
  <2>5. mark' \in Pointer
    BY <2>1, <1>6 DEF Pointer
  <2> QED
    BY <2>4, <2>5, <1>1, <1>3, <1>9, AdvanceInv
<1> QED
  BY <1>7, <1>8, <1>9 DEF SearchFromTail

\* Remove of a key that is present.
LEMMA RemoveInv ==
    ASSUME IInv, NEW k \in Key, Remove(k) PROVE IInv'
<1>1. PICK n \in 0 .. Capacity : \E s : Ordered(c, Keys(c), n, s)
  BY ListInvOrdered DEF IInv, ListOrdered, Listed, Remove
<1>2. PICK s : Ordered(c, Keys(c), n, s)
  BY <1>1
<1>3. PICK i \in 1 .. n : s[i] = k
  BY <1>2 DEF Remove, Ordered, Linked
<1>4. c \in CacheType /\ n \in Nat
  BY <1>2 DEF IInv, TypeOK, CacheType, Ordered
<1>5. /\ c' \in CacheType /\ Finish
      /\ Ordered(c', Keys(c'), n - 1, Without(n, s, i))
  BY <1>2, <1>3, <1>4, RemoveOrdered DEF Remove
<1>6. n - 1 \in 0 .. Capacity
  BY <1>3, <1>4, CapacityPositive
<1> QED
  BY <1>5, <1>6, FinishInv

\* Clear, which forgets the nodes without unlinking them.
LEMMA ClearInv ==
    ASSUME IInv, Clear PROVE IInv'
<1> DEFINE f == NewExpirationCache.nodeByKey
           s == [j \in 1 .. 0 |-> nil]
<1>1. c \in CacheType
  BY DEF IInv, TypeOK, CacheType
<1>2. f \in [{} -> Entry] /\ {} \in SUBSET Key
  BY EmptyMap
<1>3. Finish /\ c' = [c EXCEPT !.nodeByKey = f, !.head = nil, !.tail = nil]
  BY DEF Clear
<1> HIDE DEF f
<1>4. /\ c'.nodeByKey = f /\ c'.head = nil /\ c'.tail = nil
      /\ c'.prev = c.prev /\ c'.next = c.next
      /\ c' = [nodeByKey |-> f, head |-> nil, tail |-> nil,
               prev |-> c.prev, next |-> c.next]
  BY <1>1, <1>3 DEF CacheType
<1>5. c' \in CacheType /\ Keys(c') = {}
  BY <1>1, <1>2, <1>4 DEF CacheType, Keys, Pointer
<1>6. Ordered(c', Keys(c'), 0, s)
  BY <1>4, <1>5 DEF Ordered, Linked, Sorted
<1>7. 0 \in 0 .. Capacity
  BY CapacityPositive
<1> QED
  BY <1>3, <1>5, <1>6, <1>7, FinishInv

-----------------------------------------------------------------------------
(* The theorems.                                                           *)

\* Every call, and every step inside a call, preserves the invariant.
THEOREM StepInv == IInv /\ [Next]_vars => IInv'
<1> SUFFICES ASSUME IInv, [Next]_vars PROVE IInv'
  OBVIOUS
<1>1. CASE \E method \in Method, k \in Key, v \in Value, now, e \in Time :
              BeginSet(method, k, v, now, e)
  BY <1>1, BeginSetInv
<1>2. CASE PruneExpired
  BY <1>2, PruneExpiredInv
<1>3. CASE GetOrCreate
  BY <1>3, GetOrCreateInv
<1>4. CASE InsertFirst
  BY <1>4, InsertFirstInv
<1>5. CASE SearchFromHead
  BY <1>5, SearchFromHeadInv
<1>6. CASE SearchFromTail
  BY <1>6, SearchFromTailInv
<1>7. CASE \E k \in Key : Remove(k)
  BY <1>7, RemoveInv
<1>8. CASE Clear
  BY <1>8, ClearInv
<1>9. CASE UNCHANGED vars
  <2>1. Listed' = Listed
    BY <1>9 DEF vars, Listed, Keys
  <2>2. TypeOK'
    BY <1>9 DEF IInv, TypeOK, vars
  <2>3. ListOrdered => ListOrdered'
    BY <1>9, <2>1 DEF ListOrdered, vars, Searching, Keys, Expiry
  <2>4. NoExpiredSurvivor'
    BY <1>9 DEF IInv, NoExpiredSurvivor, vars, Keys, Expiry
  <2> QED
    BY <2>2, <2>3, <2>4, ListInvOrdered, ListInvOrderedNext DEF IInv
<1> QED
  BY <1>1, <1>2, <1>3, <1>4, <1>5, <1>6, <1>7, <1>8, <1>9 DEF Next, Step

\* The list of cache.go is sound at every step of every behaviour.
THEOREM Invariance == Spec => []IInv
BY InitInv, StepInv, PTL DEF Spec

\* Every variable keeps its type through every call.
THEOREM TypeCorrect == Spec => []TypeOK
<1>1. IInv => TypeOK
  BY DEF IInv
<1> QED
  BY <1>1, Invariance, PTL

\* The map and the doubly linked list agree, and the list is in order of
\* expiration, at every step of every call of cache.go that writes.
THEOREM ListCorrect == Spec => []ListInv
<1>1. IInv => ListInv
  BY DEF IInv
<1> QED
  BY <1>1, Invariance, PTL

\* pruneExpired, which stops at the first live node, has removed every
\* expired one when getOrCreateNode goes on to store the new entry.
THEOREM PruneCorrect == Spec => []NoExpiredSurvivor
<1>1. IInv => NoExpiredSurvivor
  BY DEF IInv
<1> QED
  BY <1>1, Invariance, PTL

\* From start, the links lead from each element of t to the next, and nowhere
\* from the last.
Path(start, link, S, n, t) ==
    /\ n \in Nat /\ nil \notin S /\ t \in [1 .. n -> S]
    /\ start = IF n = 0 THEN nil ELSE t[1]
    /\ \A i \in 1 .. n : link[t[i]] = IF i = n THEN nil ELSE t[i + 1]

\* A walk along such links meets t, if there are as many keys as t has elements.
LEMMA WalkMeets ==
    ASSUME NEW start, NEW link, NEW S, NEW n, NEW t, Path(start, link, S, n, t),
           Cardinality(Keys(c)) = n
    PROVE  Walk(start, link) = t
<1>0. /\ n \in Nat /\ nil \notin S /\ t \in [1 .. n -> S]
      /\ start = IF n = 0 THEN nil ELSE t[1]
      /\ \A i \in 1 .. n : link[t[i]] = IF i = n THEN nil ELSE t[i + 1]
  BY DEF Path
<1> DEFINE F(f) == f = [i \in 1 .. n + 1 |->
                           IF i = 1 THEN start
                                    ELSE IF f[i - 1] = nil THEN nil ELSE link[f[i - 1]]]
           m == [i \in 1 .. n + 1 |-> IF i <= n THEN t[i] ELSE nil]
           met == CHOOSE f : F(f)
<1>1. \A i \in 1 .. n : m[i] = t[i] /\ m[i] \in S /\ m[i] # nil
  BY <1>0
<1>2. m[n + 1] = nil
  BY <1>0
<1>3. DOMAIN m = 1 .. n + 1
  OBVIOUS
<1> HIDE DEF m
<1>4. \A i \in 1 .. n + 1 :
         m[i] = IF i = 1 THEN start ELSE IF m[i - 1] = nil THEN nil ELSE link[m[i - 1]]
  <2> TAKE i \in 1 .. n + 1
  <2>1. CASE i = 1
    BY <1>0, <1>1, <1>2, <2>1
  <2>2. CASE i # 1
    <3>1. i - 1 \in 1 .. n /\ (i - 1) + 1 = i /\ (i - 1 = n <=> i = n + 1) /\ (i # n + 1 => i \in 1 .. n)
      BY <1>0, <2>2
    <3>2. m[i - 1] = t[i - 1] /\ m[i - 1] # nil
      BY <1>1, <3>1
    <3>3. link[t[i - 1]] = IF i - 1 = n THEN nil ELSE t[i]
      BY <1>0, <3>1
    <3>4. m[i] = IF i - 1 = n THEN nil ELSE t[i]
      BY <1>1, <1>2, <3>1
    <3> QED
      BY <2>2, <3>2, <3>3, <3>4
  <2> QED
    BY <2>1, <2>2
<1>5. F(m)
  BY <1>3, <1>4 DEF m
<1>6. F(met)
  BY <1>5, Zenon
<1> HIDE DEF met
<1>7. DOMAIN met = 1 .. n + 1
      /\ \A i \in 1 .. n + 1 :
         met[i] = IF i = 1 THEN start ELSE IF met[i - 1] = nil THEN nil ELSE link[met[i - 1]]
  <2>1. DOMAIN met = 1 .. n + 1
    BY <1>6, Zenon
  <2>2. ASSUME NEW i \in 1 .. n + 1
        PROVE  met[i] = IF i = 1 THEN start
                        ELSE IF met[i - 1] = nil THEN nil ELSE link[met[i - 1]]
    BY <1>6, Zenon
  <2> QED
    BY <2>1, <2>2
<1> HIDE DEF F
<1> DEFINE T == {i \in 1 .. n + 1 : met[i] # m[i]}
<1>8. T = {}
  <2>1. SUFFICES ASSUME T # {} PROVE FALSE
    OBVIOUS
  <2>2. T \in SUBSET Nat
    BY <1>0
  <2>3. PICK i \in T : \A j \in T : i <= j
    <3> HIDE DEF T
    <3> QED
      BY <2>1, <2>2, LeastNatural
  <2>4. i \in 1 .. n + 1 /\ met[i] # m[i]
    OBVIOUS
  <2>5. CASE i = 1
    BY <1>0, <1>4, <1>7, <2>4, <2>5
  <2>6. CASE i # 1
    <3>1. i - 1 \in 1 .. n + 1 /\ ~(i <= i - 1)
      BY <1>0, <2>4, <2>6
    <3>2. met[i - 1] = m[i - 1]
      BY <2>3, <3>1
    <3> HIDE DEF T
    <3> QED
      BY <1>0, <1>4, <1>7, <2>4, <2>6, <3>2
  <2> QED
    BY <2>5, <2>6
<1>9. {j \in DOMAIN met : met[j] # nil} = 1 .. n
  <2>1. \A j \in 1 .. n + 1 : met[j] = m[j]
    BY <1>8, Zenon
  <2>2. DOMAIN met = 1 .. n + 1
    BY <1>7, Zenon
  <2>3. \A j \in 1 .. n + 1 : j \in 1 .. n \/ j = n + 1
    BY <1>0
  <2>4. 1 .. n \subseteq 1 .. n + 1 /\ n + 1 \in 1 .. n + 1
    BY <1>0
  <2>5. ASSUME NEW j \in 1 .. n + 1
        PROVE  met[j] # nil <=> j \in 1 .. n
    <3>1. CASE j \in 1 .. n
      BY <1>1, <2>1, <3>1, Zenon
    <3>2. CASE j = n + 1
      <4>1. j \notin 1 .. n
        BY <1>0, <3>2
      <4> QED
        BY <1>2, <2>1, <3>2, <4>1, Zenon
    <3> QED
      BY <2>3, <3>1, <3>2
  <2> HIDE DEF T
  <2> QED
    BY <2>2, <2>4, <2>5, Zenon
<1>10. \A i \in 1 .. n : met[i] = t[i]
  BY <1>0, <1>1, <1>8
<1>11. Cardinality(1 .. n) = n
  BY <1>0, FS_Interval
<1>12. Walk(start, link) = [i \in 1 .. Cardinality({j \in DOMAIN met : met[j] # nil}) |-> met[i]]
  BY DEF Walk, met, F
<1>13. Walk(start, link) = [i \in 1 .. n |-> met[i]]
  BY <1>9, <1>11, <1>12
<1> QED
  BY <1>0, <1>10, <1>13

\* Between calls, All goes through the entries of the map once, from the
\* earliest expiration to the latest, and Backward through the same in reverse:
\* the links in both directions are those of one list.
THEOREM IteratorsCorrect == Spec => []IteratorsAgree
<1>1. IInv => IteratorsAgree
  <2> SUFFICES ASSUME IInv, pc = "idle" PROVE IteratorsAgree!2
    BY DEF IteratorsAgree
  <2> DEFINE K == Keys(c)
  <2>1. PICK n \in 0 .. Capacity : \E s : Ordered(c, Listed, n, s)
    BY ListInvOrdered, Zenon DEF IInv, ListOrdered
  <2>2. PICK s : Ordered(c, K, n, s)
    BY <2>1, Zenon DEF Listed
  <2>3. Cardinality(K) = n
    BY <2>2, OrderedCardinality
  <2>4. n \in Nat /\ nil \notin K
    BY <2>1, CapacityPositive, CacheAssumption DEF IInv, TypeOK, Keys
  <2>5. s \in [1 .. n -> K] /\ Linked(c, K, n, s) /\ Sorted(c, n, s)
    BY <2>2, Zenon DEF Ordered
  <2> HIDE DEF K
  <2>6. All = s
    <3>1. c.head = IF n = 0 THEN nil ELSE s[1]
      BY <2>5, Zenon DEF Linked
    <3>2. \A i \in 1 .. n : c.next[s[i]] = IF i = n THEN nil ELSE s[i + 1]
      BY <2>5, Zenon DEF Linked
    <3>3. Path(c.head, c.next, K, n, s)
      BY <2>4, <2>5, <3>1, <3>2, Zenon DEF Path
    <3> QED
      BY <2>3, <3>3, WalkMeets, Zenon DEF All, K
  <2> DEFINE r == [i \in 1 .. n |-> s[n + 1 - i]]
  <2>7. r \in [1 .. n -> K] /\ \A i \in 1 .. n : r[n + 1 - i] = s[i] /\ r[i] = s[n + 1 - i]
    BY <2>4, <2>5
  <2> HIDE DEF r
  <2>8. Backward = r
    <3>1. c.tail = IF n = 0 THEN nil ELSE r[1]
      BY <2>4, <2>5, <2>7 DEF Linked
    <3>2. ASSUME NEW i \in 1 .. n
          PROVE  c.prev[r[i]] = IF i = n THEN nil ELSE r[i + 1]
      <4>1. /\ n + 1 - i \in 1 .. n /\ (n + 1 - i = 1 <=> i = n)
            /\ i # n => i + 1 \in 1 .. n /\ n + 1 - (i + 1) = (n + 1 - i) - 1
        BY <2>4
      <4>2. c.prev[s[n + 1 - i]] = IF n + 1 - i = 1 THEN nil ELSE s[(n + 1 - i) - 1]
        BY <2>5, <4>1, Zenon DEF Linked
      <4> QED
        BY <2>7, <4>1, <4>2
    <3>3. Path(c.tail, c.prev, K, n, r)
      BY <2>4, <2>7, <3>1, <3>2, Zenon DEF Path
    <3> QED
      BY <2>3, <3>3, WalkMeets, Zenon DEF Backward, K
  <2>9. Len(s) = n /\ Len(r) = n
    BY <2>4, <2>5, <2>7
  <2>10. {s[i] : i \in 1 .. n} = K
    BY <2>5 DEF Linked
  <2> QED
    BY <2>3, <2>5, <2>6, <2>7, <2>8, <2>9, <2>10 DEF K
<1> QED
  BY <1>1, Invariance, PTL

\* The cache never holds more entries than its capacity, not even between
\* the insertion into the map and the insertion into the list.
THEOREM CapacityCorrect == Spec => []WithinCapacity
<1>1. IInv => WithinCapacity
  <2> SUFFICES ASSUME IInv PROVE WithinCapacity
    OBVIOUS
  <2>1. PICK n \in 0 .. Capacity : \E s :
           /\ Ordered(c, Listed, n, s)
           /\ pc = "search" => Searching(n, s)
    BY ListInvOrdered DEF IInv, ListOrdered
  <2>2. PICK s : /\ Ordered(c, Listed, n, s)
                 /\ pc = "search" => Searching(n, s)
    BY <2>1
  <2>3. IsFiniteSet(Listed) /\ Cardinality(Listed) = n
    BY <2>2, OrderedCardinality
  <2>4. CASE pc # "search"
    BY <2>3, <2>4, CapacityPositive DEF Listed, WithinCapacity
  <2>5. CASE pc = "search"
    <3>1. /\ n < Capacity /\ Keys(c) = Listed \cup {call.key}
          /\ call.key \notin Listed
      BY <2>2, <2>5 DEF Searching, Listed
    <3>2. Cardinality(Keys(c)) = n + 1
      BY <2>3, <3>1, FS_AddElement
    <3> QED
      BY <3>1, <3>2, CapacityPositive DEF WithinCapacity
  <2> QED
    BY <2>4, <2>5
<1> QED
  BY <1>1, Invariance, PTL

\* An iteration of pruneExpired leaves fewer entries than it found.
LEMMA PruningMovesOn ==
    ASSUME IInv, PruneExpired
    PROVE  mark \in Keys(c) /\ Keys(c') \subseteq Keys(c) \ {mark}
<1>1. c \in CacheType
  BY DEF IInv, TypeOK, CacheType
<1>2. PICK n \in 0 .. Capacity : \E s : Ordered(c, Keys(c), n, s) /\ mark = c.head
  BY ListInvOrdered DEF IInv, ListOrdered, Listed, PruneExpired
<1>3. PICK s : Ordered(c, Keys(c), n, s) /\ mark = c.head
  BY <1>2
<1>4. n \in Nat \ {0} /\ 1 \in 1 .. n /\ mark = s[1]
  BY <1>3, CapacityPositive DEF PruneExpired, AtExpired, Ordered, Linked
<1>5. mark \in Keys(c) /\ mark \in Key
  BY <1>1, <1>3, <1>4, CacheFields DEF Ordered
<1> QED
  BY <1>1, <1>5, RemoveNodeType DEF PruneExpired

\* The step of a search from one node of the list to the next in its direction.
Advances ==
    /\ c' = c
    /\ \E n \in 0 .. Capacity : \E s \in [1 .. n -> Listed] :
          /\ Linked(c, Listed, n, s)
          /\ \E i, j \in 1 .. n :
                /\ mark = s[i] /\ mark' = s[j]
                /\ IF call.method = "SetFromHead" THEN j = i + 1 ELSE j = i - 1

\* An iteration of a search that does not end it goes on by one node.
LEMMA SearchMovesOn ==
    ASSUME IInv, SearchFromHead \/ SearchFromTail, pc' = "search"
    PROVE  Advances
<1>1. pc = "search" /\ mark # nil
  BY DEF SearchFromHead, SearchFromTail
<1>2. PICK n \in 0 .. Capacity : \E s : Ordered(c, Listed, n, s) /\ Searching(n, s)
  BY <1>1, SearchContext
<1>3. PICK s : Ordered(c, Listed, n, s) /\ Searching(n, s)
  BY <1>2
<1>4. n \in Nat /\ s \in [1 .. n -> Listed] /\ Linked(c, Listed, n, s)
  BY <1>3 DEF Ordered
<1>5. PICK i \in 1 .. n : mark = s[i]
  BY <1>1, <1>3, <1>4 DEF Searching
<1>6. Around(c, n, s, i)
  BY <1>1, <1>3, SearchContext, OrderedAround
<1>7. CASE SearchFromHead
  <2>1. /\ call.method = "SetFromHead" /\ c' = c
        /\ c.next[mark] # nil /\ mark' = c.next[mark]
    BY <1>7 DEF SearchFromHead, Finish
  <2>2. i + 1 \in 1 .. n /\ mark' = s[i + 1]
    BY <1>4, <1>5, <1>6, <2>1 DEF Around
  <2> QED
    BY <1>4, <1>5, <2>1, <2>2 DEF Advances
<1>8. CASE SearchFromTail
  <2>1. /\ call.method = "SetFromTail" /\ c' = c
        /\ c.prev[mark] # nil /\ mark' = c.prev[mark]
    BY <1>8 DEF SearchFromTail, Finish
  <2>2. i - 1 \in 1 .. n /\ mark' = s[i - 1]
    BY <1>4, <1>5, <1>6, <2>1 DEF Around
  <2> QED
    BY <1>4, <1>5, <2>1, <2>2 DEF Advances
<1> QED
  BY <1>7, <1>8

\* No loop of cache.go stands still, runs in a circle or turns back:
\* pruneExpired goes on with fewer entries, a search by one node of the list.
THEOREM LoopsAdvance == Spec => LoopsMoveOn
<1> DEFINE Moves == /\ pc = "prune" /\ pc' = "prune" =>
                           Keys(c') \subseteq Keys(c) \ {mark} /\ mark \in Keys(c)
                    /\ pc = "search" /\ pc' = "search" => Advances
<1>1. IInv /\ [Next]_vars => [Moves]_vars
  <2> SUFFICES ASSUME IInv, Next PROVE Moves
    OBVIOUS
  <2>1. CASE \E method \in Method, k \in Key, v \in Value, now, e \in Time :
                BeginSet(method, k, v, now, e)
    BY <2>1 DEF BeginSet
  <2>2. CASE PruneExpired
    BY <2>2, PruningMovesOn DEF PruneExpired
  <2>3. CASE GetOrCreate
    BY <2>3 DEF GetOrCreate
  <2>4. CASE InsertFirst \/ (\E k \in Key : Remove(k)) \/ Clear
    BY <2>4 DEF InsertFirst, Remove, Clear, Finish
  <2>5. CASE SearchFromHead \/ SearchFromTail
    <3>1. pc = "search"
      BY <2>5 DEF SearchFromHead, SearchFromTail
    <3> QED
      BY <2>5, <3>1, SearchMovesOn
  <2> QED
    BY <2>1, <2>2, <2>3, <2>4, <2>5 DEF Next, Step
<1>2. [][Moves]_vars => LoopsMoveOn
  BY DEF LoopsMoveOn, Advances
<1> QED
  BY <1>1, <1>2, Invariance, PTL DEF Spec

-----------------------------------------------------------------------------
(* The contract.                                                           *)

\* What the map of the cache holds, seen from what the last finished call
\* left: inside pruneExpired its entries without some that have expired, and
\* inside a search what the Set in progress will leave.
Stored(kept) ==
    [j \in kept \cup {call.key} |->
        IF j = call.key THEN [value |-> call.value, expiresAt |-> call.expiresAt]
                        ELSE committed[j]]

CommitInv ==
    /\ pc = "idle" => committed = c.nodeByKey
    /\ pc = "prune" =>
          /\ Keys(c) \subseteq DOMAIN committed
          /\ \A k \in Keys(c) : c.nodeByKey[k] = committed[k]
          /\ \A k \in DOMAIN committed \ Keys(c) : committed[k].expiresAt <= call.now
    /\ pc = "search" =>
          \E kept \in Contract!Survivors(call.key, call.now) :
              c.nodeByKey = Stored(kept)

\* Two entries' maps with the same keys and the same entries are one map.
LEMMA SameMap ==
    ASSUME NEW d \in CacheType, NEW S, NEW f, f = [j \in S |-> f[j]],
           Keys(d) = S, \A j \in S : d.nodeByKey[j] = f[j]
    PROVE  d.nodeByKey = f
<1>1. d.nodeByKey \in [Keys(d) -> Entry]
  BY CacheFields
<1> QED
  BY <1>1

Holds(d, k, entry, kept, f) ==
    /\ IF k \in Keys(d) \/ Cardinality(Keys(d)) < Capacity
           THEN kept = Keys(d)
           ELSE \E j \in Keys(d) :
                   /\ kept = Keys(d) \ {j}
                   /\ \A i \in Keys(d) : Expiry(d, j) <= Expiry(d, i)
    /\ f = [j \in kept \cup {k} |-> IF j = k THEN entry ELSE d.nodeByKey[j]]

\* What getOrCreateNode stores: the new entry, and of the old ones all that
\* there is room for, which is all but one that expires first.
LEMMA GetOrCreateStores ==
    ASSUME NEW d \in CacheType, NEW n \in 0 .. Capacity, NEW s,
           Ordered(d, Keys(d), n, s), NEW k \in Key, NEW entry \in Entry
    PROVE  \E kept : Holds(d, k, entry, kept, GetOrCreateNode(d, k, entry).nodeByKey)
<1> DEFINE Result(kept) == [j \in kept \cup {k} |->
                               IF j = k THEN entry ELSE d.nodeByKey[j]]
<1>1. CASE k \in Keys(d)
  <2> DEFINE e == UpdateNode(d, k, entry)
  <2>1. /\ e \in CacheType /\ Keys(e) = Keys(d) \cup {k}
        /\ \A j \in Keys(d) \cup {k} : e.nodeByKey[j] = Result(Keys(d))[j]
    BY <1>1, UpdateNodeType
  <2>2. GetOrCreateNode(d, k, entry) = e
    BY <1>1 DEF GetOrCreateNode
  <2> HIDE DEF e
  <2>3. e.nodeByKey = Result(Keys(d))
    BY <2>1, SameMap
  <2> QED
    BY <1>1, <2>2, <2>3 DEF Holds
<1>2. CASE k \notin Keys(d)
  <2> DEFINE f == PruneOldest(d)
             e == CreateNode(f, k, entry)
  <2>1. /\ f \in CacheType
        /\ \A j \in Keys(f) : f.nodeByKey[j] = d.nodeByKey[j]
        /\ Keys(f) \subseteq Keys(d)
        /\ IF Cardinality(Keys(d)) < Capacity
               THEN Keys(f) = Keys(d)
               ELSE \E j \in Keys(d) :
                       /\ Keys(f) = Keys(d) \ {j}
                       /\ \A i \in Keys(d) : Expiry(d, j) <= Expiry(d, i)
    <3>1. CASE Cardinality(Keys(d)) < Capacity
      BY <3>1 DEF PruneOldest
    <3>2. CASE ~(Cardinality(Keys(d)) < Capacity)
      <4>1. n = Capacity /\ n \in Nat \ {0} /\ 1 \in 1 .. n
        BY <3>2, OrderedCardinality, CapacityPositive
      <4>2. /\ d.head = s[1] /\ s[1] \in Keys(d) /\ Keys(d) \subseteq Key
            /\ \A k1 \in Keys(d) : \E i \in 1 .. n : s[i] = k1
            /\ \A i, j \in 1 .. n : i < j => Expiry(d, s[i]) <= Expiry(d, s[j])
        BY <4>1, CacheFields DEF Ordered, Linked, Sorted
      <4>3. \A i \in Keys(d) : Expiry(d, s[1]) <= Expiry(d, i)
        <5> TAKE i \in Keys(d)
        <5>1. PICK j \in 1 .. n : s[j] = i
          BY <4>2
        <5>2. Expiry(d, i) \in Int /\ Expiry(d, s[1]) \in Int
          BY <4>2, ExpiryInt
        <5>3. j = 1 \/ 1 < j
          BY <4>1
        <5> QED
          BY <4>1, <4>2, <5>1, <5>2, <5>3
      <4>4. f = RemoveNode(d, s[1])
        BY <3>2, <4>2 DEF PruneOldest
      <4>5. /\ f \in CacheType /\ Keys(f) = Keys(d) \ {s[1]}
            /\ \A j \in Keys(d) \ {s[1]} : f.nodeByKey[j] = d.nodeByKey[j]
        BY <4>2, <4>4, RemoveNodeType
      <4> QED
        BY <3>2, <4>2, <4>3, <4>5
    <3> QED
      BY <3>1, <3>2
  <2>2. GetOrCreateNode(d, k, entry) = e
    BY <1>2 DEF GetOrCreateNode
  <2> HIDE DEF f
  <2>3. e.nodeByKey = [j \in Keys(f) \cup {k} |->
                          IF j = k THEN entry ELSE f.nodeByKey[j]]
    BY DEF CreateNode
  <2> HIDE DEF e
  <2>4. e.nodeByKey = Result(Keys(f))
    BY <2>1, <2>3
  <2> HIDE DEF Result
  <2> QED
    BY <1>2, <2>1, <2>2, <2>4 DEF Result, Holds
<1> QED
  BY <1>1, <1>2

\* ExpiringMap counts as ExpirationCache does.
LEMMA SameCardinality == \A S : Contract!Cardinality(S) = Cardinality(S)
BY DEF Contract!Cardinality, Cardinality

-----------------------------------------------------------------------------
\* Nothing that the contract speaks of changes.
LEMMA CommitFrame ==
    ASSUME CommitInv, UNCHANGED <<c, pc, call, committed>>
    PROVE  CommitInv' /\ UNCHANGED <<committed, Request>>
<1>1. Request' = Request
  BY DEF Request
<1>2. pc # "search" => CommitInv'
  BY DEF CommitInv, Keys
<1>3. ASSUME pc = "search" PROVE CommitInv'
  <2>1. PICK kept \in Contract!Survivors(call.key, call.now) :
           c.nodeByKey = Stored(kept)
    BY <1>3 DEF CommitInv
  <2>2. (kept \in Contract!Survivors(call.key, call.now) /\ c.nodeByKey = Stored(kept))'
    BY <2>1 DEF Stored, Contract!Survivors, Contract!Live, Contract!Earliest
  <2> QED
    BY <1>3, <2>2 DEF CommitInv
<1> QED
  BY <1>1, <1>2, <1>3

\* Outside a search, only the entries of the map matter.
LEMMA BeginSetCommits ==
    ASSUME IInv, CommitInv, NEW method \in Method, NEW k \in Key,
           NEW v \in Value, NEW now \in Time, NEW e \in Time,
           BeginSet(method, k, v, now, e)
    PROVE  CommitInv' /\ \E r \in Contract!Request : Contract!Ask(r)
<1>1. /\ call = nil /\ c' = c /\ committed' = committed /\ committed = c.nodeByKey
      /\ pc' = "prune"
  BY DEF IInv, TypeOK, BeginSet, CommitInv
<1>2. CommitInv'
  BY <1>1 DEF CommitInv, Keys
<1>3. /\ call' \in Call
      /\ call'.key = k /\ call'.value = v /\ call'.now = now /\ call'.expiresAt = e
  BY DEF BeginSet, Call
<1>4. Request' = [key |-> k, value |-> v, now |-> now, expiresAt |-> e]
  BY <1>3, CallAssumption DEF Request
<1>5. Request' \in Contract!Request /\ Request = nil
  BY <1>1, <1>4 DEF Contract!Request, Request
<1> QED
  BY <1>1, <1>2, <1>5 DEF Contract!Ask

\* pruneExpired removes entries that a Set of its time may not keep.
LEMMA PruneExpiredCommits ==
    ASSUME IInv, CommitInv, PruneExpired
    PROVE  CommitInv' /\ UNCHANGED <<committed, Request>>
<1>1. /\ pc = "prune" /\ pc' = "prune" /\ call' = call /\ committed' = committed
      /\ c' = RemoveNode(c, mark) /\ Expiry(c, mark) <= call.now
      /\ mark \in Key /\ c \in CacheType /\ mark \in Keys(c)
  BY PruningMovesOn, CacheFields
     DEF PruneExpired, AtExpired, IInv, TypeOK, CacheType, Pointer
<1>2. /\ Keys(c') = Keys(c) \ {mark}
      /\ \A k \in Keys(c) \ {mark} : c'.nodeByKey[k] = c.nodeByKey[k]
  BY <1>1, RemoveNodeType
<1>3. committed[mark].expiresAt <= call.now
  BY <1>1 DEF CommitInv, Expiry
<1>4. CommitInv'
  BY <1>1, <1>2, <1>3 DEF CommitInv
<1> QED
  BY <1>1, <1>4 DEF Request

\* getOrCreateNode stores what the contract allows the Set to leave.
LEMMA GetOrCreateCommits ==
    ASSUME IInv, CommitInv, GetOrCreate
    PROVE  CommitInv' /\ UNCHANGED <<committed, Request>>
<1> DEFINE entry == [value |-> call.value, expiresAt |-> call.expiresAt]
           k == call.key
<1>1. /\ c \in CacheType /\ call \in Call /\ k \in Key /\ entry \in Entry
      /\ call.now \in Int
      /\ pc = "prune" /\ pc' = "search" /\ call' = call /\ committed' = committed
      /\ c' = GetOrCreateNode(c, k, entry)
  BY CacheAssumption DEF IInv, TypeOK, CacheType, GetOrCreate, Call, Entry
<1>2. PICK n \in 0 .. Capacity : \E s :
         Ordered(c, Keys(c), n, s) /\ mark = c.head
  BY ListInvOrdered DEF IInv, ListOrdered, Listed, GetOrCreate
<1>3. PICK s : Ordered(c, Keys(c), n, s) /\ mark = c.head
  BY <1>2
<1>4. \A j \in Keys(c) : Expiry(c, j) > call.now
  BY <1>1, <1>3, PrunedLive DEF IInv, GetOrCreate
<1> HIDE DEF entry, k
<1>5. PICK kept : Holds(c, k, entry, kept, c'.nodeByKey)
  BY <1>1, <1>3, GetOrCreateStores
<1>6. /\ Keys(c) \subseteq DOMAIN committed
      /\ \A j \in Keys(c) : c.nodeByKey[j] = committed[j]
      /\ \A j \in Keys(c) : Expiry(c, j) = committed[j].expiresAt
      /\ \A j \in DOMAIN committed \ Keys(c) : committed[j].expiresAt <= call.now
      /\ \A j \in DOMAIN committed : committed[j].expiresAt \in Int
  <2>1. \A j \in DOMAIN committed : committed[j] \in Entry
    BY DEF IInv, TypeOK
  <2>2. \A j \in DOMAIN committed : committed[j].expiresAt \in Int
    BY <2>1, CacheAssumption DEF Entry
  <2> QED
    BY <1>1, <2>2 DEF CommitInv, Expiry
<1>7. Contract!Live(call.now) = Keys(c)
  BY <1>1, <1>4, <1>6 DEF Contract!Live
<1>8. kept \in Contract!Survivors(call.key, call.now)
  <2>1. CASE k \in Keys(c) \/ Cardinality(Keys(c)) < Capacity
    <3>1. Contract!Survivors(call.key, call.now) = {Keys(c)}
      BY <1>7, <2>1, SameCardinality DEF Contract!Survivors, k
    <3> QED
      BY <1>5, <2>1, <3>1 DEF Holds
  <2>2. CASE ~(k \in Keys(c) \/ Cardinality(Keys(c)) < Capacity)
    <3>1. Contract!Survivors(call.key, call.now) =
             {Keys(c) \ {j} : j \in Contract!Earliest(Keys(c))}
      BY <1>7, <2>2, SameCardinality DEF Contract!Survivors, k
    <3>2. PICK j \in Keys(c) :
             /\ kept = Keys(c) \ {j}
             /\ \A i \in Keys(c) : Expiry(c, j) <= Expiry(c, i)
      BY <1>5, <2>2 DEF Holds
    <3>3. j \in Contract!Earliest(Keys(c))
      BY <1>6, <3>2 DEF Contract!Earliest
    <3> QED
      BY <3>1, <3>2, <3>3
  <2> QED
    BY <2>1, <2>2
<1>9. c'.nodeByKey = Stored(kept)
  BY <1>5, <1>6 DEF Stored, Holds, k, entry
<1>10. CommitInv'
  <2>1. (kept \in Contract!Survivors(call.key, call.now) /\ c.nodeByKey = Stored(kept))'
    BY <1>1, <1>8, <1>9
       DEF Contract!Survivors, Contract!Live, Contract!Earliest, Stored
  <2> QED
    BY <1>1, <2>1 DEF CommitInv
<1> QED
  BY <1>1, <1>10 DEF Request

\* The node has found its place: the Set of the contract happens.
LEMMA FinishSetCommits ==
    ASSUME IInv, CommitInv, pc = "search", Finish, c'.nodeByKey = c.nodeByKey
    PROVE  CommitInv' /\ Contract!Set
<1>1. CommitInv'
  BY DEF CommitInv, Finish
<1>2. /\ Request = [key |-> call.key, value |-> call.value,
                    now |-> call.now, expiresAt |-> call.expiresAt]
      /\ Request # nil /\ Request' = nil
  BY CallAssumption DEF IInv, TypeOK, Request, Call, Finish
<1>3. PICK kept \in Contract!Survivors(call.key, call.now) :
         c.nodeByKey = Stored(kept)
  BY DEF CommitInv
<1>4. /\ Request.key = call.key /\ Request.now = call.now
      /\ Request.value = call.value /\ Request.expiresAt = call.expiresAt
  BY <1>2
<1>5. committed' = [j \in kept \cup {Request.key} |->
                       IF j = Request.key
                           THEN [value |-> Request.value,
                                 expiresAt |-> Request.expiresAt]
                           ELSE committed[j]]
  BY <1>3, <1>4 DEF Finish, Stored
<1> QED
  BY <1>1, <1>2, <1>3, <1>4, <1>5 DEF Contract!Set

\* The end of a search, or one more node.
LEMMA SearchCommits ==
    ASSUME IInv, CommitInv, InsertFirst \/ SearchFromHead \/ SearchFromTail
    PROVE  CommitInv' /\ (Contract!Set \/ UNCHANGED <<committed, Request>>)
<1>1. pc = "search"
  BY DEF InsertFirst, SearchFromHead, SearchFromTail
<1>2. \A n : /\ InsertOnly(c, n).nodeByKey = c.nodeByKey
             /\ \A m : /\ InsertBefore(c, n, m).nodeByKey = c.nodeByKey
                       /\ InsertAfter(c, n, m).nodeByKey = c.nodeByKey
  BY DEF InsertOnly, InsertBefore, InsertAfter, IInv, TypeOK
<1>3. \/ UNCHANGED <<c, pc, call, committed>>
      \/ Finish /\ c'.nodeByKey = c.nodeByKey
  BY <1>2 DEF InsertFirst, SearchFromHead, SearchFromTail
<1> QED
  BY <1>1, <1>3, CommitFrame, FinishSetCommits

\* Remove takes effect at once.
LEMMA RemoveCommits ==
    ASSUME IInv, CommitInv, NEW k \in Key, Remove(k)
    PROVE  CommitInv' /\ Contract!Remove(k)
<1>1. /\ pc = "idle" /\ Finish /\ c' = RemoveNode(c, k) /\ k \in Keys(c)
      /\ committed = c.nodeByKey /\ call = nil
  BY DEF Remove, CommitInv, IInv, TypeOK
<1>2. CommitInv'
  BY <1>1 DEF CommitInv, Finish
<1>3. Request = nil /\ Request' = nil
  BY <1>1 DEF Request, Finish
<1>4. c'.nodeByKey = [j \in Keys(c) \ {k} |-> c.nodeByKey[j]]
  BY <1>1 DEF RemoveNode, Detach
<1> QED
  BY <1>1, <1>2, <1>3, <1>4 DEF Contract!Remove, Finish, Keys

\* So does Clear.
LEMMA ClearCommits ==
    ASSUME IInv, CommitInv, Clear
    PROVE  CommitInv' /\ Contract!Clear
<1>1. pc = "idle" /\ Finish /\ call = nil
  BY DEF Clear, IInv, TypeOK
<1>2. CommitInv'
  BY <1>1 DEF CommitInv, Finish
<1>3. Request = nil /\ Request' = nil
  BY <1>1 DEF Request, Finish
<1>4. c'.nodeByKey = [k \in {} |-> {}]
  BY DEF Clear, NewExpirationCache, IInv, TypeOK
<1> QED
  BY <1>1, <1>2, <1>3, <1>4 DEF Contract!Clear, Finish

\* A cache that has just been made is an empty map.
LEMMA InitCommits == Init => CommitInv /\ Contract!Init
BY DEF Init, CommitInv, Contract!Init, Request, NewExpirationCache

\* Every step of the cache is a step of the contract, or none.
LEMMA StepCommits ==
    IInv /\ CommitInv /\ [Next]_vars =>
        CommitInv' /\ [Contract!Next]_<<committed, Request>>
<1> SUFFICES ASSUME IInv, CommitInv, [Next]_vars
             PROVE  CommitInv' /\ [Contract!Next]_<<committed, Request>>
  OBVIOUS
<1>1. CASE \E method \in Method, k \in Key, v \in Value, now, e \in Time :
              BeginSet(method, k, v, now, e)
  BY <1>1, BeginSetCommits DEF Contract!Next
<1>2. CASE PruneExpired
  BY <1>2, PruneExpiredCommits
<1>3. CASE GetOrCreate
  BY <1>3, GetOrCreateCommits
<1>4. CASE InsertFirst \/ SearchFromHead \/ SearchFromTail
  BY <1>4, SearchCommits DEF Contract!Next
<1>5. CASE \E k \in Key : Remove(k)
  BY <1>5, RemoveCommits DEF Contract!Next
<1>6. CASE Clear
  BY <1>6, ClearCommits DEF Contract!Next
<1>7. CASE UNCHANGED vars
  BY <1>7, CommitFrame DEF vars
<1> QED
  BY <1>1, <1>2, <1>3, <1>4, <1>5, <1>6, <1>7 DEF Next, Step

\* The cache keeps the promise of its documentation (cache.go:23-25): seen
\* through the entries that finished calls have left, it is an ExpiringMap.
THEOREM Refinement == Spec => ImplementsContract
<1>1. Spec => Contract!Init /\ [][Contract!Next]_<<committed, Request>>
  BY InitCommits, StepCommits, Invariance, PTL DEF Spec
<1> QED
  BY <1>1 DEF ImplementsContract, Contract!Spec
=============================================================================
