------------------------- MODULE EventReaderProofs -------------------------
(***************************************************************************)
(* What the JSON decoder of ssgodatabyip gets to see, for logs and buffers *)
(* of every size, and whatever sizes the decoder asks for.                 *)
(*                                                                         *)
(* What a log says is a fold over its bytes.  The lemmas of the first part *)
(* turn it into a function of the number of bytes that are parsed, which   *)
(* the invariant then relates to what the reader has taken.                *)
(***************************************************************************)
EXTENDS EventReader, ArithmeticTheorems, SequenceTheorems

-----------------------------------------------------------------------------
(* Parsing, a byte at a time.                                              *)

\* What the fold does with a set of positions, given what it makes of those
\* before the last.
ParseFold(log, s, g) ==
    IF s = {} THEN Unparsed ELSE ParseByte(g[s \ {Max(s)}], log[Max(s)])

IsParse(log, g) == g = [s \in SUBSET DOMAIN log |-> ParseFold(log, s, g)]

\* The fold of the library is a function chosen by its recursion.
LEMMA ParseIsChosen ==
    ASSUME NEW log
    PROVE  Parse(log) = (CHOOSE g : IsParse(log, g))[DOMAIN log]
<1>1. (CHOOSE g : IsParse(log, g))
        = (CHOOSE g : g = [s \in SUBSET DOMAIN log |->
              IF s = {} THEN Unparsed ELSE ParseByte(g[s \ {Max(s)}], log[Max(s)])])
  BY Zenon DEF IsParse, ParseFold
<1>2. Parse(log)
        = (CHOOSE g : g = [s \in SUBSET DOMAIN log |->
              IF s = {} THEN Unparsed
                        ELSE ParseByte(g[s \ {Max(s)}], log[Max(s)])])[DOMAIN log]
  BY Zenon DEF Parse, FoldLeft, MapThenFoldSet
<1> QED
  BY <1>1, <1>2

\* The greatest of finitely many positions is one of them.
LEMMA Greatest ==
    ASSUME NEW n \in Nat, NEW s \in SUBSET (1 .. n), s # {}
    PROVE  Max(s) \in s /\ \A y \in s : Max(s) >= y
<1>1. IsFiniteSet(1 .. n)
  BY FS_Interval
<1>2. IsFiniteSet(s)
  BY <1>1, FS_Subset
<1>3. \A y \in s : y \in Int
  OBVIOUS
<1> QED
  BY <1>2, <1>3, MaxIsGreatest

\* The recursion of the fold defines a function.
LEMMA ParseExists ==
    ASSUME NEW log, NEW n \in Nat, DOMAIN log = 1 .. n
    PROVE  \E g : IsParse(log, g)
<1> DEFINE S == 1 .. n
           Upto(m, g) == \A s \in SUBSET S : Cardinality(s) <= m => g[s] = ParseFold(log, s, g)
           T == {m \in Nat : ~ \E g : Upto(m, g)}
<1>1. \A s \in SUBSET S : /\ Cardinality(s) \in Nat
                          /\ Cardinality(s) = 0 => s = {}
                          /\ Cardinality(s) <= n
                          /\ \A x \in s : Cardinality(s \ {x}) = Cardinality(s) - 1
  <2>1. IsFiniteSet(S) /\ Cardinality(S) = n
    BY FS_Interval
  <2> HIDE DEF S
  <2>2. \A s \in SUBSET S : IsFiniteSet(s) /\ Cardinality(s) <= n
    BY <2>1, FS_Subset
  <2> QED
    BY <2>2, FS_CardinalityType, FS_EmptySet, FS_RemoveElement
<1>2. \A s \in SUBSET S : s # {} => Max(s) \in s
  BY Greatest
<1> HIDE DEF S
<1>3. T = {}
  <2>1. SUFFICES ASSUME T # {} PROVE FALSE
    OBVIOUS
  <2>2. PICK m \in T : \A j \in T : m <= j
    BY <2>1, LeastNatural
  <2>3. CASE m = 0
    <3>1. Upto(0, [s \in SUBSET S |-> Unparsed])
      BY <1>1 DEF ParseFold
    <3> QED
      BY <3>1, <2>2, <2>3
  <2>4. CASE m # 0
    <3>1. m - 1 \in Nat /\ m - 1 \notin T
      BY <2>2, <2>4
    <3>2. PICK g : Upto(m - 1, g)
      BY <3>1
    <3> DEFINE h == [s \in SUBSET S |-> ParseFold(log, s, g)]
    <3>3. ASSUME NEW s \in SUBSET S, Cardinality(s) <= m
          PROVE  h[s] = ParseFold(log, s, h)
      <4>1. CASE s = {}
        BY <4>1 DEF ParseFold
      <4>2. CASE s # {}
        <5> DEFINE r == s \ {Max(s)}
        <5>1. Max(s) \in s
          BY <4>2, <1>2
        <5>2. r \in SUBSET S /\ Cardinality(r) <= m - 1
          BY <5>1, <1>1, <3>3, <2>2
        <5>3. g[r] = h[r]
          BY <5>2, <3>2
        <5> QED
          BY <4>2, <5>3 DEF ParseFold
      <4> QED
        BY <4>1, <4>2
    <3>4. Upto(m, h)
      BY <3>3
    <3> QED
      BY <3>4, <2>2
  <2> QED
    BY <2>3, <2>4
<1>4. n \notin T
  BY <1>3
<1>5. PICK g : Upto(n, g)
  BY <1>4
<1> DEFINE h == [s \in SUBSET S |-> g[s]]
<1>6. \A s \in SUBSET S : g[s] = ParseFold(log, s, g)
  BY <1>5, <1>1
<1>7. \A s \in SUBSET S : ParseFold(log, s, g) = ParseFold(log, s, h)
  BY <1>2 DEF ParseFold
<1>8. IsParse(log, h)
  BY <1>6, <1>7 DEF IsParse, S
<1> QED
  BY <1>8

\* h[k] is what the first k bytes of a log say.
IsProgress(log, h) ==
    /\ h[0] = Unparsed
    /\ \A k \in 0 .. Len(log) - 1 : h[k + 1] = ParseByte(h[k], log[k + 1])
    /\ h[Len(log)] = Parse(log)

Progress(log) == CHOOSE h : IsProgress(log, h)

LEMMA ParseProgress ==
    ASSUME NEW log \in Seq(Byte)
    PROVE  IsProgress(log, Progress(log))
<1> DEFINE n == Len(log)
<1>1. n \in Nat /\ DOMAIN log = 1 .. n
  BY LenProperties
<1> HIDE DEF n
<1>2. PICK g : IsParse(log, g) /\ Parse(log) = g[DOMAIN log]
  BY <1>1, ParseExists, ParseIsChosen, Zenon
<1>3. \A s \in SUBSET (1 .. n) : g[s] = ParseFold(log, s, g)
  BY <1>1, <1>2, Zenon DEF IsParse
<1> DEFINE h == [k \in 0 .. n |-> g[1 .. k]]
<1>4. h[0] = Unparsed
  <2>1. 1 .. 0 = {} /\ 0 \in 0 .. n
    BY <1>1
  <2> QED
    BY <1>3, <2>1 DEF ParseFold
<1>5. ASSUME NEW k \in 0 .. n - 1
      PROVE  h[k + 1] = ParseByte(h[k], log[k + 1])
  <2> DEFINE s == 1 .. k + 1
  <2>0. k \in Nat /\ k + 1 <= n
    BY <1>1
  <2>1. s \in SUBSET (1 .. n) /\ s # {} /\ s \ {k + 1} = 1 .. k
    <3>1. \A y \in s : y \in 1 .. n
      BY <1>1, <2>0
    <3>2. k + 1 \in s
      BY <2>0
    <3>3. s \ {k + 1} = 1 .. k
      BY <2>0
    <3> QED
      BY <3>1, <3>2, <3>3
  <2>2. k \in 0 .. n /\ k + 1 \in 0 .. n /\ k + 1 \in s
    BY <1>1, <2>0
  <2>3. \A y \in s : k + 1 >= y
    OBVIOUS
  <2> HIDE DEF s
  <2>4. Max(s) = k + 1
    <3>1. Max(s) \in s /\ \A y \in s : Max(s) >= y
      BY <1>1, <2>1, Greatest
    <3> QED
      BY <2>1, <2>2, <2>3, <3>1, <1>1
  <2>5. g[s] = ParseByte(g[1 .. k], log[k + 1])
    BY <1>3, <2>1, <2>4 DEF ParseFold
  <2> QED
    BY <2>2, <2>5 DEF s
<1>6. h[n] = Parse(log)
  BY <1>1, <1>2
<1>7. IsProgress(log, h)
  BY <1>4, <1>5, <1>6, Zenon DEF IsProgress, n
<1> QED
  BY <1>7, Zenon DEF Progress

ParseState == [on : BOOLEAN, json : Seq(Byte), run : Nat, far : SUBSET Byte]

\* The byte that ends a part of the log.
Wanted(on) == IF on THEN "\n" ELSE "{"

\* What one byte does to each part of the state.
LEMMA ParseByteFields ==
    ASSUME NEW s, NEW b
    PROVE  /\ ParseByte(s, b).on = IF b = Wanted(s.on) THEN ~s.on ELSE s.on
           /\ ParseByte(s, b).json =
                  IF s.on \/ b = Wanted(s.on) THEN Append(s.json, b) ELSE s.json
           /\ ParseByte(s, b).run = IF b = Wanted(s.on) THEN 0 ELSE s.run + 1
           /\ ParseByte(s, b).far = IF b # Wanted(s.on) /\ s.run + 1 >= BufferSize
                                       THEN s.far \cup {Wanted(s.on)} ELSE s.far
  BY Zenon DEF ParseByte, Wanted

LEMMA ParseByteType ==
    ASSUME NEW s \in ParseState, NEW b \in Byte
    PROVE  ParseByte(s, b) \in ParseState
<1> DEFINE p == ParseByte(s, b)
<1>1. /\ s.on \in BOOLEAN /\ s.json \in Seq(Byte) /\ s.run \in Nat
      /\ Append(s.json, b) \in Seq(Byte)
  BY AppendProperties DEF ParseState
<1>2. p.on \in BOOLEAN
  <2>1. p.on = IF b = Wanted(s.on) THEN ~s.on ELSE s.on
    BY ParseByteFields
  <2>2. (~s.on) \in BOOLEAN
    OBVIOUS
  <2> HIDE DEF p
  <2> QED
    BY <1>1, <2>1, <2>2, Zenon
<1>5. p.json \in Seq(Byte) /\ p.run \in Nat
  <2>1. /\ p.json = IF s.on \/ b = Wanted(s.on) THEN Append(s.json, b) ELSE s.json
        /\ p.run = IF b = Wanted(s.on) THEN 0 ELSE s.run + 1
    BY ParseByteFields
  <2> HIDE DEF p
  <2> QED
    BY <1>1, <2>1
<1>3. p.far \in SUBSET Byte
  <2>1. p.far = IF b # Wanted(s.on) /\ s.run + 1 >= BufferSize
                    THEN s.far \cup {Wanted(s.on)} ELSE s.far
    BY ParseByteFields
  <2>2. Wanted(s.on) \in Byte
    BY Zenon DEF Wanted, Byte
  <2>3. s.far \in SUBSET Byte
    BY DEF ParseState
  <2> HIDE DEF p
  <2> QED
    BY <2>1, <2>2, <2>3, Zenon
<1>4. p = [on |-> p.on, json |-> p.json, run |-> p.run, far |-> p.far]
  BY Zenon DEF ParseByte
<1> HIDE DEF p
<1> QED
  <2> PICK on \in BOOLEAN, json \in Seq(Byte), run \in Nat, far \in SUBSET Byte :
          on = p.on /\ json = p.json /\ run = p.run /\ far = p.far
    BY <1>2, <1>3, <1>5
  <2>1. p = [on |-> on, json |-> json, run |-> run, far |-> far]
    BY <1>4, Zenon
  <2>2. [on |-> on, json |-> json, run |-> run, far |-> far] \in ParseState
    BY DEF ParseState
  <2> HIDE DEF p
  <2>3. p \in ParseState
    BY <2>1, <2>2, Zenon
  <2> QED
    BY <2>3 DEF p

LEMMA ProgressType ==
    ASSUME NEW log \in Seq(Byte), NEW h, IsProgress(log, h), NEW k \in 0 .. Len(log)
    PROVE  h[k] \in ParseState
<1> DEFINE T == {i \in 0 .. Len(log) : h[i] \notin ParseState}
<1>1. SUFFICES ASSUME T # {} PROVE FALSE
  OBVIOUS
<1>2. Len(log) \in Nat /\ \A i \in 1 .. Len(log) : log[i] \in Byte
  BY LenProperties, ElementOfSeq
<1>3. PICK i \in T : \A j \in T : i <= j
  <2>1. T \in SUBSET Nat
    BY <1>2
  <2> HIDE DEF T
  <2> QED
    BY <1>1, <2>1, LeastNatural
<1>4. CASE i = 0
  <2>1. Unparsed \in ParseState
    BY EmptySeq DEF Unparsed, ParseState
  <2> QED
    BY <1>3, <1>4, <2>1 DEF IsProgress
<1>5. CASE i # 0
  <2> PICK j : j = i - 1
    OBVIOUS
  <2>1. j \in 0 .. Len(log) - 1 /\ j \in 0 .. Len(log) /\ i = j + 1 /\ j < i
    BY <1>2, <1>3, <1>5
  <2>2. h[j] \in ParseState
    BY <1>3, <2>1
  <2>3. h[i] = ParseByte(h[j], log[i])
    BY <2>1 DEF IsProgress
  <2>4. log[i] \in Byte
    BY <1>2, <2>1
  <2> QED
    BY <1>3, <2>2, <2>3, <2>4, ParseByteType
<1> QED
  BY <1>4, <1>5

\* The byte after the first k of a log.
LEMMA OneByte ==
    ASSUME NEW log \in Seq(Byte), NEW h, IsProgress(log, h), NEW k \in 0 .. Len(log) - 1
    PROVE  /\ log[k + 1] = Wanted(h[k].on) =>
                  /\ h[k + 1].on = ~h[k].on
                  /\ h[k + 1].run = 0
                  /\ h[k + 1].json = Append(h[k].json, log[k + 1])
                  /\ h[k + 1].far = h[k].far
           /\ log[k + 1] # Wanted(h[k].on) =>
                  /\ h[k + 1].on = h[k].on
                  /\ h[k + 1].run = h[k].run + 1
                  /\ h[k + 1].json = IF h[k].on THEN Append(h[k].json, log[k + 1])
                                                ELSE h[k].json
                  /\ h[k].far \subseteq h[k + 1].far
                  /\ h[k].run + 1 >= BufferSize => Wanted(h[k].on) \in h[k + 1].far
<1>1. h[k + 1] = ParseByte(h[k], log[k + 1])
  BY DEF IsProgress
<1> PICK s : s = h[k]
  OBVIOUS
<1> PICK b : b = log[k + 1]
  OBVIOUS
<1> PICK r : r = h[k + 1]
  OBVIOUS
<1>2. /\ r.on = IF b = Wanted(s.on) THEN ~s.on ELSE s.on
      /\ r.json = IF s.on \/ b = Wanted(s.on) THEN Append(s.json, b) ELSE s.json
      /\ r.run = IF b = Wanted(s.on) THEN 0 ELSE s.run + 1
      /\ r.far = IF b # Wanted(s.on) /\ s.run + 1 >= BufferSize
                    THEN s.far \cup {Wanted(s.on)} ELSE s.far
  <2>1. r = ParseByte(s, b)
    BY <1>1
  <2>2. /\ ParseByte(s, b).on = IF b = Wanted(s.on) THEN ~s.on ELSE s.on
        /\ ParseByte(s, b).json =
               IF s.on \/ b = Wanted(s.on) THEN Append(s.json, b) ELSE s.json
        /\ ParseByte(s, b).run = IF b = Wanted(s.on) THEN 0 ELSE s.run + 1
    BY Zenon DEF ParseByte, Wanted
  <2>3. ParseByte(s, b).far = IF b # Wanted(s.on) /\ s.run + 1 >= BufferSize
                                THEN s.far \cup {Wanted(s.on)} ELSE s.far
    BY Zenon DEF ParseByte, Wanted
  <2> QED
    BY <2>1, <2>2, <2>3, Zenon
<1>3. b = Wanted(s.on) =>
          r.on = ~s.on /\ r.run = 0 /\ r.json = Append(s.json, b) /\ r.far = s.far
  BY <1>2, Zenon
<1>4. b # Wanted(s.on) =>
          /\ r.on = s.on /\ r.run = s.run + 1
          /\ r.json = IF s.on THEN Append(s.json, b) ELSE s.json
          /\ s.far \subseteq r.far
          /\ s.run + 1 >= BufferSize => Wanted(s.on) \in r.far
  BY <1>2, Zenon
<1> QED
  BY <1>3, <1>4, Zenon

\* Of the JSON the next byte makes as much as before, or one byte more.
LEMMA JsonGrows ==
    ASSUME NEW log \in Seq(Byte), NEW h, IsProgress(log, h), NEW k \in 0 .. Len(log) - 1
    PROVE  \/ h[k + 1].json = h[k].json
           \/ h[k + 1].json = Append(h[k].json, log[k + 1])
<1>1. ASSUME log[k + 1] = Wanted(h[k].on)
      PROVE  h[k + 1].json = Append(h[k].json, log[k + 1])
  BY <1>1, OneByte, SMT
<1>2. ASSUME log[k + 1] # Wanted(h[k].on)
      PROVE  h[k + 1].json = IF h[k].on THEN Append(h[k].json, log[k + 1]) ELSE h[k].json
  BY <1>2, OneByte, Zenon
<1> QED
  BY <1>1, <1>2, Zenon

LEMMA AppendToConcat ==
    ASSUME NEW S, NEW s \in Seq(S), NEW t \in Seq(S), NEW e \in S
    PROVE  Append(s \o t, e) = s \o (t \o <<e>>)
<1>1. s \o t \in Seq(S)
  BY ConcatProperties
<1>2. Append(s \o t, e) = (s \o t) \o <<e>>
  BY <1>1, AppendIsConcat
<1> PICK u : u = <<e>>
  OBVIOUS
<1>3. u \in Seq(S)
  OBVIOUS
<1>4. (s \o t) \o u = s \o (t \o u)
  BY <1>3, ConcatAssociative
<1> QED
  BY <1>2, <1>4

\* A piece of the log, and the byte after it.
LEMMA LongerPiece ==
    ASSUME NEW log \in Seq(Byte), NEW a \in Seq(Byte), NEW k \in Nat, NEW q \in Nat,
           k <= q, q < Len(log)
    PROVE  Append(a \o SubSeq(log, k + 1, q), log[q + 1]) = a \o SubSeq(log, k + 1, q + 1)
<1>1. Len(log) \in Nat /\ \A i \in 1 .. Len(log) : log[i] \in Byte
  BY LenProperties, ElementOfSeq
<1>2. SubSeq(log, k + 1, q) \in Seq(Byte)
  <2>1. \A x \in k + 1 .. q : log[x] \in Byte
    BY <1>1
  <2> QED
    BY <2>1, SubSeqProperties
<1>3. SubSeq(log, k + 1, q + 1) = SubSeq(log, k + 1, q) \o <<log[q + 1]>>
  BY <1>1, SubSeqRecursiveSecond
<1>4. log[q + 1] \in Byte
  BY <1>1
<1>5. \A s \in Seq(Byte) : \A e \in Byte : Append(a \o s, e) = a \o (s \o <<e>>)
  BY AppendToConcat
<1>6. PICK s \in Seq(Byte), e \in Byte : s = SubSeq(log, k + 1, q) /\ e = log[q + 1]
  BY <1>2, <1>4
<1>7. Append(a \o s, e) = a \o (s \o <<e>>)
  BY <1>5
<1> QED
  BY <1>3, <1>6, <1>7

\* The bytes k + 1 .. q of a log, when none of them is the one that is wanted.
Passes(log, h, k, q) ==
    /\ h[q].on = h[k].on
    /\ h[q].run = h[k].run + (q - k)
    /\ h[q].json = IF h[k].on THEN h[k].json \o SubSeq(log, k + 1, q) ELSE h[k].json
    /\ q - k = BufferSize => Wanted(h[k].on) \in h[q].far

LEMMA PassesOneMore ==
    ASSUME NEW log \in Seq(Byte), NEW h, IsProgress(log, h),
           NEW k \in Nat, NEW q \in Nat, k <= q, q < Len(log),
           h[k].json \in Seq(Byte), h[k].run \in Nat, Passes(log, h, k, q),
           log[q + 1] # Wanted(h[k].on)
    PROVE  Passes(log, h, k, q + 1)
<1>1. Len(log) \in Nat
  BY LenProperties
<1>2. q \in 0 .. Len(log) - 1
  BY <1>1
<1>3. log[q + 1] # Wanted(h[q].on)
  BY DEF Passes
<1>4. /\ h[q + 1].on = h[q].on
      /\ h[q + 1].run = h[q].run + 1
      /\ h[q + 1].json = IF h[q].on THEN Append(h[q].json, log[q + 1]) ELSE h[q].json
      /\ h[q].run + 1 >= BufferSize => Wanted(h[q].on) \in h[q + 1].far
  BY <1>2, <1>3, OneByte
<1>5. Append(h[k].json \o SubSeq(log, k + 1, q), log[q + 1])
          = h[k].json \o SubSeq(log, k + 1, q + 1)
  BY LongerPiece
<1>6. h[q + 1].on = h[k].on
  BY <1>4, Zenon DEF Passes
<1> PICK start \in Nat : start = h[k].run
  OBVIOUS
<1>7. h[q + 1].run = h[k].run + (q + 1 - k)
  <2>1. h[q + 1].run = (start + (q - k)) + 1
    BY <1>4 DEF Passes
  <2>2. (start + (q - k)) + 1 = start + (q + 1 - k)
    OBVIOUS
  <2>3. h[q + 1].run = start + (q + 1 - k)
    BY <2>1, <2>2, Zenon
  <2> QED
    BY <2>3, Zenon
<1>8. h[q + 1].json = IF h[k].on THEN h[k].json \o SubSeq(log, k + 1, q + 1) ELSE h[k].json
  <2>1. CASE h[k].on
    BY <2>1, <1>4, <1>5, Zenon DEF Passes
  <2>2. CASE ~h[k].on
    BY <2>2, <1>4, Zenon DEF Passes
  <2> QED
    BY <2>1, <2>2
<1>9. q + 1 - k = BufferSize => Wanted(h[k].on) \in h[q + 1].far
  <2>1. h[q].run = start + (q - k)
    BY DEF Passes
  <2>2. q + 1 - k = BufferSize => h[q].run + 1 >= BufferSize
    BY <2>1
  <2>3. h[q].on = h[k].on
    BY DEF Passes
  <2> QED
    BY <1>4, <2>2, <2>3, Zenon
<1> QED
  BY <1>6, <1>7, <1>8, <1>9 DEF Passes

LEMMA NotWanted ==
    ASSUME NEW log \in Seq(Byte), NEW h, IsProgress(log, h),
           NEW k \in Nat, NEW m \in Nat, k <= m, m <= Len(log),
           \A i \in k + 1 .. m : log[i] # Wanted(h[k].on)
    PROVE  Passes(log, h, k, m)
<1> DEFINE T == {q \in k .. m : ~Passes(log, h, k, q)}
<1>1. SUFFICES ASSUME T # {} PROVE FALSE
  <2>1. m \in k .. m
    OBVIOUS
  <2> QED
    BY <2>1
<1>2. Len(log) \in Nat
  BY LenProperties
<1>3. PICK q \in T : \A j \in T : q <= j
  <2>1. T \in SUBSET Nat
    OBVIOUS
  <2> HIDE DEF T
  <2> QED
    BY <1>1, <2>1, LeastNatural
<1>4. q \in k .. m /\ ~Passes(log, h, k, q)
  OBVIOUS
<1>5. h[k].json \in Seq(Byte) /\ h[k].run \in Nat
  <2>1. k \in 0 .. Len(log)
    BY <1>2
  <2>2. h[k] \in ParseState
    BY <2>1, ProgressType
  <2> QED
    BY <2>2 DEF ParseState
<1>6. CASE q = k
  <2>1. SubSeq(log, k + 1, k) = <<>>
    BY SubSeqEmpty
  <2>2. h[k].json \o <<>> = h[k].json
    BY <1>5, ConcatEmptySeq
  <2>3. k - k # BufferSize /\ h[k].run = h[k].run + (k - k)
    BY <1>5, ReaderAssumption
  <2>4. Passes(log, h, k, k)
    BY <2>1, <2>2, <2>3 DEF Passes
  <2> QED
    BY <1>4, <1>6, <2>4
<1>7. CASE q # k
  <2>1. \A j \in Nat : k <= j /\ j < q => Passes(log, h, k, j)
    BY <1>3
  <2>2. PICK j \in Nat : k <= j /\ j < q /\ q = j + 1
    <3>1. q - 1 \in Nat /\ k <= q - 1 /\ q - 1 < q /\ q = (q - 1) + 1
      BY <1>4, <1>7
    <3> QED
      BY <3>1
  <2>3. j < Len(log) /\ j + 1 \in k + 1 .. m
    BY <1>2, <1>4, <2>2
  <2>4. Passes(log, h, k, j + 1)
    BY <1>5, <2>1, <2>2, <2>3, PassesOneMore
  <2> QED
    BY <1>4, <2>2, <2>4
<1> QED
  BY <1>6, <1>7

\* Nothing of the JSON is taken back, and what was once too far stays so.
LEMMA Later ==
    ASSUME NEW log \in Seq(Byte), NEW h, IsProgress(log, h),
           NEW k \in 0 .. Len(log), NEW m \in k .. Len(log)
    PROVE  /\ IsPrefix(h[k].json, h[m].json)
           /\ h[k].far \subseteq h[m].far
<1> DEFINE Holds(q) == IsPrefix(h[k].json, h[q].json) /\ h[k].far \subseteq h[q].far
           T == {q \in k .. Len(log) : ~Holds(q)}
<1>1. SUFFICES ASSUME T # {} PROVE FALSE
  BY Zenon
<1>2. Len(log) \in Nat /\ k \in Nat /\ \A i \in 1 .. Len(log) : log[i] \in Byte
  BY LenProperties, ElementOfSeq
<1>3. PICK q \in T : \A j \in T : q <= j
  <2>1. T \in SUBSET Nat
    BY <1>2
  <2> HIDE DEF T
  <2> QED
    BY <1>1, <2>1, LeastNatural
<1>4. \A i \in 0 .. Len(log) : h[i].json \in Seq(Byte)
  BY ProgressType DEF ParseState
<1>5. CASE q = k
  <2>1. \A s \in Seq(Byte) : IsPrefix(s, s)
    BY LenProperties DEF IsPrefix
  <2>2. Holds(k)
    BY <1>4, <2>1
  <2> QED
    BY <1>3, <1>5, <2>2
<1>6. CASE q # k
  <2>1. PICK j \in k .. Len(log) - 1 : q = j + 1
    <3>1. q - 1 \in k .. Len(log) - 1 /\ q = (q - 1) + 1
      BY <1>2, <1>3, <1>6
    <3> QED
      BY <3>1
  <2>2. Holds(j)
    <3>1. j \in k .. Len(log) /\ j < q
      BY <1>2, <2>1
    <3>2. j \notin T
      BY <1>2, <1>3, <3>1
    <3> HIDE DEF Holds
    <3> QED
      BY <3>1, <3>2
  <2>3. j \in 0 .. Len(log) - 1 /\ j \in 0 .. Len(log) /\ log[j + 1] \in Byte
    BY <1>2, <2>1
  <2>4. h[j + 1].json = h[j].json \/ h[j + 1].json = Append(h[j].json, log[j + 1])
    BY <2>3, JsonGrows, Zenon
  <2>5. h[j].far \subseteq h[j + 1].far
    BY <2>3, OneByte, Zenon
  <2>6. \A s \in Seq(Byte), t \in Seq(Byte), b \in Byte :
            IsPrefix(s, t) => IsPrefix(s, Append(t, b))
    <3> TAKE s \in Seq(Byte), t \in Seq(Byte), b \in Byte
    <3>1. ASSUME Len(s) <= Len(t), SubSeq(s, 1, Len(s)) = SubSeq(t, 1, Len(s))
          PROVE  SubSeq(s, 1, Len(s)) = SubSeq(Append(t, b), 1, Len(s))
      <4>1. CASE s = <<>>
        BY <4>1, SubSeqEmpty
      <4>2. CASE s # <<>>
        <5>1. Append(t, b) = t \o <<b>> /\ <<b>> \in Seq(Byte)
          BY AppendIsConcat
        <5>2. Len(s) \in 1 .. Len(t) /\ 1 \in 1 .. Len(t)
          BY <3>1, <4>2, LenProperties, EmptySeq
        <5>3. SubSeq(t \o <<b>>, 1, Len(s)) = SubSeq(t, 1, Len(s))
          BY <5>1, <5>2, SubSeqOfConcat1
        <5> QED
          BY <3>1, <5>1, <5>3
      <4> QED
        BY <4>1, <4>2
    <3>2. Len(Append(t, b)) = Len(t) + 1 /\ Len(t) \in Nat /\ Len(s) \in Nat
      BY AppendProperties, LenProperties
    <3> QED
      BY <3>1, <3>2 DEF IsPrefix
  <2>7. Holds(j + 1)
    <3>1. IsPrefix(h[k].json, h[j + 1].json)
      <4>1. h[k].json \in Seq(Byte) /\ h[j].json \in Seq(Byte)
        BY <1>4, <2>3
      <4> QED
        BY <2>2, <2>3, <2>4, <2>6, <4>1, Zenon
    <3> QED
      BY <2>2, <2>5, <3>1, Zenon
  <2> QED
    BY <1>3, <2>1, <2>7
<1> QED
  BY <1>5, <1>6

\* The first p bytes of a log, parsed as a log of their own, say what they say
\* as its beginning.
LEMMA BeginningSays ==
    ASSUME NEW log \in Seq(Byte), NEW h, IsProgress(log, h), NEW p \in 0 .. Len(log),
           NEW a \in Seq(Byte), Len(a) = p, \A i \in 1 .. p : a[i] = log[i]
    PROVE  Parse(a) = h[p]
<1> PICK g : g = Progress(a)
  OBVIOUS
<1>1. IsProgress(a, g)
  BY ParseProgress
<1>2. Len(log) \in Nat /\ p \in Nat
  BY LenProperties
<1> DEFINE T == {k \in 0 .. p : g[k] # h[k]}
<1>3. T = {}
  <2>1. SUFFICES ASSUME T # {} PROVE FALSE
    OBVIOUS
  <2>2. PICK k \in T : \A j \in T : k <= j
    <3>1. T \in SUBSET Nat
      BY <1>2
    <3> HIDE DEF T
    <3> QED
      BY <2>1, <3>1, LeastNatural
  <2>3. CASE k = 0
    BY <1>1, <2>2, <2>3 DEF IsProgress
  <2>4. CASE k # 0
    <3> PICK j : j = k - 1
      OBVIOUS
    <3>1. j \in 0 .. p /\ j \in 0 .. p - 1 /\ j \in 0 .. Len(log) - 1 /\ k = j + 1 /\ j < k
          /\ k \in 1 .. p
      BY <1>2, <2>2, <2>4
    <3>2. g[j] = h[j]
      BY <1>2, <2>2, <3>1
    <3>3. g[j + 1] = ParseByte(g[j], a[j + 1]) /\ h[j + 1] = ParseByte(h[j], log[j + 1])
      BY <1>1, <3>1 DEF IsProgress
    <3>4. a[j + 1] = log[j + 1]
      BY <3>1
    <3>5. g[k] = h[k]
      BY <3>1, <3>2, <3>3, <3>4
    <3> QED
      BY <2>2, <3>5
  <2> QED
    BY <2>3, <2>4
<1>4. g[p] = h[p]
  BY <1>2, <1>3
<1> QED
  BY <1>1, <1>4 DEF IsProgress

-----------------------------------------------------------------------------
(* The buffer below the reader.                                            *)

\* The first n elements of a sequence, and the others.
LEMMA Parts ==
    ASSUME NEW s \in Seq(Byte), NEW n \in Nat
    PROVE  /\ Take(s, n) \in Seq(Byte) /\ Drop(s, n) \in Seq(Byte)
           /\ Len(Take(s, n)) = IF n < Len(s) THEN n ELSE Len(s)
           /\ n <= Len(s) => Len(Drop(s, n)) = Len(s) - n
           /\ \A i \in 1 .. Len(Take(s, n)) : Take(s, n)[i] = s[i]
           /\ Take(s, n) \o Drop(s, Len(Take(s, n))) = s
           /\ Len(Take(s, n)) = Len(s) => Take(s, n) = s
<1> DEFINE m == IF n < Len(s) THEN n ELSE Len(s)
<1>1. Len(s) \in Nat /\ \A i \in 1 .. Len(s) : s[i] \in Byte
  BY LenProperties, ElementOfSeq
<1>2. m \in 0 .. Len(s)
  BY <1>1
<1>3. Take(s, n) = SubSeq(s, 1, m)
  BY DEF Take
<1> HIDE DEF m
<1>4. \A i \in 1 .. m : s[i] \in Byte
  BY <1>1, <1>2
<1>5. /\ Take(s, n) \in Seq(Byte)
      /\ Len(Take(s, n)) = IF 1 <= m THEN m - 1 + 1 ELSE 0
      /\ \A i \in 1 .. m - 1 + 1 : SubSeq(s, 1, m)[i] = s[1 + i - 1]
  BY <1>2, <1>3, <1>4, SubSeqProperties
<1>6. Len(Take(s, n)) = m
  BY <1>2, <1>5
<1>7. \A i \in 1 .. m : Take(s, n)[i] = s[i]
  BY <1>2, <1>3, <1>5
<1>8. /\ Drop(s, n) \in Seq(Byte)
      /\ n <= Len(s) => Len(Drop(s, n)) = Len(s) - n
  <2>1. \A i \in n + 1 .. Len(s) : s[i] \in Byte
    BY <1>1
  <2>2. /\ SubSeq(s, n + 1, Len(s)) \in Seq(Byte)
        /\ Len(SubSeq(s, n + 1, Len(s)))
             = IF n + 1 <= Len(s) THEN Len(s) - (n + 1) + 1 ELSE 0
    BY <1>1, <2>1, SubSeqProperties
  <2> QED
    BY <1>1, <2>2 DEF Drop
<1>9. SubSeq(s, 1, m) \o SubSeq(s, m + 1, Len(s)) = s
  <2>1. 1 \in 1 .. Len(s) + 1 /\ m \in 1 - 1 .. Len(s) /\ Len(s) \in m .. Len(s)
    BY <1>1, <1>2
  <2>2. SubSeq(s, 1, m) \o SubSeq(s, m + 1, Len(s)) = SubSeq(s, 1, Len(s))
    BY <2>1, ConcatAdjacentSubSeq
  <2> QED
    BY <2>2, SubSeqFull
<1>10. m = Len(s) => Take(s, n) = s
  BY <1>3, SubSeqFull
<1> QED
  BY <1>3, <1>5, <1>6, <1>7, <1>8, <1>9, <1>10 DEF m, Drop

\* A log without its first p bytes: its elements, and the parts it is made of.
RestOf(log, p) == SubSeq(log, p + 1, Len(log))

LEMMA Rest ==
    ASSUME NEW log \in Seq(Byte), NEW p \in 0 .. Len(log), NEW s,
           s = RestOf(log, p)
    PROVE  /\ s \in Seq(Byte)
           /\ Len(s) = Len(log) - p
           /\ \A i \in 1 .. Len(s) : s[i] = log[p + i]
           /\ \A n \in 0 .. Len(s) :
                  /\ SubSeq(s, 1, n) = SubSeq(log, p + 1, p + n)
                  /\ Drop(s, n) = RestOf(log, p + n)
<1>1. Len(log) \in Nat /\ p \in Nat /\ \A i \in 1 .. Len(log) : log[i] \in Byte
  BY LenProperties, ElementOfSeq
<1>2. \A i \in p + 1 .. Len(log) : log[i] \in Byte
  BY <1>1
<1>3. /\ s \in Seq(Byte)
      /\ Len(s) = IF p + 1 <= Len(log) THEN Len(log) - (p + 1) + 1 ELSE 0
      /\ \A i \in 1 .. Len(log) - (p + 1) + 1 : s[i] = log[p + 1 + i - 1]
  BY <1>1, <1>2, SubSeqProperties DEF RestOf
<1>4. Len(s) = Len(log) - p
  BY <1>1, <1>3
<1>5. \A i \in 1 .. Len(s) : s[i] = log[p + i]
  <2> TAKE i \in 1 .. Len(s)
  <2>1. i \in 1 .. Len(log) - (p + 1) + 1 /\ p + 1 + i - 1 = p + i
    BY <1>1, <1>4
  <2> QED
    BY <1>3, <2>1
<1>6. ASSUME NEW n \in 0 .. Len(s)
      PROVE  SubSeq(s, 1, n) = SubSeq(log, p + 1, p + n)
  <2>1. n \in Nat /\ p + n \in Nat
    BY <1>1
  <2>2. CASE n = 0
    BY <1>1, <2>2, SubSeqEmpty
  <2>3. CASE n # 0
    <3>1. /\ p + 1 \in 1 .. Len(log) /\ Len(log) \in 1 .. Len(log)
          /\ 1 \in 1 .. Len(log) - (p + 1) + 1 /\ n \in 1 .. Len(log) - (p + 1) + 1
          /\ (p + 1) + 1 - 1 = p + 1 /\ (p + 1) + n - 1 = p + n
      BY <1>1, <1>4, <2>1, <2>3
    <3>2. SubSeq(SubSeq(log, p + 1, Len(log)), 1, n)
            = SubSeq(log, (p + 1) + 1 - 1, (p + 1) + n - 1)
      BY <1>3, <3>1, SubSeqOfSubSeq DEF RestOf
    <3> QED
      BY <3>1, <3>2 DEF RestOf
  <2> QED
    BY <2>2, <2>3
<1>7. ASSUME NEW n \in 0 .. Len(s)
      PROVE  Drop(s, n) = RestOf(log, p + n)
  <2>1. n \in Nat /\ p + n \in Nat
    BY <1>1
  <2>2. CASE n = Len(s)
    <3>1. n + 1 \in Int /\ Len(s) \in Int /\ Len(s) < n + 1
      BY <1>1, <1>4, <2>1, <2>2
    <3>2. Drop(s, n) = <<>>
      BY <3>1, SubSeqEmpty DEF Drop
    <3>3. p + n + 1 \in Int /\ Len(log) \in Int /\ Len(log) < p + n + 1
      BY <1>1, <1>4, <2>2
    <3>4. SubSeq(log, p + n + 1, Len(log)) = <<>>
      BY <3>3, SubSeqEmpty
    <3> QED
      BY <3>2, <3>4 DEF RestOf
  <2>3. CASE n # Len(s)
    <3>0. n < Len(s) /\ Len(s) \in Nat
      BY <1>1, <1>4, <2>1, <2>3
    <3>1. /\ p + 1 \in 1 .. Len(log) /\ Len(log) \in 1 .. Len(log)
          /\ n + 1 \in 1 .. Len(log) - (p + 1) + 1
          /\ Len(s) \in 1 .. Len(log) - (p + 1) + 1
          /\ (p + 1) + (n + 1) - 1 = p + n + 1
          /\ (p + 1) + Len(s) - 1 = Len(log)
      <4>1. Len(log) - (p + 1) + 1 = Len(s) /\ (p + 1) + Len(s) - 1 = Len(log)
        BY <1>1, <1>4
      <4>2. p + 1 \in 1 .. Len(log) /\ Len(log) \in 1 .. Len(log)
        BY <1>1, <1>4, <2>1, <3>0
      <4>3. n + 1 \in 1 .. Len(s) /\ Len(s) \in 1 .. Len(s)
        BY <2>1, <3>0
      <4>4. (p + 1) + (n + 1) - 1 = p + n + 1
        BY <1>1, <2>1
      <4> QED
        BY <4>1, <4>2, <4>3, <4>4
    <3>2. SubSeq(SubSeq(log, p + 1, Len(log)), n + 1, Len(s))
            = SubSeq(log, (p + 1) + (n + 1) - 1, (p + 1) + Len(s) - 1)
      BY <1>3, <3>1, SubSeqOfSubSeq DEF RestOf
    <3> QED
      BY <3>1, <3>2 DEF Drop, RestOf
  <2> QED
    BY <2>2, <2>3
<1> QED
  BY <1>3, <1>4, <1>5, <1>6, <1>7

\* The first place of a byte, if it is anywhere.
LEMMA FirstPlace ==
    ASSUME NEW s \in Seq(Byte), NEW b
    PROVE  LET i == SelectInSeq(s, LAMBDA x : x = b)
           IN  \/ /\ i \in 1 .. Len(s) /\ s[i] = b
                  /\ \A j \in 1 .. i - 1 : s[j] # b
               \/ i = 0 /\ \A j \in 1 .. Len(s) : s[j] # b
<1> DEFINE I == {j \in 1 .. Len(s) : s[j] = b}
           first == SelectInSeq(s, LAMBDA x : x = b)
<1>1. Len(s) \in Nat
  BY LenProperties
<1>2. first = IF I # {} THEN CHOOSE x \in I : \A y \in I : x =< y ELSE 0
  BY Zenon DEF SelectInSeq, Min
<1>3. CASE I = {}
  <2>1. first = 0 /\ \A j \in 1 .. Len(s) : s[j] # b
    BY <1>2, <1>3
  <2> QED
    BY <2>1, Zenon
<1>4. CASE I # {}
  <2>1. I \in SUBSET Nat
    OBVIOUS
  <2> HIDE DEF I
  <2>2. \E x \in I : \A y \in I : x =< y
    BY <1>4, <2>1, LeastNatural
  <2> PICK i : i = first
    OBVIOUS
  <2>3. i \in I /\ \A y \in I : i =< y
    BY <1>2, <1>4, <2>2
  <2>4. i \in 1 .. Len(s) /\ s[i] = b
    BY <2>3 DEF I
  <2>5. \A j \in 1 .. i - 1 : s[j] # b
    <3> SUFFICES ASSUME NEW j \in 1 .. i - 1, s[j] = b PROVE FALSE
      OBVIOUS
    <3>1. j \in 1 .. Len(s) /\ ~(i =< j)
      BY <1>1, <2>4
    <3>2. j \in I
      BY <3>1 DEF I
    <3> QED
      BY <2>3, <3>1, <3>2
  <2> QED
    BY <2>4, <2>5, Zenon
<1> QED
  BY <1>3, <1>4

\* What ReadSlice gives out of a log of which p bytes are taken: a piece that
\* ends with the first delimiter, or one without a delimiter that is all there
\* is or all that the buffer holds.
Sliced(delim, p, got, n) ==
    /\ n \in 0 .. Len(text) - p
    /\ Len(got.slice) = n
    /\ got.slice = SubSeq(text, p + 1, p + n)
    /\ \/ /\ got.err = nil
          /\ n > 0
          /\ text[p + n] = delim
          /\ \A i \in p + 1 .. p + n - 1 : text[i] # delim
       \/ /\ got.err \in {"EOF", "full"}
          /\ \A i \in p + 1 .. p + n : text[i] # delim
          /\ got.err = "EOF" => p + n = Len(text)
          /\ got.err = "full" => n = BufferSize

\* The reader has taken p bytes.
Taken(p) == p \in 0 .. Len(text) /\ unread = RestOf(text, p)

LEMMA SliceRead ==
    ASSUME text \in Seq(Byte), NEW p, Taken(p), NEW delim
    PROVE  \E n \in 0 .. Len(unread) : Sliced(delim, p, ReadSlice(delim), n)
<1>1. Len(text) \in Nat /\ p \in Nat /\ p <= Len(text)
  BY LenProperties DEF Taken
<1>2. /\ unread \in Seq(Byte)
      /\ Len(unread) = Len(text) - p
      /\ \A i \in 1 .. Len(unread) : unread[i] = text[p + i]
      /\ \A n \in 0 .. Len(unread) : SubSeq(unread, 1, n) = SubSeq(text, p + 1, p + n)
  <2>1. p \in 0 .. Len(text)
    BY Zenon DEF Taken
  <2>2. ASSUME NEW s, s = RestOf(text, p)
        PROVE  /\ s \in Seq(Byte)
               /\ Len(s) = Len(text) - p
               /\ \A i \in 1 .. Len(s) : s[i] = text[p + i]
               /\ \A n \in 0 .. Len(s) : SubSeq(s, 1, n) = SubSeq(text, p + 1, p + n)
    <3>1. \A n \in 0 .. Len(s) : SubSeq(s, 1, n) = SubSeq(text, p + 1, p + n)
      BY <2>1, <2>2, Rest, Zenon
    <3>2. /\ s \in Seq(Byte)
          /\ Len(s) = Len(text) - p
          /\ \A i \in 1 .. Len(s) : s[i] = text[p + i]
      BY <2>1, <2>2, Rest, Zenon
    <3> QED
      BY <3>1, <3>2, Zenon
  <2> QED
    BY <2>2, Zenon DEF Taken
<1>3. BufferSize \in Nat \ {0}
  BY ReaderAssumption
<1> DEFINE held == Take(unread, BufferSize)
           m == IF BufferSize < Len(unread) THEN BufferSize ELSE Len(unread)
           i == SelectInSeq(held, LAMBDA b : b = delim)
           got == ReadSlice(delim)
<1>4. /\ held \in Seq(Byte) /\ Len(held) = m
      /\ \A j \in 1 .. Len(held) : held[j] = unread[j]
  BY <1>2, <1>3, Parts
<1>5. m \in 0 .. Len(unread) /\ m <= BufferSize
  BY <1>1, <1>2, <1>3
<1>6. \A j \in 1 .. m : held[j] = text[p + j]
  BY <1>2, <1>4, <1>5
<1>7. held = SubSeq(unread, 1, m)
  BY <1>1, <1>2, <1>3 DEF Take
<1>8. \/ /\ i \in 1 .. m /\ held[i] = delim
         /\ \A j \in 1 .. i - 1 : held[j] # delim
      \/ i = 0 /\ \A j \in 1 .. m : held[j] # delim
  <2> HIDE DEF held, m
  <2>1. held \in Seq(Byte) /\ m = Len(held)
    BY <1>4
  <2> HIDE DEF i
  <2>2. \/ /\ i \in 1 .. Len(held) /\ held[i] = delim
           /\ \A j \in 1 .. i - 1 : held[j] # delim
        \/ i = 0 /\ \A j \in 1 .. Len(held) : held[j] # delim
    BY <2>1, FirstPlace, Zenon DEF i
  <2> QED
    BY <2>1, <2>2
<1>9. got = IF i > 0
              THEN [slice |-> Take(unread, i), err |-> nil]
              ELSE [slice |-> held, err |-> IF Len(unread) < BufferSize THEN "EOF" ELSE "full"]
  BY Zenon DEF ReadSlice
<1> PICK k : k = i
  OBVIOUS
<1>10. /\ \/ /\ k \in 1 .. m /\ held[k] = delim
             /\ \A j \in 1 .. k - 1 : held[j] # delim
          \/ k = 0 /\ \A j \in 1 .. m : held[j] # delim
       /\ got = IF k > 0
              THEN [slice |-> Take(unread, k), err |-> nil]
              ELSE [slice |-> held, err |-> IF Len(unread) < BufferSize THEN "EOF" ELSE "full"]
  BY <1>8, <1>9
<1> HIDE DEF held, m, i, got
<1>11. CASE k \in 1 .. m /\ held[k] = delim /\ \A j \in 1 .. k - 1 : held[j] # delim
  <2>1. k \in 0 .. Len(unread) /\ k > 0 /\ k \in Nat
    BY <1>1, <1>2, <1>5, <1>11
  <2>2. Take(unread, k) = SubSeq(unread, 1, k)
    <3>1. (IF k < Len(unread) THEN k ELSE Len(unread)) = k
      BY <2>1
    <3> QED
      BY <3>1, Zenon DEF Take
  <2>3. Len(Take(unread, k)) = k
    BY <2>1, <1>1, <1>2, Parts
  <2>4. got.slice = Take(unread, k) /\ got.err = nil
    BY <1>10, <2>1
  <2>5. got.slice = SubSeq(text, p + 1, p + k)
    BY <1>2, <2>1, <2>2, <2>4
  <2>6. text[p + k] = delim
    BY <1>6, <1>11
  <2>7. \A j \in p + 1 .. p + k - 1 : text[j] # delim
    <3> TAKE j \in p + 1 .. p + k - 1
    <3>1. j - p \in 1 .. k - 1 /\ j - p \in 1 .. m /\ p + (j - p) = j
      BY <1>1, <1>5, <1>11, <2>1
    <3> QED
      BY <3>1, <1>6, <1>11
  <2>8. k \in 0 .. Len(text) - p
    BY <1>2, <2>1
  <2>9. Sliced(delim, p, got, k)
    BY <2>1, <2>3, <2>4, <2>5, <2>6, <2>7, <2>8 DEF Sliced
  <2> QED
    BY <2>1, <2>9 DEF got
<1>12. CASE k = 0 /\ \A j \in 1 .. m : held[j] # delim
  <2>1. /\ got.slice = held
        /\ got.err = IF Len(unread) < BufferSize THEN "EOF" ELSE "full"
    BY <1>10, <1>12
  <2>2. got.slice = SubSeq(text, p + 1, p + m)
    BY <1>2, <1>5, <1>7, <2>1
  <2>3. \A j \in p + 1 .. p + m : text[j] # delim
    <3> TAKE j \in p + 1 .. p + m
    <3>1. j - p \in 1 .. m /\ p + (j - p) = j
      BY <1>1, <1>2, <1>5
    <3> QED
      BY <3>1, <1>6, <1>12
  <2>4. /\ got.err = "EOF" => p + m = Len(text)
        /\ got.err = "full" => m = BufferSize
        /\ got.err \in {"EOF", "full"}
    <3>1. CASE Len(unread) < BufferSize
      <4>1. got.err = "EOF" /\ m = Len(unread)
        BY <1>2, <1>3, <1>1, <2>1, <3>1 DEF m
      <4> QED
        BY <4>1, <1>1, <1>2
    <3>2. CASE ~(Len(unread) < BufferSize)
      <4>1. got.err = "full" /\ m = BufferSize
        <5>1. BufferSize < Len(unread) \/ BufferSize = Len(unread)
          <6>1. Len(unread) \in Nat
            BY <1>1, <1>2
          <6> QED
            BY <6>1, <1>3, <3>2
        <5>2. m = BufferSize
          BY <5>1 DEF m
        <5>3. got.err = "full"
          BY <2>1, <3>2, Zenon
        <5> QED
          BY <5>2, <5>3
      <4> QED
        BY <4>1
    <3> QED
      BY <3>1, <3>2
  <2>5. m \in 0 .. Len(text) - p /\ Len(got.slice) = m
    BY <1>2, <1>4, <1>5, <2>1
  <2>6. Sliced(delim, p, got, m)
    BY <2>2, <2>3, <2>4, <2>5 DEF Sliced
  <2> QED
    BY <1>5, <2>6 DEF got
<1> QED
  BY <1>10, <1>11, <1>12

\* The two delimiters.
Brace == "{"
Newline == "\n"

\* What the n bytes that ReadSlice gives out say, when it looks for what the
\* log is up to.
Says(h, p, got, n) ==
    /\ p + n \in 0 .. Len(text)
    /\ h[p + n].on = IF got.err = nil THEN ~h[p].on ELSE h[p].on
    /\ h[p].on => h[p + n].json = h[p].json \o got.slice
    /\ ~h[p].on => h[p + n].json = IF got.err = nil THEN Append(h[p].json, Brace)
                                                    ELSE h[p].json
    /\ got.err = "full" => Wanted(h[p].on) \in h[p + n].far
    /\ h[p].far \subseteq h[p + n].far

LEMMA SliceSays ==
    ASSUME text \in Seq(Byte), NEW h, IsProgress(text, h),
           NEW p \in 0 .. Len(text), NEW got, NEW n,
           Sliced(Wanted(h[p].on), p, got, n)
    PROVE  Says(h, p, got, n)
<1>1. /\ Len(text) \in Nat /\ p \in Nat /\ n \in 0 .. Len(text) - p /\ n \in Nat
      /\ p + n \in p .. Len(text) /\ p + n \in 0 .. Len(text)
  BY LenProperties DEF Sliced
<1>2. h[p].far \subseteq h[p + n].far
  BY <1>1, Later, Zenon
<1>3. got.slice = SubSeq(text, p + 1, p + n)
  BY DEF Sliced
<1>4. CASE got.err = nil
  <2>1. /\ n > 0 /\ text[p + n] = Wanted(h[p].on)
        /\ \A i \in p + 1 .. p + n - 1 : text[i] # Wanted(h[p].on)
    BY <1>4, ReaderAssumption DEF Sliced
  <2>2. PICK q \in Nat : q = p + n - 1
    BY <1>1, <2>1
  <2>3. p <= q /\ q < Len(text) /\ q <= Len(text) /\ q \in 0 .. Len(text) - 1 /\ q + 1 = p + n
    BY <1>1, <2>1, <2>2
  <2>4. Passes(text, h, p, q)
    BY <1>1, <2>1, <2>2, <2>3, NotWanted
  <2>5. text[q + 1] = Wanted(h[q].on)
    BY <2>1, <2>3, <2>4 DEF Passes
  <2>6. /\ h[q + 1].on = ~h[q].on
        /\ h[q + 1].json = Append(h[q].json, text[q + 1])
    BY <2>3, <2>5, OneByte
  <2>7. h[p].json \in Seq(Byte)
    BY <1>1, ProgressType DEF ParseState
  <2>8. CASE h[p].on
    <3>1. Append(h[p].json \o SubSeq(text, p + 1, q), text[q + 1])
            = h[p].json \o SubSeq(text, p + 1, q + 1)
      <4>1. p \in Nat /\ q \in Nat /\ p <= q /\ q < Len(text)
        BY <1>1, <2>2, <2>3, Zenon
      <4> QED
        BY <2>7, <4>1, LongerPiece, Zenon
    <3>2. h[q].json = h[p].json \o SubSeq(text, p + 1, q)
      BY <2>4, <2>8, Zenon DEF Passes
    <3>3. h[q + 1].json = h[p].json \o SubSeq(text, p + 1, q + 1)
      BY <2>6, <3>1, <3>2, Zenon
    <3>4. h[p + n].json = h[p].json \o got.slice
      BY <1>3, <2>3, <3>3
    <3> QED
      BY <1>1, <1>2, <1>4, <2>3, <2>4, <2>6, <2>8, <3>4, ReaderAssumption DEF Passes, Says
  <2>9. CASE ~h[p].on
    <3>1. h[q].json = h[p].json
      BY <2>4, <2>9, Zenon DEF Passes
    <3>2. text[q + 1] = Brace
      <4>1. Wanted(h[p].on) = Brace
        BY <2>9, Zenon DEF Wanted, Brace
      <4> QED
        BY <2>1, <2>3, <4>1
    <3>3. h[p + n].json = Append(h[p].json, Brace)
      BY <2>3, <2>6, <3>1, <3>2
    <3> QED
      BY <1>1, <1>2, <1>4, <2>3, <2>4, <2>6, <2>9, <3>3, ReaderAssumption DEF Passes, Says
  <2> QED
    BY <2>8, <2>9
<1>5. CASE got.err # nil
  <2>1. /\ \A i \in p + 1 .. p + n : text[i] # Wanted(h[p].on)
        /\ got.err = "full" => n = BufferSize
    BY <1>5 DEF Sliced
  <2>2. Passes(text, h, p, p + n)
    BY <1>1, <2>1, NotWanted
  <2>3. (p + n) - p = n
    BY <1>1
  <2>4. /\ h[p].on => h[p + n].json = h[p].json \o got.slice
        /\ ~h[p].on => h[p + n].json = h[p].json
    BY <1>3, <2>2, Zenon DEF Passes
  <2>5. /\ got.err = "full" => Wanted(h[p].on) \in h[p + n].far
        /\ h[p + n].on = h[p].on
    BY <2>1, <2>2, <2>3, Zenon DEF Passes
  <2> QED
    BY <1>1, <1>2, <1>5, <2>4, <2>5, Zenon DEF Says
<1> QED
  BY <1>4, <1>5

-----------------------------------------------------------------------------
(* The invariant.                                                          *)

\* The loop of Read runs when nothing is left over.
LoopIsFree == pc # "idle" => leftover = <<>> /\ err = nil /\ result = nil

\* The JSON of some line among the first p bytes is too long for the buffer.
LostAt(h, p) == Newline \in h[p].far

\* What the p bytes that are taken say has been given to the decoder but for
\* leftover.  The reader looks for what the log is up to: outside the loop too
\* that is a brace, unless an error is kept for the call after leftover or the
\* log is at its end.  The errors say of the log what the buffer saw.
Reading(h, p) ==
    /\ h[p].json = delivered \o leftover
    /\ pc = "line" => h[p].on
    /\ pc = "brace" \/ (pc = "idle" /\ err = nil) => ~h[p].on \/ p = Len(text)
    /\ err = "full" \/ result = "full" => h[p].far # {}
    /\ err = "EOF" => p = Len(text) /\ ~EndsInNewline(text)
    /\ result = "EOF" => p = Len(text) /\ (leftover = <<>> \/ ~EndsInNewline(text))

Inv ==
    /\ TypeOK
    /\ LoopIsFree
    /\ \E p \in 0 .. Len(text) :
           /\ Taken(p)
           /\ LostAt(Progress(text), p) \/ Reading(Progress(text), p)

LEMMA InitReading ==
    ASSUME Init
    PROVE  TypeOK /\ LoopIsFree /\ Taken(0) /\ \A h : IsProgress(text, h) => Reading(h, 0)
<1>1. text \in Seq(Byte)
  <2>1. PICK n \in 0 .. MaxText : text \in [1 .. n -> Byte]
    BY DEF Init
  <2>2. n \in Nat
    BY ReaderAssumption
  <2> QED
    BY <2>1, <2>2, IsASeq
<1>2. Len(text) \in Nat
  BY <1>1, LenProperties
<1>3. TypeOK
  BY <1>1, EmptySeq DEF Init, TypeOK
<1>4. Taken(0)
  BY <1>1, <1>2, SubSeqFull DEF Init, Taken, RestOf
<1>5. ASSUME NEW h, IsProgress(text, h)
      PROVE  Reading(h, 0)
  <2>1. h[0] = Unparsed
    BY <1>5 DEF IsProgress
  <2>2. h[0].json = <<>> /\ h[0].on = FALSE
    BY <2>1 DEF Unparsed
  <2>3. <<>> \o <<>> = <<>>
    BY EmptySeq, ConcatEmptySeq
  <2> QED
    BY <2>2, <2>3, ReaderAssumption DEF Init, Reading
<1>6. LoopIsFree
  BY DEF Init, LoopIsFree
<1> QED
  BY <1>3, <1>4, <1>5, <1>6

\* The first part of a call hands out leftover, in one piece or in several.
LEMMA ReadReading ==
    ASSUME TypeOK, NEW h, NEW p, Taken(p), NEW size \in ReadSize, Read(size)
    PROVE  TypeOK' /\ LoopIsFree' /\ Taken(p)' /\ (Reading(h, p) => Reading(h, p)')
<1> DEFINE piece == Take(leftover, size)
           more == Drop(leftover, Len(piece))
<1>1. /\ size \in Nat /\ leftover \in Seq(Byte) /\ delivered \in Seq(Byte)
      /\ Len(leftover) \in Nat
  BY ReaderAssumption, LenProperties DEF TypeOK
<1>2. /\ piece \in Seq(Byte)
      /\ Len(piece) = IF size < Len(leftover) THEN size ELSE Len(leftover)
      /\ piece \o more = leftover
  BY <1>1, Parts
<1>3. more \in Seq(Byte) /\ Len(more) = Len(leftover) - Len(piece)
  <2>1. Len(piece) \in Nat /\ Len(piece) <= Len(leftover)
    BY <1>1, <1>2
  <2> HIDE DEF piece
  <2> QED
    BY <1>1, <2>1, Parts
<1>4. /\ delivered' = delivered \o piece /\ leftover' = more
      /\ UNCHANGED <<text, unread, err>> /\ pc = "idle"
      /\ given' = Len(piece)
      /\ IF err = nil THEN Continue(size - Len(piece)) ELSE ReturnError(err)
  <2>1. Len(piece) \in Nat
    BY <1>2, LenProperties
  <2> HIDE DEF piece
  <2>2. /\ Deliver(piece, 0) /\ leftover' = more
        /\ UNCHANGED <<text, unread, err>> /\ pc = "idle"
        /\ IF err = nil THEN Continue(size - Len(piece)) ELSE ReturnError(err)
    BY Zenon DEF Read, piece
  <2> QED
    BY <2>1, <2>2 DEF Deliver
<1> HIDE DEF piece, more
<1>5. delivered' \in Seq(Byte) /\ leftover' \in Seq(Byte)
  BY <1>1, <1>2, <1>3, <1>4, ConcatProperties
<1>6. delivered' \o leftover' = delivered \o leftover
  <2>1. (delivered \o piece) \o more = delivered \o (piece \o more)
    <3>1. delivered \in Seq(Byte) /\ piece \in Seq(Byte) /\ more \in Seq(Byte)
      BY <1>1, <1>2, <1>3
    <3> QED
      BY <3>1, ConcatAssociative
  <2> QED
    BY <1>2, <1>4, <2>1, Zenon
<1>7. Taken(p)'
  BY <1>4 DEF Taken
<1>8. Reading(h, p) => h[p].json = (delivered \o leftover)'
  BY <1>6 DEF Reading
<1>11. given' \in Nat
  BY <1>1, <1>2, <1>4
<1>9. CASE err = nil
  <2>1. /\ room' = size - Len(piece) /\ result' = nil /\ err' = nil
        /\ pc' = IF size - Len(piece) > 0 THEN "brace" ELSE "idle"
    BY <1>4, <1>9 DEF Continue
  <2>2. size - Len(piece) \in Nat
    BY <1>1, <1>2
  <2>3. pc' = "brace" => leftover' = <<>> /\ room' > 0
    <3>1. SUFFICES ASSUME pc' = "brace" PROVE leftover' = <<>> /\ room' > 0
      OBVIOUS
    <3>2. size - Len(piece) > 0
      BY <2>1, <3>1
    <3>3. Len(piece) = Len(leftover)
      BY <1>1, <1>2, <3>2
    <3>4. Len(more) = 0
      BY <1>1, <1>3, <3>3
    <3>5. more = <<>>
      BY <1>3, <3>4, EmptySeq
    <3> QED
      BY <1>4, <2>1, <3>2, <3>5
  <2>4. TypeOK'
    BY <1>4, <1>5, <1>11, <2>1, <2>2, <2>3 DEF TypeOK
  <2>5. LoopIsFree'
    BY <2>1, <2>3 DEF LoopIsFree
  <2>6. ASSUME Reading(h, p) PROVE Reading(h, p)'
    <3>1. ~h[p].on \/ p = Len(text)
      BY <1>4, <1>9, <2>6 DEF Reading
    <3>2. ~h[p].on \/ p = Len(text)'
      BY <1>4, <3>1
    <3> QED
      BY <1>8, <2>1, <2>6, <3>2, ReaderAssumption DEF Reading
  <2> QED
    BY <1>7, <2>4, <2>5, <2>6
<1>10. CASE err # nil
  <2>1. room' = 0 /\ pc' = "idle" /\ result' = err /\ err' = err
    BY <1>4, <1>10 DEF ReturnError
  <2>2. TypeOK'
    BY <1>4, <1>5, <1>11, <2>1 DEF TypeOK
  <2>3. LoopIsFree'
    BY <2>1 DEF LoopIsFree
  <2>4. ASSUME Reading(h, p) PROVE Reading(h, p)'
    <3>1. /\ err = "full" => h[p].far # {}
          /\ err = "EOF" => p = Len(text) /\ ~EndsInNewline(text)
          /\ text' = text
      BY <1>4, <2>4 DEF Reading
    <3>2. err' = "EOF" => p = Len(text)' /\ ~EndsInNewline(text)'
      BY <2>1, <3>1
    <3> QED
      BY <1>8, <1>10, <2>1, <2>4, <3>1, <3>2 DEF Reading
  <2> QED
    BY <1>7, <2>2, <2>3, <2>4
<1> QED
  BY <1>9, <1>10

\* The two calls of ReadSlice leave what the buffer has not given out.
LEMMA SliceTaken ==
    ASSUME text \in Seq(Byte), NEW p, Taken(p), NEW delim, NEW n,
           n \in 0 .. Len(unread), text' = text, unread' = Drop(unread, n)
    PROVE  Taken(p + n)' /\ p + n \in p .. Len(text) /\ p + n \in 0 .. Len(text)
<1>1. p \in 0 .. Len(text) /\ Len(text) \in Nat
  BY LenProperties DEF Taken
<1>2. /\ Len(unread) = Len(text) - p
      /\ \A m \in 0 .. Len(unread) : Drop(unread, m) = RestOf(text, p + m)
  BY Rest DEF Taken
<1>3. unread' = RestOf(text, p + n)
  BY <1>2
<1>4. p + n \in p .. Len(text) /\ p + n \in 0 .. Len(text)
  BY <1>1, <1>2
<1> QED
  BY <1>3, <1>4 DEF Taken

\* What has been given out of the log is its first p bytes.
LEMMA ConsumedSays ==
    ASSUME text \in Seq(Byte), NEW h, IsProgress(text, h), NEW p, Taken(p)
    PROVE  Parse(Consumed) = h[p]
<1>1. p \in 0 .. Len(text) /\ Len(text) \in Nat /\ p \in Nat
  BY LenProperties DEF Taken
<1>2. Len(unread) = Len(text) - p
  BY <1>1, Rest DEF Taken
<1>3. Len(text) - Len(unread) = p
  BY <1>1, <1>2
<1>4. Consumed = Take(text, p)
  BY <1>3 DEF Consumed
<1> PICK a : a = Take(text, p)
  OBVIOUS
<1>5. /\ a \in Seq(Byte)
      /\ Len(a) = IF p < Len(text) THEN p ELSE Len(text)
      /\ \A i \in 1 .. Len(a) : a[i] = text[i]
  BY <1>1, Parts
<1>6. Len(a) = p
  BY <1>1, <1>5
<1>7. Parse(a) = h[p]
  BY <1>1, <1>5, <1>6, BeginningSays
<1> QED
  BY <1>4, <1>7

LEMMA ReadBraceReading ==
    ASSUME TypeOK, LoopIsFree, NEW h, IsProgress(text, h), NEW p, Taken(p), ReadBrace
    PROVE  /\ TypeOK' /\ LoopIsFree'
           /\ \E q \in p .. Len(text) : Taken(q)' /\ (Reading(h, p) => Reading(h, q)')
<1>1. text \in Seq(Byte) /\ delivered \in Seq(Byte) /\ room \in Nat /\ given \in Nat
      /\ pc = "brace" /\ room > 0 /\ leftover = <<>> /\ err = nil /\ result = nil
      /\ p \in 0 .. Len(text)
  BY ReaderAssumption DEF TypeOK, LoopIsFree, ReadBrace, Taken
<1>2. PICK n \in 0 .. Len(unread) : Sliced(Brace, p, ReadSlice(Brace), n)
  BY <1>1, SliceRead
<1> PICK got : got = ReadSlice(Brace)
  OBVIOUS
<1>3. Sliced(Brace, p, got, n) /\ Len(got.slice) = n
  BY <1>2 DEF Sliced
<1>4. /\ unread' = Drop(unread, n) /\ UNCHANGED <<text, leftover, err>>
      /\ IF got.err # nil
             THEN ReturnError(got.err) /\ UNCHANGED <<delivered, given>>
             ELSE /\ Deliver(<<Brace>>, given)
                  /\ room' = room - 1
                  /\ pc' = "line"
                  /\ UNCHANGED result
  <2>1. LET r == ReadSlice("{")
        IN  /\ unread' = Drop(unread, Len(r.slice)) /\ UNCHANGED <<text, leftover, err>>
            /\ IF r.err # nil
                   THEN ReturnError(r.err) /\ UNCHANGED <<delivered, given>>
                   ELSE /\ Deliver(<<"{">>, given)
                        /\ room' = room - 1
                        /\ pc' = "line"
                        /\ UNCHANGED result
    BY Zenon DEF ReadBrace
  <2> QED
    BY <1>3, <2>1, Zenon DEF Brace
<1>5. Taken(p + n)' /\ p + n \in p .. Len(text) /\ p + n \in 0 .. Len(text)
  BY <1>1, <1>4, SliceTaken
<1>6. ASSUME ~h[p].on
      PROVE  /\ got.err = nil => h[p + n].on
             /\ h[p + n].on => got.err = nil
             /\ h[p + n].json = IF got.err = nil THEN Append(h[p].json, Brace) ELSE h[p].json
             /\ got.err = "full" => h[p + n].far # {}
  <2>1. Wanted(h[p].on) = Brace
    BY <1>6, Zenon DEF Wanted, Brace
  <2>2. Sliced(Wanted(h[p].on), p, got, n)
    BY <1>3, <2>1
  <2>3. Says(h, p, got, n)
    BY <1>1, <2>2, SliceSays
  <2> QED
    BY <1>6, <2>3, Zenon DEF Says
\* After the last byte there is no brace to look for.
<1>7. ASSUME p = Len(text)
      PROVE  n = 0 /\ p + n = p /\ got.err = "EOF"
  <2>1. n = 0 /\ p + n = p /\ Len(text) \in Nat
    BY <1>1, <1>3, <1>7, LenProperties DEF Sliced
  <2>2. got.err # nil /\ got.err # "full"
    <3>1. ~(n > 0) /\ n # BufferSize /\ nil \notin {"EOF", "full"}
      BY <2>1, ReaderAssumption
    <3> QED
      BY <1>3, <3>1, Zenon DEF Sliced
  <2>3. got.err \in {nil, "EOF", "full"}
    BY <1>3 DEF Sliced
  <2> QED
    BY <2>1, <2>2, <2>3
<1>8. Reading(h, p) => h[p].json = delivered /\ (~h[p].on \/ p = Len(text))
  <2>1. Reading(h, p) => h[p].json = delivered \o <<>> /\ (~h[p].on \/ p = Len(text))
    BY <1>1 DEF Reading
  <2> QED
    BY <1>1, <2>1, ConcatEmptySeq
<1>9. unread' \in Seq(Byte)
  <2>1. unread \in Seq(Byte) /\ n \in Nat
    <3>1. unread \in Seq(Byte)
      BY DEF TypeOK
    <3>2. Len(unread) \in Nat
      BY <3>1, LenProperties
    <3> QED
      BY <3>1, <3>2
  <2>2. Drop(unread, n) \in Seq(Byte)
    BY <2>1, Parts
  <2> QED
    BY <1>4, <2>2
<1> PICK q : q = p + n
  OBVIOUS
<1>10. CASE got.err = nil
  <2>1. delivered' = delivered \o <<Brace>> /\ room' = room - 1 /\ pc' = "line"
        /\ result' = nil /\ err' = nil /\ leftover' = <<>>
        /\ given' = given + Len(<<Brace>>)
    BY <1>1, <1>4, <1>10 DEF Deliver
  <2>2. Brace \in Byte
    BY Zenon DEF Byte, Brace
  <2>3. delivered' \in Seq(Byte) /\ delivered' = Append(delivered, Brace)
    <3>1. Append(delivered, Brace) = delivered \o <<Brace>>
      BY <1>1, <2>2, AppendIsConcat
    <3>2. Append(delivered, Brace) \in Seq(Byte)
      BY <1>1, <2>2, AppendProperties
    <3> QED
      BY <2>1, <3>1, <3>2
  <2>4. delivered' \o <<>> = delivered'
    BY <2>3, ConcatEmptySeq
  <2>5. TypeOK'
    <3>1. room' \in Nat /\ given' \in Nat
      <4>1. room \in Nat /\ room > 0 /\ room' = room - 1
        BY <1>1, <2>1, Zenon
      <4>2. given' \in Nat
        BY <1>1, <2>1
      <4> QED
        BY <4>1, <4>2
    <3>2. text' \in Seq(Byte) /\ leftover' \in Seq(Byte)
      BY <1>1, <1>4, <2>1, EmptySeq
    <3> QED
      BY <1>9, <2>1, <2>3, <3>1, <3>2 DEF TypeOK
  <2>6. LoopIsFree'
    BY <2>1 DEF LoopIsFree
  <2>7. ASSUME Reading(h, p) PROVE Reading(h, q)'
    <3>1. h[p].json = delivered /\ ~h[p].on
      <4>1. p # Len(text)
        BY <1>7, <1>10, ReaderAssumption
      <4> QED
        BY <1>8, <2>7, <4>1
    <3>2. h[q].on /\ h[q].json = delivered'
      BY <1>6, <1>10, <2>3, <3>1
    <3>3. h[q].json = (delivered \o leftover)'
      BY <2>1, <2>4, <3>2
    <3> QED
      BY <2>1, <3>2, <3>3, ReaderAssumption DEF Reading
  <2> QED
    BY <1>5, <2>5, <2>6, <2>7
<1>11. CASE got.err # nil
  <2>1. room' = 0 /\ pc' = "idle" /\ result' = got.err /\ err' = nil
        /\ delivered' = delivered /\ given' = given /\ leftover' = <<>> /\ text' = text
    BY <1>1, <1>4, <1>11 DEF ReturnError
  <2>2. got.err \in {"EOF", "full"} /\ (got.err = "EOF" => q = Len(text))
    BY <1>3, <1>11 DEF Sliced
  <2>3. TypeOK'
    BY <1>1, <1>4, <1>9, <2>1, <2>2 DEF TypeOK
  <2>4. LoopIsFree'
    BY <2>1 DEF LoopIsFree
  <2>5. ASSUME Reading(h, p) PROVE Reading(h, q)'
    <3>1. /\ h[q].json = h[p].json /\ (~h[q].on \/ q = Len(text))
          /\ got.err = "full" => h[q].far # {}
      <4>1. CASE ~h[p].on
        BY <1>6, <1>11, <4>1
      <4>2. CASE p = Len(text)
        BY <1>7, <4>2
      <4> QED
        BY <1>8, <2>5, <4>1, <4>2
    <3>2. h[q].json = (delivered \o leftover)'
      BY <1>1, <1>8, <2>1, <2>5, <3>1, ConcatEmptySeq
    <3> QED
      BY <2>1, <2>2, <3>1, <3>2, ReaderAssumption DEF Reading
  <2> QED
    BY <1>5, <2>3, <2>4, <2>5
<1> QED
  BY <1>10, <1>11

LEMMA ReadLineReading ==
    ASSUME TypeOK, LoopIsFree, NEW h, IsProgress(text, h), NEW p, Taken(p), ReadLine
    PROVE  /\ TypeOK' /\ LoopIsFree'
           /\ \E q \in p .. Len(text) :
                 Taken(q)' /\ (Reading(h, p) => LostAt(h, q) \/ Reading(h, q)')
<1>1. text \in Seq(Byte) /\ delivered \in Seq(Byte) /\ room \in Nat /\ given \in Nat
      /\ pc = "line" /\ leftover = <<>> /\ err = nil /\ result = nil
      /\ p \in 0 .. Len(text)
  <2>1. pc = "line"
    BY Zenon DEF ReadLine
  <2>2. pc # "idle"
    BY <2>1
  <2> QED
    BY <2>1, <2>2, Zenon DEF TypeOK, LoopIsFree, Taken
<1>2. Reading(h, p) => h[p].on
  BY <1>1 DEF Reading
<1>3. PICK n \in 0 .. Len(unread) : Sliced(Newline, p, ReadSlice(Newline), n)
  BY <1>1, SliceRead
<1> PICK got : got = ReadSlice(Newline)
  OBVIOUS
<1> PICK piece : piece = Take(got.slice, room)
  OBVIOUS
<1>4. Sliced(Newline, p, got, n) /\ Len(got.slice) = n /\ n \in Nat
  <2>1. n \in Nat
    <3>1. unread \in Seq(Byte)
      BY DEF TypeOK
    <3> QED
      BY <3>1, LenProperties
  <2> QED
    BY <1>3, <2>1 DEF Sliced
<1>5. /\ unread' = Drop(unread, n) /\ text' = text /\ Deliver(piece, given)
      /\ \/ /\ Len(piece) < Len(got.slice)
            /\ leftover' = Drop(got.slice, Len(piece))
            /\ err' = got.err
            /\ Continue(0)
         \/ /\ Len(piece) = Len(got.slice)
            /\ IF got.err = nil THEN Continue(room - Len(piece))
                                ELSE ReturnError(got.err)
            /\ UNCHANGED <<leftover, err>>
  <2>1. LET r == ReadSlice("\n")
            s == Take(r.slice, room)
        IN  /\ unread' = Drop(unread, Len(r.slice)) /\ Deliver(s, given)
            /\ \/ /\ Len(s) < Len(r.slice)
                  /\ leftover' = Drop(r.slice, Len(s))
                  /\ err' = r.err
                  /\ Continue(0)
               \/ /\ Len(s) = Len(r.slice)
                  /\ IF r.err = nil THEN Continue(room - Len(s)) ELSE ReturnError(r.err)
                  /\ UNCHANGED <<leftover, err>>
    BY Zenon DEF ReadLine
  <2>2. text' = text
    BY Zenon DEF ReadLine
  <2> QED
    BY <1>4, <2>1, <2>2, Zenon DEF Newline
<1>6. Taken(p + n)' /\ p + n \in p .. Len(text) /\ p + n \in 0 .. Len(text)
  BY <1>1, <1>4, <1>5, SliceTaken
<1> DEFINE Follows ==
               /\ got.err = nil => ~h[p + n].on
               /\ h[p + n].json = delivered \o got.slice
               /\ got.err = "full" => LostAt(h, p + n)
<1>8. Reading(h, p) => Follows
  <2>1. SUFFICES ASSUME Reading(h, p) PROVE Follows
    OBVIOUS
  <2>2. Wanted(h[p].on) = Newline
    BY <1>2, <2>1, Zenon DEF Wanted, Newline
  <2>3. Sliced(Wanted(h[p].on), p, got, n)
    BY <1>4, <2>2
  <2>4. Says(h, p, got, n)
    BY <1>1, <2>3, SliceSays
  <2>5. h[p].json = delivered
    <3>1. h[p].json = delivered \o <<>>
      BY <1>1, <2>1 DEF Reading
    <3> QED
      BY <1>1, <3>1, ConcatEmptySeq
  <2> QED
    BY <1>2, <2>1, <2>2, <2>4, <2>5, Zenon DEF Says, LostAt
<1>10. unread' \in Seq(Byte)
  <2>1. unread \in Seq(Byte)
    BY DEF TypeOK
  <2>2. Drop(unread, n) \in Seq(Byte)
    BY <1>4, <2>1, Parts
  <2> QED
    BY <1>5, <2>2
<1>11. got.slice \in Seq(Byte)
  <2>1. \A i \in p + 1 .. p + n : text[i] \in Byte
    BY <1>1, <1>4, <1>6, LenProperties, ElementOfSeq
  <2>2. p + 1 \in Int /\ p + n \in Int
    BY <1>1, <1>4
  <2>3. SubSeq(text, p + 1, p + n) \in Seq(Byte)
    BY <2>1, <2>2, SubSeqProperties
  <2> QED
    BY <1>4, <2>3 DEF Sliced
<1>12. /\ piece \in Seq(Byte) /\ Drop(got.slice, Len(piece)) \in Seq(Byte)
       /\ Len(piece) = IF room < n THEN room ELSE n
       /\ piece \o Drop(got.slice, Len(piece)) = got.slice
       /\ Len(piece) = n => piece = got.slice
  <2>1. room \in Nat
    BY <1>1, Zenon
  <2>2. /\ Take(got.slice, room) \in Seq(Byte)
        /\ Len(Take(got.slice, room)) = IF room < Len(got.slice) THEN room ELSE Len(got.slice)
        /\ Take(got.slice, room) \o Drop(got.slice, Len(Take(got.slice, room))) = got.slice
        /\ Len(Take(got.slice, room)) = Len(got.slice) => Take(got.slice, room) = got.slice
    BY <1>11, <2>1, Parts
  <2>3. Len(piece) \in Nat
    BY <2>2, LenProperties
  <2>4. Drop(got.slice, Len(piece)) \in Seq(Byte)
    BY <1>11, <2>3, Parts
  <2>5. Len(got.slice) = n
    BY <1>4
  <2> QED
    BY <2>2, <2>4, <2>5, Zenon
<1>13. delivered' = delivered \o piece /\ delivered' \in Seq(Byte) /\ given' \in Nat
  <2>1. delivered' = delivered \o piece /\ given' = given + Len(piece)
    BY <1>5, Zenon DEF Deliver
  <2>2. Len(piece) \in Nat /\ given \in Nat
    BY <1>1, <1>12, LenProperties
  <2> QED
    BY <1>1, <1>12, <2>1, <2>2, ConcatProperties
<1> PICK q : q = p + n
  OBVIOUS
<1>14. CASE Len(piece) < n
  <2>1. /\ leftover' = Drop(got.slice, Len(piece)) /\ err' = got.err
        /\ room' = 0 /\ pc' = "idle" /\ result' = nil
    BY <1>1, <1>4, <1>5, <1>12, <1>14 DEF Continue
  <2>2. Follows => h[q].json = (delivered \o leftover)'
    <3>1. (delivered \o piece) \o Drop(got.slice, Len(piece))
            = delivered \o (piece \o Drop(got.slice, Len(piece)))
      <4>1. delivered \in Seq(Byte) /\ piece \in Seq(Byte)
            /\ Drop(got.slice, Len(piece)) \in Seq(Byte)
        BY <1>1, <1>12, Zenon
      <4> QED
        BY <4>1, ConcatAssociative
    <3>2. delivered \o got.slice = delivered' \o leftover'
      BY <1>12, <1>13, <2>1, <3>1, Zenon
    <3> QED
      BY <3>2
  <2>3. got.err \in {nil, "EOF", "full"}
    BY <1>4 DEF Sliced
  <2>4. TypeOK'
    <3>1. text' \in Seq(Byte) /\ leftover' \in Seq(Byte)
      BY <1>1, <1>5, <1>12, <2>1, Zenon
    <3> QED
      BY <1>10, <1>13, <2>1, <2>3, <3>1 DEF TypeOK
  <2>5. got.err = "EOF" => q = Len(text) /\ ~EndsInNewline(text)
    <3>1. SUFFICES ASSUME got.err = "EOF"
                   PROVE  q = Len(text) /\ ~EndsInNewline(text)
      OBVIOUS
    <3>2. q = Len(text) /\ \A i \in p + 1 .. p + n : text[i] # Newline
      BY <1>4, <3>1, ReaderAssumption DEF Sliced
    <3>3. n > 0 /\ q \in p + 1 .. p + n /\ Len(text) > 0
      <4>1. Len(piece) \in Nat
        BY <1>12, LenProperties
      <4>2. n > 0
        BY <1>4, <1>14, <4>1
      <4>3. p \in Nat
        BY <1>1
      <4> QED
        BY <1>4, <3>2, <4>2, <4>3
    <3>4. text[Len(text)] # Newline
      BY <3>2, <3>3
    <3>5. text # <<>>
      BY <3>3
    <3> QED
      BY <3>2, <3>4, <3>5, Zenon DEF EndsInNewline, Last, Newline
  <2>6. LoopIsFree'
    BY <2>1 DEF LoopIsFree
  <2>7. err' = "EOF" => q = Len(text)' /\ ~EndsInNewline(text)'
    BY <1>5, <2>1, <2>5, Zenon
  <2>8. ASSUME Follows, ~LostAt(h, q) PROVE Reading(h, q)'
    <3>1. err' # "full" /\ (err' = nil => ~h[q].on)
      BY <2>1, <2>8
    <3>2. h[q].json = (delivered \o leftover)'
      BY <2>2, <2>8
    <3> QED
      BY <2>1, <2>7, <3>1, <3>2, ReaderAssumption DEF Reading
  <2> HIDE DEF Follows
  <2> QED
    BY <1>6, <1>8, <2>4, <2>6, <2>8
<1>15. CASE ~(Len(piece) < n)
  <2>1. /\ Len(piece) = n /\ piece = got.slice
        /\ IF got.err = nil THEN Continue(room - n) ELSE ReturnError(got.err)
        /\ leftover' = <<>> /\ err' = nil
    <3>1. Len(piece) = n
      BY <1>4, <1>5, <1>15, Zenon
    <3> QED
      BY <1>1, <1>4, <1>5, <1>12, <1>15, <3>1, Zenon
  <2>2. Follows => h[q].json = (delivered \o leftover)'
    <3>1. delivered' \o <<>> = delivered'
      BY <1>13, ConcatEmptySeq
    <3>2. delivered \o got.slice = delivered'
      BY <1>13, <2>1, Zenon
    <3> QED
      BY <2>1, <3>1, <3>2
  <2>3. text' \in Seq(Byte) /\ leftover' \in Seq(Byte)
    BY <1>1, <1>5, <2>1, EmptySeq
  <2>4. CASE got.err = nil
    <3>1. /\ room' = room - n /\ result' = nil
          /\ pc' = IF room - n > 0 THEN "brace" ELSE "idle"
      BY <1>1, <2>1, <2>4, Zenon DEF Continue
    <3>2. room - n \in Nat
      <4>1. room \in Nat /\ n \in Nat
        BY <1>1, <1>4, Zenon
      <4>2. n = IF room < n THEN room ELSE n
        BY <1>12, <2>1, Zenon
      <4> QED
        BY <4>1, <4>2
    <3>3. TypeOK'
      BY <1>10, <1>13, <2>1, <2>3, <3>1, <3>2 DEF TypeOK
    <3>4. LoopIsFree'
      BY <2>1, <3>1 DEF LoopIsFree
    <3>5. ASSUME Follows PROVE Reading(h, q)'
      <4>1. ~h[q].on
        BY <2>4, <3>5
      <4> QED
        BY <2>1, <2>2, <3>1, <3>5, <4>1, ReaderAssumption DEF Reading
    <3> HIDE DEF Follows
    <3> QED
      BY <1>6, <1>8, <3>3, <3>4, <3>5
  <2>5. CASE got.err # nil
    <3>1. room' = 0 /\ pc' = "idle" /\ result' = got.err
      BY <2>1, <2>5, Zenon DEF ReturnError
    <3>2. got.err \in {"EOF", "full"} /\ (got.err = "EOF" => q = Len(text))
      BY <1>4, <2>5 DEF Sliced
    <3>3. TypeOK'
      BY <1>10, <1>13, <2>1, <2>3, <3>1, <3>2 DEF TypeOK
    <3>4. LoopIsFree'
      BY <3>1 DEF LoopIsFree
    <3>5. text' = text
      BY <1>5
    \* After the last line, or after a line that is too long.
    <3>6. ASSUME Follows, ~LostAt(h, q) PROVE Reading(h, q)'
      <4>1. got.err = "EOF" /\ q = Len(text)
        BY <3>2, <3>6
      <4> QED
        BY <2>1, <2>2, <3>1, <3>5, <3>6, <4>1, ReaderAssumption DEF Reading
    <3> HIDE DEF Follows
    <3> QED
      BY <1>6, <1>8, <3>3, <3>4, <3>6
  <2> QED
    BY <2>4, <2>5
<1> QED
  BY <1>14, <1>15

-----------------------------------------------------------------------------
(* Theorems.                                                               *)

LEMMA InitInv == Init => Inv
<1> SUFFICES ASSUME Init PROVE Inv
  OBVIOUS
<1>1. TypeOK /\ LoopIsFree /\ Taken(0) /\ \A h : IsProgress(text, h) => Reading(h, 0)
  BY InitReading
<1>2. text \in Seq(Byte)
  BY <1>1 DEF TypeOK
<1>3. Reading(Progress(text), 0)
  BY <1>1, <1>2, ParseProgress
<1>4. 0 \in 0 .. Len(text)
  BY <1>2, LenProperties
<1> QED
  BY <1>1, <1>3, <1>4 DEF Inv

LEMMA NextInv == Inv /\ [Next]_vars => Inv'
<1> SUFFICES ASSUME Inv, [Next]_vars PROVE Inv'
  OBVIOUS
<1>1. text \in Seq(Byte) /\ TypeOK /\ LoopIsFree
  BY DEF Inv, TypeOK
<1> PICK h : h = Progress(text)
  OBVIOUS
<1>2. IsProgress(text, h)
  BY <1>1, ParseProgress
<1>3. PICK p \in 0 .. Len(text) : Taken(p) /\ (LostAt(h, p) \/ Reading(h, p))
  BY DEF Inv
<1> DEFINE Stays(q) == Taken(q)' /\ (Reading(h, p) => LostAt(h, q) \/ Reading(h, q)')
<1>9. Len(text) \in Nat /\ p \in p .. Len(text)
  BY <1>1, LenProperties
<1>4. SUFFICES /\ text' = text /\ TypeOK' /\ LoopIsFree'
               /\ \E q \in p .. Len(text) : Stays(q)
  <2>1. PICK q \in p .. Len(text) : Stays(q)
    BY <1>4
  <2>2. LostAt(h, p) => LostAt(h, q)
    BY <1>1, <1>2, Later, Zenon DEF LostAt
  <2>3. q \in 0 .. Len(text)
    BY <1>9
  <2>4. Taken(q)' /\ (LostAt(h, q) \/ Reading(h, q)')
    BY <1>3, <2>1, <2>2
  <2>5. h = Progress(text')
    BY <1>4
  <2>6. LostAt(h, q) => LostAt(Progress(text), q)'
    BY <2>5 DEF LostAt
  <2>7. Reading(h, q)' => Reading(Progress(text), q)'
    BY <2>5 DEF Reading
  <2> QED
    BY <1>4, <2>3, <2>4, <2>6, <2>7 DEF Inv
<1>5. ASSUME NEW size \in ReadSize, Read(size)
      PROVE  text' = text /\ TypeOK' /\ LoopIsFree' /\ \E q \in p .. Len(text) : Stays(q)
  <2>1. TypeOK' /\ LoopIsFree' /\ Stays(p)
    BY <1>1, <1>3, <1>5, ReadReading
  <2>2. text' = text
    BY <1>5 DEF Read
  <2> QED
    BY <1>9, <2>1, <2>2
<1>6. CASE ReadBrace
  <2>1. TypeOK' /\ LoopIsFree' /\ \E q \in p .. Len(text) : Stays(q)
    BY <1>1, <1>2, <1>3, <1>6, ReadBraceReading
  <2>2. text' = text
    BY <1>6, Zenon DEF ReadBrace
  <2> QED
    BY <2>1, <2>2
<1>7. CASE ReadLine
  <2>1. TypeOK' /\ LoopIsFree' /\ \E q \in p .. Len(text) : Stays(q)
    BY <1>1, <1>2, <1>3, <1>7, ReadLineReading
  <2>2. text' = text
    BY <1>7, Zenon DEF ReadLine
  <2> QED
    BY <2>1, <2>2
<1>8. CASE UNCHANGED vars
  <2>1. TypeOK' /\ LoopIsFree'
    BY <1>1, <1>8 DEF vars, TypeOK, LoopIsFree
  <2>2. Stays(p)
    BY <1>3, <1>8 DEF vars, Reading, Taken
  <2>3. text' = text
    BY <1>8 DEF vars
  <2> QED
    BY <1>9, <2>1, <2>2, <2>3
<1> QED
  BY <1>5, <1>6, <1>7, <1>8 DEF Next

\* The invariant of the reader: until a line is met whose JSON is too long for
\* the buffer, what has been taken from the log, what has been given out and
\* what waits in leftover fit what the log says.  This is for every buffer, every
\* log and every sequence of calls, those after an error that came with bytes
\* included (ssgodatabyip.go:82-116).
THEOREM Invariance == Spec => []Inv
<1>1. Init => Inv
  BY InitInv
<1>2. Inv /\ [Next]_vars => Inv'
  BY NextInv
<1> QED
  BY <1>1, <1>2, PTL DEF Spec

\* The variables have their types, and the loop runs only while the buffer of
\* the decoder has room (ssgodatabyip.go:93-113).
THEOREM TypeCorrect == Spec => []TypeOK
<1>1. Inv => TypeOK
  BY DEF Inv
<1> QED
  BY <1>1, Invariance, PTL

LEMMA InvDelivers == Inv => DeliversJSON
<1> SUFFICES ASSUME Inv PROVE DeliversJSON
  OBVIOUS
<1>1. text \in Seq(Byte) /\ delivered \in Seq(Byte) /\ leftover \in Seq(Byte)
  BY DEF Inv, TypeOK
<1> PICK h : h = Progress(text)
  OBVIOUS
<1>2. IsProgress(text, h)
  BY <1>1, ParseProgress
<1>10. PICK p \in 0 .. Len(text) : Taken(p) /\ (LostAt(h, p) \/ Reading(h, p))
  BY DEF Inv
<1>11. CASE LostAt(h, p)
  <2>1. Parse(Consumed) = h[p]
    BY <1>1, <1>2, <1>10, ConsumedSays
  <2> QED
    BY <1>11, <2>1, Zenon DEF LostAt, DeliversJSON, Newline
<1>3. ASSUME ~LostAt(h, p) PROVE Reading(h, p)
  BY <1>10, <1>3
<1> SUFFICES ASSUME ~LostAt(h, p) PROVE DeliversJSON
  BY <1>11
<1>4. Len(text) \in Nat /\ Len(text) \in p .. Len(text) /\ Len(text) \in 0 .. Len(text)
  BY <1>1, LenProperties
<1>5. IsPrefix(h[p].json, Parse(text).json)
  BY <1>1, <1>2, <1>4, Later DEF IsProgress
<1>6. h[p].json = delivered \o leftover
  BY <1>3, Zenon DEF Reading
<1>7. Parse(text).json \in Seq(Byte)
  <2>1. h[Len(text)] \in ParseState
    BY <1>1, <1>2, <1>4, ProgressType
  <2> QED
    BY <1>2, <2>1 DEF IsProgress, ParseState
<1>8. \A s \in Seq(Byte), t \in Seq(Byte), u \in Seq(Byte) :
          IsPrefix(s \o t, u) => IsPrefix(s, u)
  <2> TAKE s \in Seq(Byte), t \in Seq(Byte), u \in Seq(Byte)
  <2> SUFFICES ASSUME IsPrefix(s \o t, u) PROVE IsPrefix(s, u)
    OBVIOUS
  <2>1. /\ Len(s) \in Nat /\ Len(t) \in Nat /\ Len(u) \in Nat
        /\ s \o t \in Seq(Byte) /\ Len(s \o t) = Len(s) + Len(t)
    BY ConcatProperties, LenProperties
  <2>2. /\ Len(s \o t) <= Len(u)
        /\ SubSeq(s \o t, 1, Len(s \o t)) = SubSeq(u, 1, Len(s \o t))
    BY Zenon DEF IsPrefix
  <2>3. s \o t = SubSeq(u, 1, Len(s) + Len(t))
    BY <2>1, <2>2, SubSeqFull
  <2>4. CASE s = <<>>
    <3>1. Len(s) = 0 /\ SubSeq(s, 1, 0) = <<>> /\ SubSeq(u, 1, 0) = <<>>
      BY <2>4, SubSeqEmpty
    <3> QED
      BY <2>1, <3>1 DEF IsPrefix
  <2>5. CASE s # <<>>
    <3>1. /\ 1 \in 1 .. Len(s) /\ Len(s) \in 1 .. Len(s) /\ Len(s) <= Len(u)
          /\ Len(s) + Len(t) \in 1 .. Len(u) /\ 1 \in 1 .. Len(u)
          /\ 1 \in 1 .. (Len(s) + Len(t)) - 1 + 1
          /\ Len(s) \in 1 .. (Len(s) + Len(t)) - 1 + 1
      BY <2>1, <2>2, <2>5, EmptySeq
    <3>2. SubSeq(s \o t, 1, Len(s)) = SubSeq(s, 1, Len(s))
      BY <3>1, SubSeqOfConcat1
    <3>3. SubSeq(SubSeq(u, 1, Len(s) + Len(t)), 1, Len(s))
            = SubSeq(u, 1 + 1 - 1, 1 + Len(s) - 1)
      BY <2>1, <2>3, <3>1, SubSeqOfSubSeq
    <3>4. 1 + 1 - 1 = 1 /\ 1 + Len(s) - 1 = Len(s)
      BY <2>1
    <3>5. SubSeq(s, 1, Len(s)) = SubSeq(u, 1, Len(s))
      BY <2>3, <3>2, <3>3, <3>4, Zenon
    <3> QED
      BY <3>1, <3>5, Zenon DEF IsPrefix
  <2> QED
    BY <2>4, <2>5
<1>9. IsPrefix(delivered, Parse(text).json)
  <2>1. IsPrefix(delivered \o leftover, Parse(text).json)
    BY <1>5, <1>6
  <2> QED
    BY <1>1, <1>7, <1>8, <2>1
<1> QED
  BY <1>9 DEF DeliversJSON

\* What the decoder has been given is the beginning of the JSON of the log,
\* with nothing between, doubled or skipped, unless the JSON of a line among
\* those taken is too long for the buffer: whatever sizes it asks for, and
\* however often it goes on after an error (ssgodatabyip.go:82-116).
THEOREM Delivers == Spec => []DeliversJSON
  BY Invariance, InvDelivers, PTL

LEMMA InvComplete == Inv => CompleteLogIsDelivered
<1> SUFFICES ASSUME Inv, result # nil, EndsInNewline(text), Parse(text).far = {}
             PROVE  result = "EOF" /\ delivered = Parse(text).json
  BY DEF CompleteLogIsDelivered
<1>1. text \in Seq(Byte) /\ delivered \in Seq(Byte) /\ result \in {nil, "EOF", "full"}
  BY DEF Inv, TypeOK
<1> PICK h : h = Progress(text)
  OBVIOUS
<1>2. IsProgress(text, h)
  BY <1>1, ParseProgress
<1>9. PICK p \in 0 .. Len(text) : LostAt(h, p) \/ Reading(h, p)
  BY DEF Inv
<1>4. Len(text) \in Nat /\ Len(text) \in p .. Len(text)
  BY <1>1, LenProperties
<1>10. h[p].far = {}
  <2>1. h[p].far \subseteq h[Len(text)].far
    BY <1>1, <1>2, <1>4, Later, Zenon
  <2>2. h[Len(text)].far = {}
    BY <1>2, Zenon DEF IsProgress
  <2> QED
    BY <2>1, <2>2
<1>3. Reading(h, p)
  BY <1>9, <1>10 DEF LostAt
<1>5. result # "full"
  BY <1>3, <1>10, Zenon DEF Reading
<1>6. result = "EOF"
  BY <1>1, <1>5
<1>7. p = Len(text) /\ leftover = <<>>
  BY <1>3, <1>6, Zenon DEF Reading
<1>8. Parse(text).json = delivered \o <<>>
  BY <1>2, <1>3, <1>7, Zenon DEF Reading, IsProgress
<1> QED
  BY <1>1, <1>6, <1>8, ConcatEmptySeq

\* A log of complete lines whose delimiters the buffer always reaches is given
\* to the decoder as a whole before the error that ends it, which is io.EOF.
THEOREM CompleteLogs == Spec => []CompleteLogIsDelivered
  BY Invariance, InvComplete, PTL

LEMMA InvLeftover == Inv /\ [Next]_vars => (unread' # unread => leftover = <<>>)
<1> SUFFICES ASSUME Inv, [Next]_vars, unread' # unread PROVE leftover = <<>>
  OBVIOUS
<1>1. pc # "idle" => leftover = <<>>
  BY Zenon DEF Inv, LoopIsFree
<1>2. ReadBrace \/ ReadLine
  BY DEF Next, Read, vars
<1>3. pc # "idle"
  <2>1. ReadBrace => pc = "brace"
    BY Zenon DEF ReadBrace
  <2>2. ReadLine => pc = "line"
    BY Zenon DEF ReadLine
  <2> QED
    BY <1>2, <2>1, <2>2
<1> QED
  BY <1>1, <1>3

\* leftover lies in the buffer that ReadSlice fills: nothing is read while
\* bytes of it are still to be given out (ssgodatabyip.go:83-87, 105-108).
THEOREM LeftoverKept == Spec => LeftoverIsNotOverwritten
<1>1. Inv /\ [Next]_vars => [unread' # unread => leftover = <<>>]_vars
  BY InvLeftover
<1> QED
  BY <1>1, Invariance, PTL DEF Spec, LeftoverIsNotOverwritten
=============================================================================
