---------------------------- MODULE AddressProofs ----------------------------
(***************************************************************************)
(* Theorems about the programs that work on addresses.  What main of       *)
(* ssgodatabyip keeps true of every log, of whatever length, sessions and  *)
(* addresses (DataUsage); and what the functions compute that keep no      *)
(* state: MappedAddr, of ip/ip.go and resolv/main.go, and PrefixText, of   *)
(* prefixset.                                                              *)
(***************************************************************************)
EXTENDS DataUsage, MappedAddr, PrefixText, ArithmeticTheorems, SequenceTheorems

-----------------------------------------------------------------------------
(* Events and lines.                                                       *)

\* An address is not set exactly if it is the zero Addr.
LEMMA Validity ==
    ASSUME NEW a \in Addr
    PROVE  IsValid(a) <=> a # NoAddr
  BY AddrAssumption DEF Addr, NoAddr, IsValid

\* What a line has is what an event may have.
LEMMA LineType ==
    ASSUME NEW line \in Line
    PROVE  /\ DOMAIN line \subseteq Field
           /\ "clientAddress" \in DOMAIN line => line["clientAddress"] \in Addr
           /\ "clientSessionID" \in DOMAIN line =>
                  line["clientSessionID"] \in Session \cup {0}
           /\ \A f \in DOMAIN line \cap {"nl2r", "nr2l", "payloadBytesSent"} :
                  line[f] \in 0 .. Word - 1
<1>1. PICK e \in Event, S \in SUBSET Field : line = [f \in S |-> e[f]]
  BY UsageAssumption
<1>2. /\ e["clientAddress"] \in Addr
      /\ e["clientSessionID"] \in Session \cup {0}
      /\ e["nl2r"] \in 0 .. Word - 1
      /\ e["nr2l"] \in 0 .. Word - 1
      /\ e["payloadBytesSent"] \in 0 .. Word - 1
  BY DEF Event
<1>3. DOMAIN line = S /\ \A f \in S : line[f] = e[f]
  BY <1>1
<1> QED
  BY <1>2, <1>3

\* The event that a line decodes to.
LEMMA DecodedEvent ==
    ASSUME NEW line \in Line
    PROVE  /\ Decode(line) \in Event
           /\ Decode(line).clientAddress = AddressIn(line)
           /\ Decode(line).clientSessionID = SessionIn(line)
<1>1. /\ "clientAddress" \in Field /\ "clientSessionID" \in Field
      /\ "nl2r" \in Field /\ "nr2l" \in Field /\ "payloadBytesSent" \in Field
  BY DEF Field
<1> DEFINE d == Decode(line)
<1>2. /\ d["clientAddress"] = AddressIn(line)
      /\ d["clientSessionID"] = SessionIn(line)
  BY <1>1 DEF Decode, NoEvent, AddressIn, SessionIn
<1>3. \A f \in {"nl2r", "nr2l", "payloadBytesSent"} :
          d[f] = IF f \in DOMAIN line THEN line[f] ELSE 0
  BY <1>1 DEF Decode, NoEvent
<1>4. 0 \in 0 .. Word - 1 /\ NoAddr \in Addr
  BY UsageAssumption DEF Addr
<1>5. d["clientAddress"] \in Addr /\ d["clientSessionID"] \in Session \cup {0}
  BY <1>2, <1>4, LineType DEF AddressIn, SessionIn
<1>6. \A f \in {"nl2r", "nr2l", "payloadBytesSent"} : d[f] \in 0 .. Word - 1
  BY <1>3, <1>4, LineType
<1>7. d = [f \in Field |-> d[f]]
  BY DEF Decode
<1>8. d \in Event
  <2> HIDE DEF d
  <2> QED
    BY <1>5, <1>6, <1>7 DEF Event, Field
<1> QED
  BY <1>2, <1>8

\* The amounts of a line are those of its event.
LEMMA DecodedTotal ==
    ASSUME NEW line \in Line
    PROVE  TotalIn(line) \in Nat /\ Total(Decode(line)) = TotalIn(line)
<1> DEFINE d == Decode(line)
           A == {"nl2r", "nr2l", "payloadBytesSent"}
           D == DOMAIN line \cap A
<1>1. d \in Event
  BY DecodedEvent
<1>2. \A f \in A : d[f] = IF f \in D THEN line[f] ELSE 0
  BY DEF Decode, NoEvent, Field
<1>3. \A f \in A : d[f] \in Nat
  BY <1>1 DEF Event
<1>4. IsFiniteSet({"nl2r"}) /\ IsFiniteSet({"nl2r", "nr2l"}) /\ IsFiniteSet(A)
  <2>1. IsFiniteSet({"nl2r"} \cup {"nr2l"})
    BY FS_Singleton, FS_Union
  <2>2. IsFiniteSet(({"nl2r"} \cup {"nr2l"}) \cup {"payloadBytesSent"})
    BY <2>1, FS_Singleton, FS_Union
  <2>3. A = ({"nl2r"} \cup {"nr2l"}) \cup {"payloadBytesSent"}
    OBVIOUS
  <2> QED
    BY <2>1, <2>2, <2>3, FS_Singleton
<1> HIDE DEF d
\* One amount at a time: it is added if the line has it, and zero if not.
<1>5. ASSUME NEW B \in SUBSET A, NEW f \in A \ B
      PROVE  /\ SumOver(line, D \cap B) \in Int
             /\ SumOver(line, D \cap (B \cup {f})) = SumOver(line, D \cap B) + d[f]
  <2>1. IsFiniteSet(D \cap B)
    BY <1>4, FS_Subset
  <2>2. \A y \in D : line[y] \in Int
    BY <1>2, <1>3
  <2>3. CASE f \in D
    <3> DEFINE E == D \cap B
    <3>1. D \cap (B \cup {f}) = E \cup {f} /\ f \notin E
      BY <2>3
    <3>2. \A y \in E \cup {f} : line[y] \in Int
      BY <2>2, <2>3
    <3>3. IsFiniteSet(E)
      BY <2>1
    <3> HIDE DEF E, D
    <3>4. SumOver(line, E) \in Int /\ SumOver(line, E \cup {f}) = line[f] + SumOver(line, E)
      BY <3>1, <3>2, <3>3, SumAdd
    <3>5. line[f] = d[f] /\ d[f] \in Nat
      BY <1>2, <1>3, <2>3
    <3>6. SumOver(line, D \cap (B \cup {f})) = SumOver(line, E \cup {f})
      BY <3>1, Zenon
    <3>7. SumOver(line, E \cup {f}) = SumOver(line, E) + d[f]
      BY <3>4, <3>5
    <3> QED
      BY <3>4, <3>6, <3>7, Zenon DEF E
  <2>4. CASE f \notin D
    <3>1. D \cap (B \cup {f}) = D \cap B
      BY <2>4
    <3>2. d[f] = 0
      BY <1>2, <2>4
    <3> DEFINE E == D \cap B
    <3>3. IsFiniteSet(E) /\ \A y \in E : line[y] \in Int
      BY <2>1, <2>2
    <3> HIDE DEF E
    <3>4. SumOver(line, E) \in Int
      BY <3>3, SumRemove
    <3>5. SumOver(line, E) = SumOver(line, E) + d[f]
      BY <3>2, <3>4
    <3> QED
      BY <3>1, <3>4, <3>5, Zenon DEF E
  <2> QED
    BY <2>3, <2>4
<1>6. SumOver(line, D \cap {}) = 0
  BY SumEmpty
<1>7. SumOver(line, D \cap {"nl2r"}) = d["nl2r"]
  <2>1. SumOver(line, D \cap ({} \cup {"nl2r"})) = SumOver(line, D \cap {}) + d["nl2r"]
    BY <1>5
  <2>2. {} \cup {"nl2r"} = {"nl2r"}
    OBVIOUS
  <2> QED
    BY <2>1, <2>2, <1>6, <1>3
<1>8. SumOver(line, D \cap {"nl2r", "nr2l"}) = d["nl2r"] + d["nr2l"]
  <2>1. SumOver(line, D \cap ({"nl2r"} \cup {"nr2l"}))
          = SumOver(line, D \cap {"nl2r"}) + d["nr2l"]
    BY <1>5
  <2>2. {"nl2r"} \cup {"nr2l"} = {"nl2r", "nr2l"}
    OBVIOUS
  <2> QED
    BY <2>1, <2>2, <1>7
<1>9. SumOver(line, D \cap A) = d["nl2r"] + d["nr2l"] + d["payloadBytesSent"]
  <2>1. SumOver(line, D \cap ({"nl2r", "nr2l"} \cup {"payloadBytesSent"}))
          = SumOver(line, D \cap {"nl2r", "nr2l"}) + d["payloadBytesSent"]
    BY <1>5
  <2>2. {"nl2r", "nr2l"} \cup {"payloadBytesSent"} = A
    OBVIOUS
  <2> QED
    BY <2>1, <2>2, <1>8
<1>10. D \cap A = D
  OBVIOUS
<1>11. TotalIn(line) = d["nl2r"] + d["nr2l"] + d["payloadBytesSent"]
  BY <1>9, <1>10, Zenon DEF TotalIn
<1>12. Total(d) = d["nl2r"] + d["nr2l"] + d["payloadBytesSent"]
  BY DEF Total
<1> QED
  BY <1>3, <1>11, <1>12 DEF d

-----------------------------------------------------------------------------
(* Types.                                                                  *)

\* The counters are as many as the lines make them, and no more.
CountersFinite == IsFiniteSet(DOMAIN bytesByIP)

TypeInv == TypeOK /\ CountersFinite

\* The log, one line longer.
LEMMA LogGrows ==
    ASSUME lines \in Seq(Line), NEW line \in Line, lines' = Append(lines, line)
    PROVE  /\ Len(lines) \in Nat
           /\ Len(lines') = Len(lines) + 1
           /\ lines' \in Seq(Line)
           /\ lines'[Len(lines) + 1] = line
           /\ \A k \in 1 .. Len(lines) : lines'[k] = lines[k] /\ lines[k] \in Line
<1>1. /\ Len(lines) \in Nat
      /\ Len(lines') = Len(lines) + 1
      /\ lines'[Len(lines) + 1] = line
      /\ \A k \in 1 .. Len(lines) : lines'[k] = lines[k]
  BY AppendProperties, LenProperties
<1>2. lines' \in Seq(Line)
  BY AppendProperties
<1>3. \A k \in 1 .. Len(lines) : lines[k] \in Line
  BY ElementOfSeq
<1> QED
  BY <1>1, <1>2, <1>3

\* A session's address is kept, or said by the event.
LEMMA SessionAddrsType ==
    ASSUME NEW e \in Event, TypeOK
    PROVE  /\ DOMAIN SessionAddrs(e) \subseteq Session
           /\ \A s \in DOMAIN SessionAddrs(e) : SessionAddrs(e)[s] \in Addr \ {NoAddr}
<1>1. e.clientSessionID \in Session \cup {0} /\ e.clientAddress \in Addr
  BY DEF Event
<1>2. /\ DOMAIN addrByCSID \subseteq Session
      /\ \A s \in DOMAIN addrByCSID : addrByCSID[s] \in Addr \ {NoAddr}
  BY DEF TypeOK
<1>3. CASE e.clientSessionID # 0 /\ IsValid(e.clientAddress)
  <2>1. e.clientAddress \in Addr \ {NoAddr} /\ e.clientSessionID \in Session
    BY <1>1, <1>3, Validity
  <2>2. SessionAddrs(e) = [s \in DOMAIN addrByCSID \cup {e.clientSessionID} |->
             IF s = e.clientSessionID THEN e.clientAddress ELSE addrByCSID[s]]
    BY <1>3 DEF SessionAddrs
  <2> QED
    BY <1>2, <2>1, <2>2
<1>4. CASE ~(e.clientSessionID # 0 /\ IsValid(e.clientAddress))
  <2>1. SessionAddrs(e) = addrByCSID
    BY <1>4 DEF SessionAddrs
  <2> QED
    BY <1>2, <2>1
<1> QED
  BY <1>3, <1>4

LEMMA CountedForType ==
    ASSUME NEW e \in Event, TypeOK
    PROVE  CountedFor(e) \in Addr
<1>1. e.clientAddress \in Addr /\ NoAddr \in Addr
  BY DEF Event, Addr
<1>2. \A s \in DOMAIN addrByCSID : addrByCSID[s] \in Addr
  BY DEF TypeOK
<1> QED
  BY <1>1, <1>2 DEF CountedFor

\* The counters, after an event is added.
LEMMA AddType ==
    ASSUME NEW e \in Event, TypeOK, CountersFinite, Total(e) \in Nat
    PROVE  /\ DOMAIN Add(e) = DOMAIN bytesByIP \cup ({CountedFor(e)} \ {NoAddr})
           /\ \A a \in DOMAIN Add(e) :
                  Add(e)[a] =
                      IF a = CountedFor(e)
                      THEN ((IF a \in DOMAIN bytesByIP THEN bytesByIP[a] ELSE 0) + Total(e)) % Word
                      ELSE bytesByIP[a]
           /\ DOMAIN Add(e) \subseteq Addr \ {NoAddr}
           /\ \A a \in DOMAIN Add(e) : Add(e)[a] \in 0 .. Word - 1
           /\ IsFiniteSet(DOMAIN Add(e))
<1> DEFINE c == CountedFor(e)
           D == DOMAIN bytesByIP
<1>1. c \in Addr
  BY CountedForType
<1>2. D \subseteq Addr \ {NoAddr} /\ \A a \in D : bytesByIP[a] \in 0 .. Word - 1
  BY DEF TypeOK
<1>3. \A x \in Nat : x % Word \in 0 .. Word - 1
  BY UsageAssumption
<1>4. Add(e) = [a \in D \cup ({c} \ {NoAddr}) |->
                   IF a = c THEN ((IF a \in D THEN bytesByIP[a] ELSE 0) + Total(e)) % Word
                            ELSE IF a \in D THEN bytesByIP[a] ELSE 0]
  BY DEF Add
<1>5. IsFiniteSet(D \cup ({c} \ {NoAddr}))
  <2>1. IsFiniteSet({c} \ {NoAddr})
    BY FS_Singleton, FS_Subset
  <2> QED
    BY <2>1, FS_Union DEF CountersFinite
<1> HIDE DEF c, D
<1>6. /\ DOMAIN Add(e) = D \cup ({c} \ {NoAddr})
      /\ \A a \in DOMAIN Add(e) :
            Add(e)[a] = IF a = c
                        THEN ((IF a \in D THEN bytesByIP[a] ELSE 0) + Total(e)) % Word
                        ELSE bytesByIP[a]
  BY <1>4
<1>7. \A a \in DOMAIN Add(e) : Add(e)[a] \in 0 .. Word - 1
  <2> TAKE a \in DOMAIN Add(e)
  <2>1. CASE a = c
    <3>1. (IF a \in D THEN bytesByIP[a] ELSE 0) + Total(e) \in Nat
      BY <1>2
    <3> QED
      BY <2>1, <3>1, <1>3, <1>6
  <2>2. CASE a # c
    BY <2>2, <1>2, <1>6
  <2> QED
    BY <2>1, <2>2
<1>8. DOMAIN Add(e) \subseteq Addr \ {NoAddr}
  BY <1>1, <1>2, <1>6
<1> QED
  BY <1>5, <1>6, <1>7, <1>8 DEF c, D

\* The output: a line for each counter, in one order of them.
LEMMA Output ==
    ASSUME TypeInv, NEW order \in SetToSeqs(DOMAIN bytesByIP)
    PROVE  /\ Len(order) = Cardinality(DOMAIN bytesByIP)
           /\ Len(order) \in Nat
           /\ \A i \in 1 .. Len(order) : order[i] \in DOMAIN bytesByIP
<1> DEFINE D == DOMAIN bytesByIP
           C == Cardinality(D)
<1>1. IsFiniteSet(D) /\ C \in Nat
  BY FS_CardinalityType DEF TypeInv, CountersFinite
<1>2. order \in [1 .. C -> D]
  BY DEF SetToSeqs
<1> HIDE DEF D, C
<1>3. Len(order) = C
  BY <1>1, <1>2
<1> QED
  BY <1>1, <1>2, <1>3 DEF D, C

LEMMA TypeStep ==
    ASSUME TypeInv, [Next]_vars
    PROVE  TypeInv'
<1>1. ASSUME NEW line \in Line, Count(line)
      PROVE  TypeInv'
  <2> DEFINE e == Decode(line)
  <2>1. e \in Event /\ Total(e) \in Nat
    BY DecodedEvent, DecodedTotal
  <2>2. /\ event' = e /\ addrByCSID' = SessionAddrs(e) /\ bytesByIP' = Add(e)
        /\ lines' = Append(lines, line) /\ usage' = usage /\ pc' = pc
    BY <1>1 DEF Count
  <2> HIDE DEF e
  <2>3. /\ DOMAIN addrByCSID' \subseteq Session
        /\ \A s \in DOMAIN addrByCSID' : addrByCSID'[s] \in Addr \ {NoAddr}
    BY <2>1, <2>2, SessionAddrsType, Zenon DEF TypeInv
  <2>4. /\ DOMAIN bytesByIP' \subseteq Addr \ {NoAddr}
        /\ \A a \in DOMAIN bytesByIP' : bytesByIP'[a] \in 0 .. Word - 1
        /\ IsFiniteSet(DOMAIN bytesByIP')
    BY <2>1, <2>2, AddType, Zenon DEF TypeInv
  <2>5. lines' \in Seq(Line)
    BY <2>2, AppendProperties DEF TypeInv, TypeOK
  <2> QED
    BY <2>1, <2>2, <2>3, <2>4, <2>5 DEF TypeInv, TypeOK, CountersFinite
<1>2. CASE WriteUsage
  <2>1. PICK order \in SetToSeqs(DOMAIN bytesByIP) :
            usage' = [i \in 1 .. Len(order) |->
                         [ip |-> order[i], bytes |-> bytesByIP[order[i]]]]
    BY <1>2 DEF WriteUsage
  <2>2. \A i \in 1 .. Len(order) : usage'[i] \in [ip : Addr, bytes : 0 .. Word - 1]
    <3> TAKE i \in 1 .. Len(order)
    <3>1. order[i] \in DOMAIN bytesByIP
      BY Output
    <3>2. order[i] \in Addr /\ bytesByIP[order[i]] \in 0 .. Word - 1
      BY <3>1 DEF TypeInv, TypeOK
    <3> QED
      BY <2>1, <3>2
  <2>3. Len(usage') = Len(order)
    <3>1. Len(order) \in Nat
      BY Output
    <3> QED
      BY <2>1, <3>1
  <2> QED
    BY <1>2, <2>2, <2>3 DEF WriteUsage, TypeInv, TypeOK, CountersFinite
<1>3. CASE DecodeFails
  BY <1>3 DEF DecodeFails, TypeInv, TypeOK, CountersFinite
<1>4. CASE UNCHANGED vars
  BY <1>4 DEF vars, TypeInv, TypeOK, CountersFinite
<1> QED
  BY <1>1, <1>2, <1>3, <1>4 DEF Next

LEMMA TypeInit ==
    ASSUME Init
    PROVE  TypeInv
<1>1. NoEvent \in Event
  BY UsageAssumption DEF NoEvent, Event, Addr
<1>2. DOMAIN addrByCSID = {} /\ DOMAIN bytesByIP = {} /\ Len(usage) = 0
  BY DEF Init
<1> QED
  BY <1>1, <1>2, FS_EmptySet DEF Init, TypeInv, TypeOK, CountersFinite

\* Every event, address and counter has its type, and the counters stay below
\* 2^64.
THEOREM TypeCorrect == Spec => []TypeOK
<1>1. Init => TypeInv
  BY TypeInit
<1>2. TypeInv /\ [Next]_vars => TypeInv'
  BY TypeStep
<1>3. TypeInv => TypeOK
  BY DEF TypeInv
<1> QED
  BY <1>1, <1>2, <1>3, PTL DEF Spec

-----------------------------------------------------------------------------
(* The addresses of the sessions.                                          *)

\* A line says an address of a session if it names both.
Says(line, s) == SessionIn(line) = s /\ IsValid(AddressIn(line))

\* One line more of the log leaves what the lines before it are.
LEMMA LatestBefore ==
    ASSUME lines \in Seq(Line), NEW line \in Line, lines' = Append(lines, line),
           NEW n \in 0 .. Len(lines), NEW s, NEW i
    PROVE  Latest(n, s, i)' <=> Latest(n, s, i)
<1>1. /\ Len(lines) \in Nat
      /\ \A k \in 1 .. Len(lines) : lines'[k] = lines[k]
  BY LogGrows
<1>2. ASSUME i \in 1 .. n
      PROVE  /\ lines'[i] = lines[i]
             /\ \A j \in i + 1 .. n : lines'[j] = lines[j]
  BY <1>1, <1>2
<1> QED
  BY <1>2 DEF Latest

\* It says the latest address of a session, or leaves the latest before it.
LEMMA LatestAfter ==
    ASSUME lines \in Seq(Line), NEW line \in Line, lines' = Append(lines, line),
           NEW s, NEW i
    PROVE  Latest(Len(lines), s, i)' <=>
               IF Says(line, s) THEN i = Len(lines) + 1 ELSE Latest(Len(lines), s, i)
<1> PICK n : n = Len(lines)
  OBVIOUS
<1>1. /\ n \in Nat /\ lines'[n + 1] = line /\ Len(lines') = n + 1
      /\ \A k \in 1 .. n : lines'[k] = lines[k]
  BY LogGrows
<1>2. Latest(Len(lines), s, i)' <=>
          /\ i \in 1 .. n + 1
          /\ Says(lines'[i], s)
          /\ \A j \in i + 1 .. n + 1 : ~Says(lines'[j], s)
  BY <1>1, Zenon DEF Latest, Says
<1>3. Latest(n, s, i) <=>
          /\ i \in 1 .. n
          /\ Says(lines[i], s)
          /\ \A j \in i + 1 .. n : ~Says(lines[j], s)
  BY DEF Latest, Says
<1>4. CASE i = n + 1
  <2>1. i + 1 .. n + 1 = {} /\ i \in 1 .. n + 1 /\ i \notin 1 .. n
    BY <1>1, <1>4
  <2> QED
    BY <1>1, <1>2, <1>3, <1>4, <2>1
<1>5. CASE i \in 1 .. n
  <2>1. /\ i + 1 .. n + 1 = (i + 1 .. n) \cup {n + 1}
        /\ i \in 1 .. n + 1 /\ i # n + 1
    BY <1>1, <1>5
  <2>2. \A j \in i + 1 .. n : lines'[j] = lines[j]
    BY <1>1, <1>5
  <2> QED
    BY <1>1, <1>2, <1>3, <1>5, <2>1, <2>2
<1>6. CASE i \notin 1 .. n + 1
  <2>1. i \notin 1 .. n /\ i # n + 1
    BY <1>1, <1>6
  <2> QED
    BY <1>2, <1>3, <1>6, <2>1
<1> QED
  BY <1>1, <1>4, <1>5, <1>6

LEMMA SessionsStep ==
    ASSUME TypeInv, SessionsAreCurrent, [Next]_vars
    PROVE  SessionsAreCurrent'
<1>1. ASSUME NEW line \in Line, Count(line)
      PROVE  SessionsAreCurrent'
  <2> PICK n : n = Len(lines)
    OBVIOUS
  <2> DEFINE e == Decode(line)
  <2>1. /\ e \in Event /\ e.clientAddress = AddressIn(line)
        /\ e.clientSessionID = SessionIn(line)
    BY DecodedEvent
  <2> HIDE DEF e
  <2>2. addrByCSID' = SessionAddrs(e) /\ lines' = Append(lines, line)
    BY <1>1 DEF Count, e
  <2>3. lines \in Seq(Line)
    BY DEF TypeInv, TypeOK
  <2>4. /\ n \in Nat /\ Len(lines') = n + 1 /\ lines'[n + 1] = line
        /\ \A k \in 1 .. n : lines'[k] = lines[k]
    BY <2>2, <2>3, LogGrows
  <2> SUFFICES ASSUME NEW s \in Session
               PROVE  /\ s \in DOMAIN addrByCSID' <=>
                            \E i \in 1 .. n + 1 : Latest(Len(lines), s, i)'
                      /\ \A i \in 1 .. n + 1 :
                            Latest(Len(lines), s, i)' => addrByCSID'[s] = AddressIn(lines'[i])
    BY <2>4, Zenon DEF SessionsAreCurrent
  <2>5. /\ s \in DOMAIN addrByCSID <=> \E i \in 1 .. n : Latest(n, s, i)
        /\ \A i \in 1 .. n : Latest(n, s, i) => addrByCSID[s] = AddressIn(lines[i])
    BY DEF SessionsAreCurrent
  <2>6. \A i : Latest(Len(lines), s, i)' <=>
                  IF Says(line, s) THEN i = n + 1 ELSE Latest(n, s, i)
    BY <2>2, <2>3, LatestAfter
  <2>7. s # 0
    BY UsageAssumption
  <2>8. CASE Says(line, s)
    <3>1. /\ e.clientSessionID = s /\ IsValid(e.clientAddress)
          /\ AddressIn(line) = e.clientAddress
      BY <2>1, <2>8 DEF Says
    <3>2. addrByCSID' = [t \in DOMAIN addrByCSID \cup {s} |->
                            IF t = s THEN e.clientAddress ELSE addrByCSID[t]]
      BY <2>2, <2>7, <3>1 DEF SessionAddrs
    <3>3. s \in DOMAIN addrByCSID' /\ addrByCSID'[s] = AddressIn(line)
      BY <3>1, <3>2
    <3>4. n + 1 \in 1 .. n + 1
      BY <2>4
    <3> QED
      BY <2>4, <2>6, <2>8, <3>3, <3>4
  <2>9. CASE ~Says(line, s)
    <3>1. /\ s \in DOMAIN addrByCSID' <=> s \in DOMAIN addrByCSID
          /\ s \in DOMAIN addrByCSID => addrByCSID'[s] = addrByCSID[s]
      BY <2>1, <2>2, <2>9 DEF Says, SessionAddrs
    <3>2. \A i : Latest(n, s, i) => i \in 1 .. n
      BY DEF Latest
    <3>3. \A i \in 1 .. n : i \in 1 .. n + 1
      BY <2>4
    <3>4. \A i : Latest(Len(lines), s, i)' <=> Latest(n, s, i)
      BY <2>6, <2>9
    <3>5. s \in DOMAIN addrByCSID' <=> \E i \in 1 .. n + 1 : Latest(Len(lines), s, i)'
      BY <2>5, <3>1, <3>2, <3>3, <3>4, Zenon
    <3>6. ASSUME NEW i \in 1 .. n + 1, Latest(Len(lines), s, i)'
          PROVE  addrByCSID'[s] = AddressIn(lines'[i])
      <4>1. i \in 1 .. n /\ Latest(n, s, i)
        BY <3>2, <3>4, <3>6
      <4> QED
        BY <2>4, <2>5, <3>1, <4>1
    <3> QED
      BY <3>5, <3>6
  <2> QED
    BY <2>8, <2>9
<1>2. ASSUME UNCHANGED <<addrByCSID, lines>>
      PROVE  SessionsAreCurrent'
  BY <1>2 DEF SessionsAreCurrent, Latest
<1>3. CASE WriteUsage
  BY <1>2, <1>3 DEF WriteUsage
<1>4. CASE DecodeFails
  BY <1>2, <1>4 DEF DecodeFails
<1>5. CASE UNCHANGED vars
  BY <1>2, <1>5 DEF vars
<1> QED
  BY <1>1, <1>3, <1>4, <1>5 DEF Next

LEMMA SessionsInit ==
    ASSUME Init
    PROVE  SessionsAreCurrent
<1>1. DOMAIN addrByCSID = {} /\ Len(lines) = 0
  BY DEF Init
<1>2. 1 .. Len(lines) = {}
  BY <1>1
<1> QED
  BY <1>1, <1>2, Zenon DEF SessionsAreCurrent

\* The map of sessions (ssgodatabyip.go:36-42) has the latest address of every
\* session that a line has said one of, for every log.
THEOREM SessionsCurrent == Spec => []SessionsAreCurrent
<1>1. Init => TypeInv /\ SessionsAreCurrent
  BY TypeInit, SessionsInit
<1>2. TypeInv /\ SessionsAreCurrent /\ [Next]_vars => (TypeInv /\ SessionsAreCurrent)'
  BY TypeStep, SessionsStep
<1> QED
  BY <1>1, <1>2, PTL DEF Spec

-----------------------------------------------------------------------------
(* The counters.                                                           *)

\* The lines that belong to an address, before and after one more line: the new
\* one belongs to the address that its event is counted for.
LEMMA LinesOfStep ==
    ASSUME TypeInv, SessionsAreCurrent, NEW line \in Line, Count(line),
           NEW a \in Addr \ {NoAddr}
    PROVE  LinesOf(a)' = IF a = CountedFor(Decode(line))
                         THEN LinesOf(a) \cup {Len(lines) + 1}
                         ELSE LinesOf(a)
<1> DEFINE e == Decode(line)
<1> PICK n : n = Len(lines)
  OBVIOUS
<1>1. /\ e \in Event /\ e.clientAddress = AddressIn(line)
      /\ e.clientSessionID = SessionIn(line)
  BY DecodedEvent
<1> HIDE DEF e
<1>2. lines' = Append(lines, line)
  BY DEF Count
<1>3. lines \in Seq(Line)
  BY DEF TypeInv, TypeOK
<1>4. /\ n \in Nat /\ Len(lines') = n + 1 /\ lines'[n + 1] = line
      /\ \A k \in 1 .. n : lines'[k] = lines[k]
  BY <1>2, <1>3, LogGrows
<1>5. ASSUME NEW i \in 1 .. n
      PROVE  BelongsTo(i, a)' <=> BelongsTo(i, a)
  <2>1. \A s, j : Latest(i, s, j)' <=> Latest(i, s, j)
    <3>1. i \in 0 .. Len(lines)
      BY <1>4
    <3> QED
      BY <1>2, <1>3, <3>1, LatestBefore
  <2>2. lines'[i] = lines[i] /\ \A j \in 1 .. i : lines'[j] = lines[j]
    BY <1>4
  <2> QED
    BY <2>1, <2>2, Zenon DEF BelongsTo
<1>6. BelongsTo(n + 1, a)' <=> a = CountedFor(e)
  <2>1. BelongsTo(n + 1, a)' <=>
            \/ a = AddressIn(line)
            \/ /\ ~IsValid(AddressIn(line))
               /\ SessionIn(line) # 0
               /\ \E j \in 1 .. n + 1 :
                     Latest(n + 1, SessionIn(line), j)' /\ a = AddressIn(lines'[j])
    BY <1>4, Zenon DEF BelongsTo
  <2>2. AddressIn(line) \in Addr /\ SessionIn(line) \in Session \cup {0}
    BY <1>1 DEF Event
  <2>3. CASE IsValid(AddressIn(line))
    BY <1>1, <2>1, <2>3, Zenon DEF CountedFor
  <2>4. CASE ~IsValid(AddressIn(line))
    <3>1. a # AddressIn(line)
      BY <2>2, <2>4, Validity
    <3>2. CASE SessionIn(line) = 0
      <4>1. SessionIn(line) \notin DOMAIN addrByCSID
        BY <3>2, UsageAssumption DEF TypeInv, TypeOK
      <4>2. CountedFor(e) = NoAddr
        BY <1>1, <2>4, <4>1 DEF CountedFor
      <4> QED
        BY <2>1, <3>1, <3>2, <4>2
    <3>3. CASE SessionIn(line) # 0
      <4> PICK s \in Session : s = SessionIn(line)
        BY <2>2, <3>3
      <4>1. \A j : Latest(n + 1, s, j)' <=> Latest(n, s, j)
        <5>1. \A j : Latest(Len(lines), s, j)' <=> Latest(n, s, j)
          BY <1>2, <1>3, <2>4, LatestAfter DEF Says
        <5>2. \A j : Latest(Len(lines), s, j)' <=> Latest(n + 1, s, j)'
          BY <1>4, Zenon DEF Latest
        <5> QED
          BY <5>1, <5>2
      <4>2. \A j : Latest(n, s, j) => j \in 1 .. n
        BY DEF Latest
      <4>3. \A j \in 1 .. n : j \in 1 .. n + 1
        BY <1>4
      <4>4. BelongsTo(n + 1, a)' <=>
                \E j \in 1 .. n : Latest(n, s, j) /\ a = AddressIn(lines[j])
        BY <1>4, <2>1, <2>4, <3>1, <3>3, <4>1, <4>2, <4>3, Zenon
      <4>5. /\ s \in DOMAIN addrByCSID <=> \E j \in 1 .. n : Latest(n, s, j)
            /\ \A j \in 1 .. n : Latest(n, s, j) => addrByCSID[s] = AddressIn(lines[j])
        BY DEF SessionsAreCurrent
      <4>6. CountedFor(e) = IF s \in DOMAIN addrByCSID THEN addrByCSID[s] ELSE NoAddr
        BY <1>1, <2>4 DEF CountedFor
      <4> QED
        BY <4>4, <4>5, <4>6
    <3> QED
      BY <3>2, <3>3
  <2> QED
    BY <2>3, <2>4
<1>7. LinesOf(a)' = {i \in 1 .. n + 1 : BelongsTo(i, a)'}
  BY <1>4, Zenon DEF LinesOf
<1>8. LinesOf(a) = {i \in 1 .. n : BelongsTo(i, a)}
  BY DEF LinesOf
<1>9. 1 .. n + 1 = (1 .. n) \cup {n + 1} /\ n + 1 \notin 1 .. n
  BY <1>4
<1> QED
  BY <1>5, <1>6, <1>7, <1>8, <1>9 DEF e

\* What the lines say of their amounts.
LEMMA TotalsStep ==
    ASSUME TypeInv, NEW line \in Line, Count(line)
    PROVE  /\ Totals'[Len(lines) + 1] = TotalIn(line)
           /\ \A i \in 1 .. Len(lines) : Totals'[i] = Totals[i] /\ Totals[i] \in Nat
<1> PICK n : n = Len(lines)
  OBVIOUS
<1>1. lines \in Seq(Line) /\ lines' = Append(lines, line)
  BY DEF Count, TypeInv, TypeOK
<1>2. /\ n \in Nat /\ Len(lines') = n + 1 /\ lines'[n + 1] = line
      /\ \A k \in 1 .. n : lines'[k] = lines[k] /\ lines[k] \in Line
  BY <1>1, LogGrows
<1>3. Totals' = [i \in 1 .. n + 1 |-> TotalIn(lines'[i])]
  BY <1>2, Zenon DEF Totals
<1>4. Totals = [i \in 1 .. n |-> TotalIn(lines[i])]
  BY DEF Totals
<1>5. n + 1 \in 1 .. n + 1 /\ \A i \in 1 .. n : i \in 1 .. n + 1
  BY <1>2
<1>6. Totals'[n + 1] = TotalIn(line)
  BY <1>2, <1>3, <1>5
<1>7. ASSUME NEW i \in 1 .. n
      PROVE  Totals'[i] = Totals[i] /\ Totals[i] \in Nat
  <2>1. Totals[i] = TotalIn(lines[i]) /\ Totals'[i] = TotalIn(lines'[i])
    BY <1>3, <1>4, <1>5
  <2>2. lines'[i] = lines[i] /\ TotalIn(lines[i]) \in Nat
    BY <1>2, DecodedTotal
  <2> QED
    BY <2>1, <2>2
<1> QED
  BY <1>6, <1>7

LEMMA UsageStep ==
    ASSUME TypeInv, SessionsAreCurrent, UsageIsAttributed, [Next]_vars
    PROVE  UsageIsAttributed'
<1>1. ASSUME NEW line \in Line, Count(line)
      PROVE  UsageIsAttributed'
  <2> DEFINE e == Decode(line)
             c == CountedFor(e)
  <2> PICK n : n = Len(lines)
    OBVIOUS
  <2> PICK T : T = Totals
    OBVIOUS
  <2> PICK U : U = Totals'
    OBVIOUS
  <2>1. e \in Event /\ Total(e) = TotalIn(line) /\ Total(e) \in Nat
    BY DecodedEvent, DecodedTotal
  <2>2. n \in Nat
    BY LenProperties DEF TypeInv, TypeOK
  <2>3. /\ U[n + 1] = Total(e)
        /\ \A i \in 1 .. n : U[i] = T[i] /\ T[i] \in Nat
    BY <1>1, <2>1, TotalsStep
  <2>4. \A a \in Addr \ {NoAddr} :
            LinesOf(a)' = IF a = c THEN LinesOf(a) \cup {n + 1} ELSE LinesOf(a)
    BY <1>1, LinesOfStep
  <2>5. /\ DOMAIN bytesByIP' = DOMAIN bytesByIP \cup ({c} \ {NoAddr})
        /\ \A a \in DOMAIN bytesByIP' :
              bytesByIP'[a] =
                  IF a = c
                  THEN ((IF a \in DOMAIN bytesByIP THEN bytesByIP[a] ELSE 0) + Total(e)) % Word
                  ELSE bytesByIP[a]
        /\ DOMAIN bytesByIP' \subseteq Addr \ {NoAddr}
    <3>1. bytesByIP' = Add(e)
      BY <1>1 DEF Count
    <3> HIDE DEF e
    <3> QED
      BY <2>1, <3>1, AddType, Zenon DEF TypeInv
  <2>6. /\ DOMAIN bytesByIP = {a \in Addr \ {NoAddr} : LinesOf(a) # {}}
        /\ \A a \in DOMAIN bytesByIP : bytesByIP[a] = SumOver(T, LinesOf(a)) % Word
    BY DEF UsageIsAttributed
  <2>7. c \in Addr
    BY <2>1, CountedForType DEF TypeInv
  <2> HIDE DEF c, e
  <2>8. DOMAIN bytesByIP' = {a \in Addr \ {NoAddr} : LinesOf(a)' # {}}
    BY <2>4, <2>5, <2>6, <2>7
  <2>9. ASSUME NEW a \in DOMAIN bytesByIP'
        PROVE  bytesByIP'[a] = SumOver(U, LinesOf(a)') % Word
    <3> PICK L : L = LinesOf(a)
      OBVIOUS
    <3>1. L \subseteq 1 .. n /\ IsFiniteSet(L) /\ n + 1 \notin L
      <4>1. L \subseteq 1 .. n
        BY DEF LinesOf
      <4>2. IsFiniteSet(1 .. n)
        BY <2>2, FS_Interval
      <4> QED
        BY <2>2, <4>1, <4>2, FS_Subset
    <3>2. a \in Addr \ {NoAddr}
      BY <2>5
    <3>3. SumOver(U, L) = SumOver(T, L)
      <4>1. \A i \in L : U[i] = T[i]
        BY <2>3, <3>1
      <4> QED
        BY <3>1, <4>1, SumSame
    <3>4. SumOver(T, L) \in Int
      <4>1. \A i \in L : T[i] \in Int
        BY <2>3, <3>1
      <4> QED
        BY <3>1, <4>1, SumRemove
    <3>5. CASE a # c
      <4>1. LinesOf(a)' = L /\ a \in DOMAIN bytesByIP /\ bytesByIP'[a] = bytesByIP[a]
        BY <2>4, <2>5, <3>2, <3>5
      <4> QED
        BY <2>6, <3>3, <4>1
    <3>6. CASE a = c
      <4> PICK t : t = Total(e)
        OBVIOUS
      <4>1. LinesOf(a)' = L \cup {n + 1}
        BY <2>4, <3>2, <3>6
      <4>2. SumOver(U, L \cup {n + 1}) = t + SumOver(U, L)
        <5>1. \A i \in L \cup {n + 1} : U[i] \in Int
          BY <2>1, <2>3, <3>1
        <5> QED
          BY <2>3, <3>1, <5>1, SumAdd
      <4> PICK old : old = IF a \in DOMAIN bytesByIP THEN bytesByIP[a] ELSE 0
        OBVIOUS
      <4>3. old = SumOver(T, L) % Word
        <5>1. CASE a \in DOMAIN bytesByIP
          BY <2>6, <5>1
        <5>2. CASE a \notin DOMAIN bytesByIP
          <6>1. L = {}
            BY <2>6, <3>2, <5>2
          <6>2. SumOver(T, L) = 0
            BY <6>1, SumEmpty
          <6>3. 0 % Word = 0
            BY UsageAssumption
          <6> QED
            BY <5>2, <6>2, <6>3
        <5> QED
          BY <5>1, <5>2
      <4>4. bytesByIP'[a] = (old + t) % Word
        BY <2>5, <3>6
      <4> PICK x \in Int : x = SumOver(T, L)
        BY <3>4
      <4>5. t \in Int
        BY <2>1
      <4>6. ((x % Word) + t) % Word = (x + t) % Word
        BY <4>5, UsageAssumption, AddToRemainder
      <4>7. x + t = t + x
        BY <4>5
      <4> QED
        BY <3>3, <4>1, <4>2, <4>3, <4>4, <4>6, <4>7
    <3> QED
      BY <3>5, <3>6
  <2> QED
    BY <2>8, <2>9, Zenon DEF UsageIsAttributed
<1>2. ASSUME UNCHANGED <<bytesByIP, lines>>
      PROVE  UsageIsAttributed'
  BY <1>2 DEF UsageIsAttributed, LinesOf, Totals, BelongsTo, Latest
<1>3. CASE WriteUsage
  BY <1>2, <1>3 DEF WriteUsage
<1>4. CASE DecodeFails
  BY <1>2, <1>4 DEF DecodeFails
<1>5. CASE UNCHANGED vars
  BY <1>2, <1>5 DEF vars
<1> QED
  BY <1>1, <1>3, <1>4, <1>5 DEF Next

LEMMA UsageInit ==
    ASSUME Init
    PROVE  UsageIsAttributed
<1>1. DOMAIN bytesByIP = {} /\ Len(lines) = 0
  BY DEF Init
<1>2. 1 .. Len(lines) = {}
  BY <1>1
<1>3. \A a : LinesOf(a) = {}
  BY <1>2, Zenon DEF LinesOf
<1> QED
  BY <1>1, <1>3 DEF UsageIsAttributed

\* "prints peer data usage by IP address" (ssgodatabyip.go:1-2): the counters
\* are the sums, modulo 2^64, of the lines that belong to their addresses.
THEOREM UsageAttributed == Spec => []UsageIsAttributed
<1> DEFINE Inv == TypeInv /\ SessionsAreCurrent /\ UsageIsAttributed
<1>1. Init => Inv
  BY TypeInit, SessionsInit, UsageInit
<1>2. Inv /\ [Next]_vars => Inv'
  BY TypeStep, SessionsStep, UsageStep
<1>3. Inv => UsageIsAttributed
  OBVIOUS
<1> HIDE DEF Inv
<1> QED
  BY <1>1, <1>2, <1>3, PTL DEF Spec

-----------------------------------------------------------------------------
(* Mapped addresses.                                                       *)

Unzoned(a) == a.z \in {z4, z6noz}

\* "An IPv4 address and an IPv4-mapped IPv6 address pointing to the same
\* endpoint are considered equal" (ip.go:9): for addresses that are set and
\* have no zone, the comparison of raw bytes answers what the methods do.
THEOREM UnsafeComparisonAgrees ==
    ASSUME NEW l \in AddrPort, NEW r \in AddrPort,
           Unzoned(l.addr), Unzoned(r.addr)
    PROVE  AddrPortMappedEqualUnsafe(l, r) <=> AddrPortMappedEqual(l, r)
<1> DEFINE a == l.addr
           b == r.addr
<1>1. /\ l = [addr |-> a, port |-> l.port] /\ r = [addr |-> b, port |-> r.port]
      /\ a \in Addr /\ b \in Addr
  BY DEF AddrPort
<1>2. /\ a = [ip |-> a.ip, z |-> a.z] /\ b = [ip |-> b.ip, z |-> b.z]
      /\ a.z = z4 => a.ip \in Mapped
      /\ b.z = z4 => b.ip \in Mapped
  BY <1>1, AddrAssumption DEF Addr, NoAddr
<1>3. /\ Unmap(a) = IF a.ip \in Mapped THEN [ip |-> a.ip, z |-> z4] ELSE a
      /\ Unmap(b) = IF b.ip \in Mapped THEN [ip |-> b.ip, z |-> z4] ELSE b
  BY <1>2, AddrAssumption DEF Unmap, Is4In6, Is6, Unzoned
<1>4. a.ip \notin Mapped => a.z = z6noz
  BY <1>2 DEF Unzoned
<1>5. b.ip \notin Mapped => b.z = z6noz
  BY <1>2 DEF Unzoned
<1>6. Unmap(a) = Unmap(b) <=> a.ip = b.ip
  BY <1>2, <1>3, <1>4, <1>5
<1> QED
  BY <1>1, <1>2, <1>6 DEF AddrPortMappedEqual, AddrPortMappedEqualUnsafe

\* "converts an IPv4 address to an IPv4-mapped IPv6 address ... does nothing
\* if addrPort is an IPv6 address" (ip.go:34-35): overwriting z makes the same
\* endpoint as the methods, for every address, zoned or not set as well.
THEOREM UnsafeConversionAgrees ==
    ASSUME NEW ap \in AddrPort
    PROVE  AddrPortv4Mappedv6Unsafe(ap) = AddrPortv4Mappedv6(ap)
BY DEF AddrPort, Addr, NoAddr, AddrPortv4Mappedv6Unsafe, AddrPortv4Mappedv6, AddrFrom16

\* The converted endpoint is the endpoint that was given, for the comparison
\* of the same package, and is no IPv4 address any more.
THEOREM ConversionKeepsEndpoint ==
    ASSUME NEW ap \in AddrPort
    PROVE  /\ AddrPortMappedEqual(AddrPortv4Mappedv6(ap), ap)
           /\ ~Is4(AddrPortv4Mappedv6(ap).addr)
           /\ AddrPortv4Mappedv6(ap) \in AddrPort
<1>1. CASE ~Is4(ap.addr)
  BY <1>1 DEF AddrPortMappedEqual, AddrPortv4Mappedv6
<1>2. CASE Is4(ap.addr)
  <2>1. ap.addr \in [ip : Mapped, z : {z4}] /\ ap.port \in Port
    BY <1>2, AddrAssumption DEF AddrPort, Addr, NoAddr, Is4
  <2> DEFINE cv == AddrFrom16(ap.addr.ip)
  <2>2. AddrPortv4Mappedv6(ap) = [addr |-> cv, port |-> ap.port]
    BY <1>2 DEF AddrPortv4Mappedv6
  <2>3. Unmap(cv) = ap.addr /\ Unmap(ap.addr) = ap.addr
    BY <2>1, AddrAssumption DEF AddrFrom16, Unmap, Is4In6, Is6
  <2>4. cv \in Addr /\ ~Is4(cv)
    BY <2>1, AddrAssumption DEF AddrFrom16, Addr, NoAddr, Is4
  <2> QED
    BY <2>1, <2>2, <2>3, <2>4 DEF AddrPortMappedEqual, AddrPort
<1> QED
  BY <1>1, <1>2

\* Endpoints that are considered equal (ip.go:8-10) fall into classes: the
\* safe comparison is an equivalence, although it unmaps only if the
\* arguments differ.
THEOREM MappedEqualIsEquivalence ==
    ASSUME NEW k \in AddrPort, NEW l \in AddrPort, NEW m \in AddrPort
    PROVE  /\ AddrPortMappedEqual(k, k)
           /\ AddrPortMappedEqual(k, l) => AddrPortMappedEqual(l, k)
           /\ AddrPortMappedEqual(k, l) /\ AddrPortMappedEqual(l, m) =>
                  AddrPortMappedEqual(k, m)
BY DEF AddrPortMappedEqual

\* Whenever the safe comparison says yes, so does the unsafe one: where they
\* differ (zones, and the zero Addr against ::) the unsafe one says yes.
THEOREM UnsafeComparisonIsWeaker ==
    ASSUME NEW l \in AddrPort, NEW r \in AddrPort, AddrPortMappedEqual(l, r)
    PROVE  AddrPortMappedEqualUnsafe(l, r)
<1>1. \A a \in Addr : Unmap(a).ip = a.ip
  BY DEF Addr, NoAddr, Unmap
<1> QED
  BY <1>1 DEF AddrPort, AddrPortMappedEqual, AddrPortMappedEqualUnsafe

\* "ResolveAddr resolves a domain name string into netip.Addr"
\* (resolv/main.go:57): with a valid preference it answers with an address the
\* resolver has found, of the preferred family whenever there is one.
THEOREM PreferredFamily ==
    ASSUME NEW ips \in Seq(Addr), Len(ips) > 0, NEW af \in {0, 4, 6}, NEW answer,
           ResolveAddr(ips, af, answer)
    PROVE  /\ \E i \in 1 .. Len(ips) : answer = ips[i]
           /\ af # 0 /\ Matches(ips, af) # {} => OfFamily(answer, af)
<1>1. PICK i \in 1 .. Len(ips) :
          /\ answer = ips[i]
          /\ IF Len(ips) > 1 /\ af # 0 /\ Matches(ips, af) # {}
                 THEN /\ i \in Matches(ips, af)
                      /\ \A j \in Matches(ips, af) : i <= j
                 ELSE i = 1
  BY DEF ResolveAddr
<1>2. ASSUME af # 0, Matches(ips, af) # {}, ~(Len(ips) > 1)
      PROVE  1 \in Matches(ips, af)
  <2>1. Len(ips) \in Nat
    OBVIOUS
  <2>2. Len(ips) = 1
    BY <1>2, <2>1
  <2>3. PICK j \in 1 .. Len(ips) : j \in Matches(ips, af)
    BY <1>2 DEF Matches
  <2> QED
    BY <2>2, <2>3
<1> QED
  BY <1>1, <1>2 DEF Matches

-----------------------------------------------------------------------------
(* Prefixes from text.                                                     *)

\* An ending of the line leaves its text: the file may have been saved with the
\* endings of Windows, of Unix, or with none after the last line.
THEOREM LineEndings ==
    ASSUME NEW text \in Seq(Char), text # <<>>, text[1] # Hash,
           Last(text) # LF, Last(text) # CR
    PROVE  /\ Content(text) = text
           /\ Content(Append(text, LF)) = text
           /\ Content(Append(Append(text, CR), LF)) = text
<1>1. Content(text) = text
  BY DEF Content
<1> DEFINE u == Append(text, LF)
           w == Append(text, CR)
<1>2. Len(text) \in Nat \ {0}
  OBVIOUS
<1>3. \A c : Last(Append(text, c)) = c /\ Front(Append(text, c)) = text
             /\ Append(text, c) # <<>> /\ Append(text, c)[1] = text[1]
  <2> TAKE c
  <2> QED
    BY <1>2 DEF Last, Front
<1>4. Content(Append(text, LF)) = text
  BY <1>3 DEF Content, CR, LF
<1>5. Append(text, CR)[1] = text[1] /\ Append(text, CR) # <<>>
  BY <1>3
<1>6. Last(Append(w, LF)) = LF /\ Front(Append(w, LF)) = w
      /\ Append(w, LF) # <<>> /\ Append(w, LF)[1] = w[1]
  BY <1>2 DEF Last, Front
<1>7. Content(Append(w, LF)) = text
  BY <1>3, <1>5, <1>6 DEF Content
<1> QED
  BY <1>1, <1>4, <1>7

\* A line that is empty, but for its ending, or a comment is passed over by all
\* three parsers, and no other line is.
THEOREM PassedOver ==
    ASSUME NEW line \in Seq(Char)
    PROVE  Content(line) = <<>> <=>
               \/ line \in {<<>>, <<LF>>, <<CR, LF>>}
               \/ line # <<>> /\ line[1] = Hash
<1>1. CASE line = <<>> \/ line[1] = Hash
  BY <1>1 DEF Content
<1>2. CASE line # <<>> /\ line[1] # Hash /\ Last(line) # LF
  <2>1. Content(line) = line
    BY <1>2 DEF Content
  <2>2. line \notin {<<LF>>, <<CR, LF>>}
    BY <1>2 DEF Last
  <2> QED
    BY <1>2, <2>1, <2>2
<1>3. CASE line # <<>> /\ line[1] # Hash /\ Last(line) = LF
  <2> DEFINE f == Front(line)
  <2>0. Len(line) \in Nat \ {0}
    BY <1>3
  <2>1. /\ f \in Seq(Char) /\ Len(f) = Len(line) - 1
        /\ \A i \in 1 .. Len(f) : f[i] = line[i]
    <3> DEFINE n == Len(line) - 1
    <3>1. n \in Nat /\ \A i \in 1 .. n : line[i] \in Char
      BY <2>0
    <3> HIDE DEF n
    <3>2. /\ SubSeq(line, 1, n) \in Seq(Char)
          /\ Len(SubSeq(line, 1, n)) = IF 1 <= n THEN n - 1 + 1 ELSE 0
          /\ \A i \in 1 .. n - 1 + 1 : SubSeq(line, 1, n)[i] = line[1 + i - 1]
      BY <3>1, SubSeqProperties
    <3>3. f = SubSeq(line, 1, n)
      BY DEF Front, f, n
    <3>4. Len(f) = n
      BY <3>1, <3>2, <3>3
    <3>5. \A i \in 1 .. n : f[i] = line[i]
      BY <3>1, <3>2, <3>3
    <3> QED
      BY <3>2, <3>3, <3>4, <3>5 DEF n
  <2> HIDE DEF f
  <2>2. CASE f = <<>>
    <3>1. Content(line) = <<>>
      BY <1>3, <2>2 DEF Content, f
    <3>2. Len(f) = 0
      BY <2>2
    <3>3. Len(line) = 1 /\ line[1] = LF
      <4>1. Len(line) = 1
        BY <2>0, <2>1, <3>2
      <4> QED
        BY <1>3, <4>1 DEF Last
    <3>4. line = <<LF>>
      BY <3>3
    <3> QED
      BY <3>1, <3>4
  <2>3. CASE f # <<>> /\ Last(f) = CR
    <3>1. Content(line) = Front(f)
      BY <1>3, <2>3 DEF Content, f
    <3>2. /\ Len(f) \in Nat \ {0} /\ Len(Front(f)) = Len(f) - 1
          /\ Front(f) \in Seq(Char)
      BY <2>1, <2>3 DEF Front
    <3>3. ASSUME Front(f) = <<>>
          PROVE  line = <<CR, LF>>
      <4>1. Len(f) = 1 /\ Len(line) = 2
        BY <2>0, <2>1, <3>2, <3>3
      <4>2. line[1] = CR /\ line[2] = LF
        BY <1>3, <2>1, <2>3, <4>1 DEF Last
      <4> QED
        BY <4>1, <4>2
    <3>4. ASSUME line = <<CR, LF>>
          PROVE  Front(f) = <<>>
      <4>1. Len(line) = 2
        BY <3>4
      <4> QED
        BY <2>1, <3>2, <4>1
    <3>5. line # <<LF>>
      BY <2>0, <2>1, <3>2
    <3> QED
      BY <1>3, <3>1, <3>3, <3>4, <3>5
  <2>4. CASE f # <<>> /\ Last(f) # CR
    <3>1. Content(line) = f
      BY <1>3, <2>4 DEF Content, f
    <3>2. line # <<LF>>
      BY <2>1, <2>4
    <3>3. line # <<CR, LF>>
      <4> SUFFICES ASSUME line = <<CR, LF>>
                   PROVE  FALSE
        OBVIOUS
      <4>1. Len(f) = 1 /\ f[1] = CR
        BY <2>1
      <4> QED
        BY <2>4, <4>1 DEF Last
    <3> QED
      BY <1>3, <2>4, <3>1, <3>2, <3>3
  <2> QED
    BY <2>2, <2>3, <2>4
<1> QED
  BY <1>1, <1>2, <1>3

\* What IPSetToText and PrefixSetToText write can be read again, and gives a set
\* of the same addresses.
THEOREM RoundTrip ==
    ASSUME error \notin Prefix,
           \A p \in Prefix :
               /\ String(p) \in Seq(Char) /\ String(p) # <<>>
               /\ String(p)[1] # Hash /\ Last(String(p)) \notin {LF, CR}
               /\ ParsePrefix(String(p)) = p,
           NEW prefixes \in Seq(Prefix)
    PROVE  FromText(ToText(prefixes))
               = UNION {Addresses(prefixes[i]) : i \in DOMAIN prefixes}
<1> DEFINE written == ToText(prefixes)
<1>1. DOMAIN written = DOMAIN prefixes
  BY DEF ToText
<1>2. ASSUME NEW i \in DOMAIN prefixes
      PROVE  /\ Content(written[i]) = String(prefixes[i])
             /\ Content(written[i]) # <<>>
             /\ ParsePrefix(Content(written[i])) = prefixes[i]
  <2>1. prefixes[i] \in Prefix
    OBVIOUS
  <2>2. Content(Append(String(prefixes[i]), LF)) = String(prefixes[i])
    BY <2>1, LineEndings
  <2> QED
    BY <2>1, <2>2 DEF ToText
<1>3. Parsed(written) = {prefixes[i] : i \in DOMAIN prefixes}
  BY <1>1, <1>2 DEF Parsed
<1>4. error \notin Parsed(written)
  BY <1>3
<1>5. UNION {Addresses(p) : p \in Parsed(written)}
          = UNION {Addresses(prefixes[i]) : i \in DOMAIN prefixes}
  BY <1>3
<1> QED
  BY <1>4, <1>5 DEF FromText
=============================================================================
