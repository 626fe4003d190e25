----------------------------- MODULE DataUsage -----------------------------
(***************************************************************************)
(* ssgodatabyip/ssgodatabyip.go: main, which adds up the bytes of the      *)
(* events of a log by the address of the client.  An event that says its   *)
(* session and not its address is counted for the address that an earlier  *)
(* event of the session has said.                                          *)
(*                                                                         *)
(* What the decoder gets to see of the log is the subject of EventReader;  *)
(* here it yields one JSON object after another, until the end of the log  *)
(* or an error.                                                            *)
(***************************************************************************)
EXTENDS Integers, FiniteSets, SequencesExt, Sums, NetipAddr

CONSTANTS
    Session,    \* the session IDs in use: uint64, not 0
    Word,       \* 2^64
    Line,       \* the JSON objects: functions from some fields to values
    MaxLines    \* bound: the events of a log

Field == {"clientAddress", "clientSessionID", "nl2r", "nr2l", "payloadBytesSent"}

Event == [clientAddress : Addr, clientSessionID : Session \cup {0},
          nl2r : 0 .. Word - 1, nr2l : 0 .. Word - 1,
          payloadBytesSent : 0 .. Word - 1]

NoEvent == [clientAddress |-> NoAddr, clientSessionID |-> 0,
            nl2r |-> 0, nr2l |-> 0, payloadBytesSent |-> 0]

ASSUME UsageAssumption ==
    /\ Word \in Nat \ {0}
    /\ Session \subseteq Nat \ {0}
    /\ MaxLines \in Nat
    /\ \A line \in Line : \E e \in Event, S \in SUBSET Field :
           line = [f \in S |-> e[f]]

VARIABLES
    event,        \* the Event that is decoded into
    addrByCSID,   \* the address of each session, as far as known
    bytesByIP,
    usage,        \* the lines of the output
    pc,           \* "decode", "done", or "failed" after os.Exit(1)
    lines         \* history: the JSON objects so far

vars == <<event, addrByCSID, bytesByIP, usage, pc, lines>>

Init ==
    /\ event = NoEvent
    /\ addrByCSID = [s \in {} |-> NoAddr]
    /\ bytesByIP = [a \in {} |-> 0]
    /\ usage = <<>>
    /\ pc = "decode"
    /\ lines = <<>>

\* Seeded fault: the event is not reset before the next one is decoded.
DecodeOnto(line) ==
    [f \in Field |-> IF f \in DOMAIN line THEN line[f] ELSE event[f]]

\* event = Event{}, and Decode: a field that the object leaves out is zero.
Decode(line) ==
    [f \in Field |-> IF f \in DOMAIN line THEN line[f] ELSE NoEvent[f]]

\* Seeded fault: the address of a session is kept from its first event on.
SessionAddrsFirst(e) ==
    IF e.clientSessionID # 0 /\ IsValid(e.clientAddress)
        THEN [s \in DOMAIN addrByCSID \cup {e.clientSessionID} |->
                 IF s \in DOMAIN addrByCSID THEN addrByCSID[s] ELSE e.clientAddress]
        ELSE addrByCSID

SessionAddrs(e) ==
    IF e.clientSessionID # 0 /\ IsValid(e.clientAddress)
        THEN [s \in DOMAIN addrByCSID \cup {e.clientSessionID} |->
                 IF s = e.clientSessionID THEN e.clientAddress ELSE addrByCSID[s]]
        ELSE addrByCSID

\* The address that e is counted for; a missing entry of the map reads as the
\* zero Addr.
CountedFor(e) ==
    IF IsValid(e.clientAddress) THEN e.clientAddress
    ELSE IF e.clientSessionID \in DOMAIN addrByCSID
             THEN addrByCSID[e.clientSessionID]
             ELSE NoAddr

Total(e) == e.nl2r + e.nr2l + e.payloadBytesSent

\* Seeded fault: an event without an address is counted all the same.
AddInvalid(e) ==
    [a \in DOMAIN bytesByIP \cup {CountedFor(e)} |->
        LET old == IF a \in DOMAIN bytesByIP THEN bytesByIP[a] ELSE 0
        IN  IF a = CountedFor(e) THEN (old + Total(e)) % Word ELSE old]

Add(e) ==
    [a \in DOMAIN bytesByIP \cup ({CountedFor(e)} \ {NoAddr}) |->
        LET old == IF a \in DOMAIN bytesByIP THEN bytesByIP[a] ELSE 0
        IN  IF a = CountedFor(e) THEN (old + Total(e)) % Word ELSE old]

\* One iteration of the loop.
Count(line) ==
    /\ pc = "decode"
    /\ Len(lines) < MaxLines
    /\ event' = Decode(line)
    /\ addrByCSID' = SessionAddrs(event')
    /\ bytesByIP' = Add(event')
    /\ lines' = Append(lines, line)
    /\ UNCHANGED <<usage, pc>>

\* SortFunc is not stable, and the map is in no order: equal amounts may come
\* in any order.
Sorted(s) == \A i, j \in 1 .. Len(s) : i < j => s[i].bytes >= s[j].bytes

\* io.EOF: sort, print and return.
WriteUsage ==
    /\ pc = "decode"
    /\ pc' = "done"
    /\ \E order \in SetToSeqs(DOMAIN bytesByIP) :
           LET s == [i \in 1 .. Len(order) |->
                        [ip |-> order[i], bytes |-> bytesByIP[order[i]]]]
           IN  Sorted(s) /\ usage' = s
    /\ UNCHANGED <<event, addrByCSID, bytesByIP, lines>>

DecodeFails ==
    /\ pc = "decode"
    /\ pc' = "failed"
    /\ UNCHANGED <<event, addrByCSID, bytesByIP, usage, lines>>

Next == (\E line \in Line : Count(line)) \/ WriteUsage \/ DecodeFails

Spec == Init /\ [][Next]_vars

-----------------------------------------------------------------------------
(* Properties.                                                             *)

AddressIn(line) ==
    IF "clientAddress" \in DOMAIN line THEN line.clientAddress ELSE NoAddr
SessionIn(line) ==
    IF "clientSessionID" \in DOMAIN line THEN line.clientSessionID ELSE 0
TotalIn(line) == SumOver(line, DOMAIN line \cap {"nl2r", "nr2l", "payloadBytesSent"})

\* Line i is the last of the first n lines to say an address of session s.
Latest(n, s, i) ==
    /\ i \in 1 .. n
    /\ SessionIn(lines[i]) = s /\ IsValid(AddressIn(lines[i]))
    /\ \A j \in i + 1 .. n : SessionIn(lines[j]) = s => ~IsValid(AddressIn(lines[j]))

\* Line i belongs to address a: it says so, or the latest line of its session
\* before it that says an address does.
BelongsTo(i, a) ==
    \/ a = AddressIn(lines[i])
    \/ /\ ~IsValid(AddressIn(lines[i]))
       /\ SessionIn(lines[i]) # 0
       /\ \E j \in 1 .. i : Latest(i, SessionIn(lines[i]), j) /\ a = AddressIn(lines[j])

LinesOf(a) == {i \in 1 .. Len(lines) : BelongsTo(i, a)}
Totals == [i \in 1 .. Len(lines) |-> TotalIn(lines[i])]

TypeOK ==
    /\ event \in Event
    /\ DOMAIN addrByCSID \subseteq Session
    /\ \A s \in DOMAIN addrByCSID : addrByCSID[s] \in Addr \ {NoAddr}
    /\ DOMAIN bytesByIP \subseteq Addr \ {NoAddr}
    /\ \A a \in DOMAIN bytesByIP : bytesByIP[a] \in 0 .. Word - 1
    /\ \A i \in 1 .. Len(usage) : usage[i] \in [ip : Addr, bytes : 0 .. Word - 1]
    /\ pc \in {"decode", "done", "failed"}
    /\ lines \in Seq(Line)

\* "prints peer data usage by IP address" (ssgodatabyip.go:1-2): whatever
\* sessions, addresses and missing fields the events come with, the counter of
\* an address is the sum, modulo 2^64, of the lines that belong to it, each
\* counted once, and there is no other counter.
UsageIsAttributed ==
    /\ DOMAIN bytesByIP = {a \in Addr \ {NoAddr} : LinesOf(a) # {}}
    /\ \A a \in DOMAIN bytesByIP : bytesByIP[a] = SumOver(Totals, LinesOf(a)) % Word

\* The map of sessions (ssgodatabyip.go:36-42) has a session exactly if a line
\* has said an address of it, and the address is the latest, also of a client
\* that has moved and when other sessions came between.
SessionsAreCurrent ==
    \A s \in Session :
        /\ s \in DOMAIN addrByCSID <=> \E i \in 1 .. Len(lines) : Latest(Len(lines), s, i)
        /\ \A i \in 1 .. Len(lines) :
              Latest(Len(lines), s, i) => addrByCSID[s] = AddressIn(lines[i])
=============================================================================
