-------------------------- MODULE RoutingMessages --------------------------
(***************************************************************************)
(* route/cmd/route/main_bsd.go, parseAndLogMsgs: takes a buffer of routing *)
(* messages apart, from a dump or from one read of the routing socket, and *)
(* logs them.  route/bsdroute finds the socket addresses in a message:     *)
(* ParseAddrs, RtaAlign and, by platform, AddrsBuf.                        *)
(*                                                                         *)
(* The kernel, which is not part of the repository, writes a message as a  *)
(* header and, in the order of their RTAX indices, the addresses in the    *)
(* message's bitmask, each padded to a multiple of the alignment and at    *)
(* least one of it.  All positions are byte offsets in the buffer; what is *)
(* read at an offset is the message or address that begins there, and      *)
(* zeros where none does.  One iteration of a loop is one step.            *)
(*                                                                         *)
(* Left out: the wording of the log, and the flags of an IPv6 address,     *)
(* which an ioctl may add to it.                                           *)
(***************************************************************************)
EXTENDS Integers, SequencesExt, Sums, RtaAlign

CONSTANTS
    Platform,      \* see PlatformOK: sizes as compiled in, and as the kernel has them
    Buffer,        \* what the kernel may write, see MessageOK and Written
    ReadBufSize    \* what a read of the socket returns at most

Type == {"route", "interface", "address"}   \* the types with a struct
RTAX_DST == 0
RTAX_NETMASK == 2
RTAX_IFA == 5                     \* the last one that appendAddrAttrs looks at
SizeofSockaddrInet4 == 16
SizeofSockaddrInet6 == 28

\* Every header begins with the common msghdr, and a build that does not read
\* the length of a header from the message has that of its kernel compiled in.
PlatformOK(p) ==
    /\ p.rtaAlignTo \in {4, 8}
    /\ p.sizeofMsghdr \in {4, 6}
    /\ p.hdrlen \in BOOLEAN     \* the OpenBSD build
    /\ p.current \in BOOLEAN    \* the kernel's version is RTM_VERSION
    /\ p.sizeofSockaddrDatalink \in Nat /\ p.sizeofSockaddrDatalink >= SizeofSockaddrInet4
    /\ p.datalinkData \in Nat   \* len(RawSockaddrDatalink{}.Data)
    /\ \A t \in Type : p.sizeof[t] \in Nat /\ (~p.hdrlen => p.header[t] = p.sizeof[t])

\* Indices of interfaces are positive, and no address in a message is so long
\* that RtaAlign would wrap around.
MessageOK(m, p) ==
    /\ m.index \in Nat \ {0}
    /\ p.header[m.type] \in Nat /\ p.header[m.type] >= p.sizeofMsghdr
    /\ IsFiniteSet(DOMAIN m.addrs) /\ DOMAIN m.addrs \subseteq Nat
    /\ \A i \in DOMAIN m.addrs : m.addrs[i].len \in 0 .. 256 - p.rtaAlignTo

ASSUME MessagesAssumption ==
    /\ ReadBufSize \in Nat
    /\ \A p \in Platform : PlatformOK(p)
    /\ \A s \in Buffer : /\ s \in Seq(Range(s))
                         /\ \A k \in DOMAIN s, p \in Platform : MessageOK(s[k], p)

VARIABLES
    platform,
    filter,      \* the argument of parseAndLogMsgs
    messages,    \* what the kernel has written
    size,        \* len(b) of the call, in bytes
    pc,          \* the loop: "message" or, of ParseAddrs, "address"; or "done"
    at,          \* where the message at the front of b begins
    ifindex,
    bits,        \* the addresses that ParseAddrs still has to look for
    addrsAt,     \* where b of ParseAddrs begins
    dst,         \* the addresses it has found: their offsets, by RTAX index
    logged

input == <<platform, filter, messages, size>>
parseVars == <<bits, addrsAt, dst>>
vars == <<input, pc, at, ifindex, parseVars, logged>>

-----------------------------------------------------------------------------
(* The kernel.                                                             *)

\* Where address i of m begins, and where m ends, counted from m's beginning.
AddrOffset(m, i) ==
    platform.header[m.type]
        + SumOver([j \in DOMAIN m.addrs |-> Padded(platform.rtaAlignTo, m.addrs[j].len)],
                  {j \in DOMAIN m.addrs : j < i})
Msglen(m) == AddrOffset(m, 1 + Max({-1} \cup DOMAIN m.addrs))

Start(k) == SumOver([j \in DOMAIN messages |-> Msglen(messages[j])], 1 .. k - 1)

\* The message that begins at an offset, and the address that begins at an
\* offset of it.
MessageAt(o) == messages[CHOOSE k \in DOMAIN messages : Start(k) = o]

NoSockaddr == [len |-> 0, family |-> "none", unspecified |-> FALSE, nlen |-> 0]

SockaddrIn(m, o) ==
    IF \E i \in DOMAIN m.addrs : AddrOffset(m, i) = o
    THEN m.addrs[CHOOSE i \in DOMAIN m.addrs : AddrOffset(m, i) = o]
    ELSE NoSockaddr

\* A dump is of routes, or of the interfaces, each once and with its addresses
\* after it.  A read of the socket returns one message of any type.
Written(s) ==
    \/ Len(s) = 1
    \/ \A k \in DOMAIN s : s[k].type = "route"
    \/ \A k \in DOMAIN s :
          \/ /\ s[k].type = "interface"
             /\ \A j \in 1 .. k - 1 : s[j].index # s[k].index
          \/ /\ s[k].type = "address"
             /\ k > 1 /\ s[k - 1].index = s[k].index

\* A message that is longer than the buffer of the read is cut off.
Init ==
    /\ platform \in Platform
    /\ messages \in {s \in Buffer : Written(s)}
    /\ filter \in BOOLEAN
    /\ LET total == Start(Len(messages) + 1)
       IN  size = IF Len(messages) = 1 /\ ~filter THEN Min({ReadBufSize, total})
                                                  ELSE total
    /\ pc = "message"
    /\ at = 0
    /\ ifindex = 0
    /\ bits = {}
    /\ addrsAt = 0
    /\ dst = <<>>
    /\ logged = <<>>

-----------------------------------------------------------------------------
(* parseAndLogMsgs: one message.                                           *)

MsgAtFront(m) == pc = "message" /\ size - at >= platform.sizeofMsghdr /\ m = MessageAt(at)

\* A seeded fault: trust the length in the header.
BadLengthUnchecked(m) == Msglen(m) < platform.sizeofMsghdr

BadLength(m) == Msglen(m) < platform.sizeofMsghdr \/ Msglen(m) > size - at

TooShort(m) == Msglen(m) < platform.sizeof[m.type]

\* AddrsBuf: the header's length, as the message tells it or as compiled in.
AddrsBuf(m) == IF platform.hdrlen THEN platform.header[m.type] ELSE platform.sizeof[m.type]
AddrsBufOk(m) == platform.hdrlen => AddrsBuf(m) <= Msglen(m)

RouteLeftOut(m) == ~({"up", "gateway"} \subseteq m.flags) \/ "host" \in m.flags

InterfaceLeftOut(m) ==
    \/ ~({"up", "running"} \subseteq m.flags)
    \/ m.flags \cap {"loopback", "pointopoint"} # {}

AddressLeftOut(m) == m.index # ifindex

LeftOut(m) ==
    /\ filter
    /\ CASE m.type = "route" -> RouteLeftOut(m)
         [] m.type = "interface" -> InterfaceLeftOut(m)
         [] m.type = "address" -> AddressLeftOut(m)

Refused(m) ==
    \/ BadLength(m)
    \/ /\ platform.current
       /\ m.type \in Type
       /\ TooShort(m) \/ (~LeftOut(m) /\ ~AddrsBufOk(m))

Return ==
    /\ pc' = "done"
    /\ UNCHANGED <<input, at, ifindex, parseVars, logged>>

EndOfBuffer == pc = "message" /\ size - at < platform.sizeofMsghdr /\ Return

InvalidMessage(m) == MsgAtFront(m) /\ Refused(m) /\ Return

\* continue: b is b[m.Msglen:] by then.
Skip(m) ==
    /\ at' = at + Msglen(m)
    /\ UNCHANGED <<input, pc, ifindex, parseVars, logged>>

\* A seeded fault: continue before b is moved on.
OtherVersionStays(m) ==
    MsgAtFront(m) /\ ~BadLength(m) /\ ~platform.current /\ UNCHANGED vars

OtherVersion(m) == MsgAtFront(m) /\ ~BadLength(m) /\ ~platform.current /\ Skip(m)

\* A seeded fault: ifindex is set before an interface is filtered.
FilteredRemembers(m) ==
    /\ MsgAtFront(m) /\ ~Refused(m) /\ platform.current /\ m.type \in Type
    /\ LeftOut(m)
    /\ ifindex' = IF m.type = "interface" THEN m.index ELSE ifindex
    /\ at' = at + Msglen(m)
    /\ UNCHANGED <<input, pc, parseVars, logged>>

Filtered(m) ==
    /\ MsgAtFront(m) /\ ~Refused(m) /\ platform.current /\ m.type \in Type
    /\ LeftOut(m)
    /\ Skip(m)

UnknownType(m) ==
    /\ MsgAtFront(m) /\ ~Refused(m) /\ platform.current /\ m.type \notin Type
    /\ logged' = Append(logged, [type |-> m.type, index |-> m.index, attrs |-> <<>>])
    /\ at' = at + Msglen(m)
    /\ UNCHANGED <<input, pc, ifindex, parseVars>>

BeginAddrs(m) ==
    /\ MsgAtFront(m) /\ ~Refused(m) /\ platform.current /\ m.type \in Type
    /\ ~LeftOut(m)
    /\ ifindex' = IF m.type = "interface" THEN m.index ELSE ifindex
    /\ bits' = DOMAIN m.addrs
    /\ addrsAt' = at + AddrsBuf(m)
    /\ dst' = <<>>
    /\ pc' = "address"
    /\ UNCHANGED <<input, at, logged>>

-----------------------------------------------------------------------------
(* ParseAddrs: one address.                                                *)

\* A seeded fault: no look at how much of the message is left.
ParseAddrUnguarded(m) ==
    /\ pc = "address" /\ bits # {}
    /\ m = MessageAt(at)
    /\ LET i == Min(bits)
       IN  /\ dst' = [j \in {i} \cup DOMAIN dst |-> IF j = i THEN addrsAt ELSE dst[j]]
           /\ bits' = bits \ {i}
           /\ addrsAt' = addrsAt + RtaAlign(platform.rtaAlignTo,
                                            SockaddrIn(m, addrsAt - at).len)
    /\ UNCHANGED <<input, pc, at, ifindex, logged>>

ParseAddr(m) ==
    /\ pc = "address" /\ bits # {}
    /\ m = MessageAt(at)
    /\ LET i == Min(bits)
           left == at + Msglen(m) - addrsAt         \* len(b)
           alignedLen == RtaAlign(platform.rtaAlignTo, SockaddrIn(m, addrsAt - at).len)
       IN  /\ dst' = IF left >= SizeofSockaddrInet4
                     THEN [j \in {i} \cup DOMAIN dst |-> IF j = i THEN addrsAt ELSE dst[j]]
                     ELSE dst
           /\ IF left = 0 \/ left < alignedLen
              THEN bits' = {} /\ UNCHANGED addrsAt
              ELSE bits' = bits \ {i} /\ addrsAt' = addrsAt + alignedLen
    /\ UNCHANGED <<input, pc, at, ifindex, logged>>

\* appendAddrAttr: whether an address becomes an attribute.
Shown(sa, unspecifiedOnly) ==
    \/ /\ \/ sa.family = "inet" /\ sa.len >= SizeofSockaddrInet4
          \/ sa.family = "inet6" /\ sa.len >= SizeofSockaddrInet6
       /\ unspecifiedOnly => sa.unspecified
    \/ /\ sa.family = "link"
       /\ sa.len >= platform.sizeofSockaddrDatalink /\ sa.nlen <= platform.datalinkData

\* appendAddrAttrs: found is what ParseAddrs has found, by index.
Attrs(m, found) ==
    [i \in {i \in DOMAIN found :
               /\ i <= RTAX_IFA
               /\ Shown(found[i], /\ i \in {RTAX_DST, RTAX_NETMASK}
                                  /\ m.type = "route" /\ filter)} |-> found[i]]

LogMessage(m) ==
    /\ pc = "address" /\ bits = {}
    /\ m = MessageAt(at)
    /\ logged' = Append(logged,
                        [type |-> m.type, index |-> m.index,
                         attrs |-> Attrs(m, [i \in DOMAIN dst |-> SockaddrIn(m, dst[i] - at)])])
    /\ at' = at + Msglen(m)
    /\ pc' = "message"
    /\ UNCHANGED <<input, ifindex, parseVars>>

Next ==
    \/ EndOfBuffer
    \/ \E k \in DOMAIN messages : LET m == messages[k] IN
          \/ InvalidMessage(m) \/ OtherVersion(m) \/ Filtered(m) \/ UnknownType(m)
          \/ BeginAddrs(m) \/ ParseAddr(m) \/ LogMessage(m)

Spec == Init /\ [][Next]_vars

\* One goroutine, which nothing blocks.
FairSpec == Spec /\ WF_vars(Next)

-----------------------------------------------------------------------------
(* Properties.                                                             *)

\* b, which the loop cuts from the front by a length that the buffer itself
\* holds, never begins past its end (a slice out of range would panic), and
\* neither does the b of ParseAddrs or an address that it has found.
TypeOK ==
    /\ platform \in Platform
    /\ filter \in BOOLEAN
    /\ pc \in {"message", "address", "done"}
    /\ size \in Nat /\ at \in 0 .. size /\ addrsAt \in 0 .. size
    /\ \A i \in DOMAIN dst : dst[i] \in 0 .. size
    /\ Len(logged) <= Len(messages)

\* What ParseAddrs has found so far: each address is the one of its index, and
\* the bytes that appendAddrAttr may read there, those of the struct of its
\* family and at least a sockaddr_in, end with the message or before it.
FindsAddresses ==
    pc = "address" =>
        LET m == MessageAt(at)
        IN  \A i \in DOMAIN dst :
                /\ dst[i] = at + AddrOffset(m, i)
                /\ dst[i] + Max({SizeofSockaddrInet4, m.addrs[i].len}) <= at + Msglen(m)

\* The messages of this build's version that the loop comes to: those before
\* the first one that is cut off or shorter than its struct.
Reached(k) ==
    \A j \in 1 .. k :
        /\ Start(j + 1) <= size
        /\ platform.current
        /\ messages[j].type \in Type
              => Msglen(messages[j]) >= platform.sizeof[messages[j].type]

Usable(m) == {"up", "running"} \subseteq m.flags /\ {"loopback", "pointopoint"} \cap m.flags = {}

\* What the messages that the kernel has written ought to bring into the log: a
\* filtered dump tells the usable interfaces, their addresses, those of no
\* other interface, and the routes by way of a gateway.
Told(k) ==
    LET m == messages[k]
    IN  \/ ~filter
        \/ m.type = "interface" /\ Usable(m)
        \/ /\ m.type = "address"
           /\ \E j \in 1 .. k - 1 : /\ messages[j].type = "interface"
                                    /\ messages[j].index = m.index
                                    /\ Usable(messages[j])
        \/ m.type = "route" /\ {"up", "gateway"} \subseteq m.flags /\ "host" \notin m.flags
        \/ m.type \notin Type

\* What the log says of a message.
Entry(m) ==
    [type |-> m.type, index |-> m.index,
     attrs |-> IF m.type \in Type THEN Attrs(m, m.addrs) ELSE <<>>]

\* The numbers in S, from the least to the greatest.
InOrder(S) ==
    CHOOSE e \in [1 .. Cardinality(S) -> S] :
        \A i, j \in 1 .. Cardinality(S) : i < j => e[i] < e[j]

Expected ==
    LET due == InOrder({k \in DOMAIN messages : Reached(k) /\ Told(k)})
    IN  [n \in DOMAIN due |-> Entry(messages[due[n]])]

\* The log tells of each message in turn, with the addresses that the kernel
\* put into it at their indices, whatever the lengths of those before, and at
\* the end of all that it ought to tell of.
ReportsMessages ==
    /\ IsPrefix(logged, Expected)
    /\ pc = "done" => logged = Expected

\* A filtered dump has "just the default routes", as the help of dumpAll says
\* (main.go:18).  The destination of a default route is unspecified.
OnlyDefaultRoutes ==
    filter => \A i \in DOMAIN logged : logged[i].type = "route" =>
        \E m \in Range(messages) :
            /\ RTAX_DST \in DOMAIN m.addrs /\ m.addrs[RTAX_DST].unspecified
            /\ logged[i] = Entry(m)

\* The loop ends, whatever the messages: it goes past one that it skips.
ParsingEnds == <>(pc = "done")
=============================================================================
