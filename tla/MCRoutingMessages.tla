-------------------------- MODULE MCRoutingMessages --------------------------
EXTENDS RoutingMessages, TLC

Sizes(r, i, a) == "route" :> r @@ "interface" :> i @@ "address" :> a

\* Darwin, NetBSD, and OpenBSD with a kernel whose headers have grown and with
\* one whose headers are shorter than the structs; all for amd64.
Darwin == [rtaAlignTo |-> 4, sizeofMsghdr |-> 4, hdrlen |-> FALSE, current |-> TRUE,
           sizeofSockaddrDatalink |-> 20, datalinkData |-> 12,
           sizeof |-> Sizes(92, 112, 20),
           header |-> "unknown" :> 16 @@ Sizes(92, 112, 20)]
NetBSD == [rtaAlignTo |-> 8, sizeofMsghdr |-> 4, hdrlen |-> FALSE, current |-> TRUE,
           sizeofSockaddrDatalink |-> 20, datalinkData |-> 12,
           sizeof |-> Sizes(120, 152, 24),
           header |-> "unknown" :> 24 @@ Sizes(120, 152, 24)]
OpenBSD(current, grown) ==
          [rtaAlignTo |-> 8, sizeofMsghdr |-> 6, hdrlen |-> TRUE, current |-> current,
           sizeofSockaddrDatalink |-> 32, datalinkData |-> 24,
           sizeof |-> Sizes(96, 160, 24),
           header |-> "unknown" :> 24 @@ Sizes(96 + grown, 160 + grown, 24 + grown)]
MCPlatform == {Darwin, NetBSD, OpenBSD(TRUE, 8), OpenBSD(TRUE, -8), OpenBSD(FALSE, 0)}

\* Socket addresses: none, netmasks cut short, and each family; what OpenBSD has
\* of a link address is longer, and so is the name that it may hold.
Sa(len, family, unspecified, nlen) ==
    [len |-> len, family |-> family, unspecified |-> unspecified, nlen |-> nlen]
MCSockaddr == {Sa(0, "none", FALSE, 0), Sa(5, "inet", FALSE, 0), Sa(9, "inet6", FALSE, 0),
               Sa(16, "inet", TRUE, 0), Sa(28, "inet6", FALSE, 0),
               Sa(20, "link", FALSE, 3), Sa(54, "link", FALSE, 15)}

Message(type, flags, index, addrs) ==
    [type |-> type, flags |-> flags, index |-> index, addrs |-> addrs]

\* One message with any addresses, at the first index, in between, at the last
\* one that is logged and at one that is not.
AnyAddrs == UNION {[s -> MCSockaddr] : s \in SUBSET {0, 2, 5, 7}}
Single == {<<Message(t, {}, 1, a)>> : t \in Type, a \in AnyAddrs}
              \cup {<<Message("unknown", {}, 1, 0 :> Sa(16, "inet", FALSE, 0))>>}

\* Dumps: what the filter keeps and what it leaves out.
Mask == Sa(5, "inet", FALSE, 0)
Inet(unspecified) == Sa(16, "inet", unspecified, 0)
Dumped == {Message("interface", {"up", "running"} \cup f, i, 4 :> Sa(32, "link", FALSE, 3)) :
               f \in {{}, {"loopback"}}, i \in {1, 2}}
     \cup {Message("address", {}, i, 2 :> Mask @@ 5 :> Inet(FALSE)) : i \in {1, 2}}
     \cup {Message("route", {"up"} \cup f, 1, 0 :> Inet(u) @@ 1 :> Inet(FALSE) @@ 2 :> Mask) :
               f \in SUBSET {"gateway", "host"}, u \in BOOLEAN}

MCBuffer == Single \cup UNION {[1 .. n -> Dumped] : n \in {0, 1, 2, 3}}
                  \cup [1 .. 4 -> {m \in Dumped : m.type # "route"}]
=============================================================================
