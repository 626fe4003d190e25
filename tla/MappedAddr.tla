----------------------------- MODULE MappedAddr -----------------------------
(***************************************************************************)
(* ip/ip.go: comparison and conversion of IPv4 and IPv4-mapped IPv6        *)
(* endpoints, each in a safe form, through the methods of net/netip, and   *)
(* in an unsafe one, which looks at the fields of a netip.Addr itself; and *)
(* the choice of an address by family in resolv/main.go.                   *)
(***************************************************************************)
EXTENDS Integers, Sequences, NetipAddr

CONSTANTS Port

AddrPort == [addr : Addr, port : Port]

-----------------------------------------------------------------------------
AddrPortMappedEqual(l, r) ==
    \/ l = r
    \/ l.port = r.port /\ Unmap(l.addr) = Unmap(r.addr)

AddrPortMappedEqualUnsafe(l, r) ==
    l.addr.ip = r.addr.ip /\ l.port = r.port

AddrPortv4Mappedv6(ap) ==
    IF Is4(ap.addr) THEN [addr |-> AddrFrom16(ap.addr.ip), port |-> ap.port]
                    ELSE ap

AddrPortv4Mappedv6Unsafe(ap) ==
    IF Is4(ap.addr) THEN [ap EXCEPT !.addr.z = z6noz] ELSE ap

-----------------------------------------------------------------------------
\* The family a caller of ResolveAddr prefers: 0, 4 or 6; others are invalid.
OfFamily(a, af) ==
    IF af = 4 THEN Is4(a) \/ Is4In6(a) ELSE ~Is4(a) /\ ~Is4In6(a)

Matches(ips, af) == {i \in 1 .. Len(ips) : OfFamily(ips[i], af)}

\* What ResolveAddr returns, given the addresses that the resolver has found:
\* the first of the preferred family, if there is a choice of addresses.  When
\* the resolver fails, ResolveAddr returns its error before any of this.
ResolveAddr(ips, af, answer) ==
    IF Len(ips) > 1 /\ af \notin {0, 4, 6}
        THEN answer = "invalid address family"
        ELSE \E i \in 1 .. Len(ips) :
                 /\ answer = ips[i]
                 /\ IF Len(ips) > 1 /\ af # 0 /\ Matches(ips, af) # {}
                        THEN /\ i \in Matches(ips, af)
                             /\ \A j \in Matches(ips, af) : i <= j
                        ELSE i = 1
=============================================================================
