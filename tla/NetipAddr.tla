----------------------------- MODULE NetipAddr -----------------------------
(***************************************************************************)
(* net/netip, which is not part of the repository, as far as its packages  *)
(* tell addresses apart.  An Addr is sixteen bytes and a z that says that  *)
(* it is not set (z0), IPv4 (z4), IPv6 without a zone (z6noz) or IPv6 with *)
(* one; the bytes of an IPv4 address are those of its IPv4-mapped IPv6     *)
(* address.  The unsafe code of ip/ip.go relies on all of this.            *)
(***************************************************************************)

CONSTANTS
    Bytes,      \* the values of sixteen bytes
    Mapped,     \* those of IPv4-mapped addresses, ::ffff:0.0.0.0/96
    zero,       \* sixteen zero bytes
    Zone,       \* the z of each zone
    z0, z4, z6noz

ASSUME AddrAssumption ==
    /\ Mapped \subseteq Bytes
    /\ zero \in Bytes \ Mapped
    /\ z0 # z4 /\ z0 # z6noz /\ z4 # z6noz
    /\ {z0, z4, z6noz} \cap Zone = {}

\* The zero Addr, and the values of netip.Addr.
NoAddr == [ip |-> zero, z |-> z0]
Addr == {NoAddr} \cup [ip : Mapped, z : {z4}]
                 \cup [ip : Bytes, z : {z6noz} \cup Zone]

IsValid(a) == a.z # z0
Is4(a) == a.z = z4
Is6(a) == a.z # z0 /\ a.z # z4
Is4In6(a) == Is6(a) /\ a.ip \in Mapped
Unmap(a) == IF Is4In6(a) THEN [a EXCEPT !.z = z4] ELSE a
AddrFrom16(bytes) == [ip |-> bytes, z |-> z6noz]
=============================================================================
