------------------------------ MODULE RtaAlign ------------------------------
(***************************************************************************)
(* route/bsdroute/bsdroute_bsd.go, RtaAlign: how much room a socket        *)
(* address takes in a routing message, given the length byte it begins     *)
(* with.  The code computes in uint8; rtaAlignTo is 4 or 8, by platform.   *)
(***************************************************************************)
EXTENDS Integers

\* (n + rtaAlignTo - 1) & ^uint8(rtaAlignTo-1), in eight bits: clearing the low
\* bits leaves a multiple of rtaAlignTo.
RtaAlign(rtaAlignTo, n) ==
    LET sum == (n + rtaAlignTo - 1) % 256
    IN  IF n = 0 THEN rtaAlignTo ELSE sum - (sum % rtaAlignTo)

\* The room the kernel gives an address: ROUNDUP of the BSD source trees, in
\* the width of an int.
Padded(rtaAlignTo, len) ==
    IF len = 0 THEN rtaAlignTo
               ELSE ((len + rtaAlignTo - 1) \div rtaAlignTo) * rtaAlignTo
=============================================================================
