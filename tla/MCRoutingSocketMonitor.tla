----------------------- MODULE MCRoutingSocketMonitor -----------------------
EXTENDS RoutingSocketMonitor

CONSTANTS i1, r1, r2, up, down

MCInterface == {i1}
MCRoute == {r1, r2}
MCState == {up, down}
MCWanted == {<<i1, up>>, <<r1, up>>, <<r1, down>>}
=============================================================================
